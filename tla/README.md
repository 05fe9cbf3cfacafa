# TLA+ models of the masked Ibex core and of its verification flow

The repository takes the Ibex RISC-V core, masks it with two shares (every net
becomes two wires whose exclusive or is the value), and in a second variant adds
noise: a clock that skips edges, and cells that only draw power. It also carries
the flow that verifies the core: Python programs that find and cache proofs, run
a UVM regression as a parallel make, and judge and report its results. This
directory models both: the RTL where it is new or hardest to get right, and the
programs where processes, files and failures interleave. TLC checks the models
on small instances, TLAPS proves the most important results for all of them.

Paths below are relative to the repository (`src/`). `modifiedCoreRTL` is the
reference copy of the core: the files modelled here are the same in `rtl` and
`Verification_modifiedCoreRTL`. `withNoise/rtl` is the reference for the masked
cells, the wrapper and the noise, `baseline_ibex` for the flow.

## The system and its parts

### Hardware

| Part | State | Operations | Hard behaviour | What makes it correct |
|---|---|---|---|---|
| Masked cells (`gates_cmo.v`) | two flops per register | settle, clock, reset | the shares of a net are out of step while the netlist settles | recombined, each cell computes what the plain one does |
| Masking script (`test_final_masking_cmo.tcl`) | the netlist | replace cells, create and connect share-1 nets, constants, deal the random bus | constants and nets without a cell are handled textually | the masked netlist implements the unmasked one |
| Core wrapper (`ibex_core_wrapper.sv`) | none | split inputs, recombine outputs | the random bus changes every cycle | the environment cannot tell the wrapped core from the plain one |
| Clock generator (`clkgen.v`) | two LFSRs, a counter, the clock | tick, reset | lock-up of an XNOR LFSR, long runs of skipped edges | the core clock is never held long, never stops |
| Load/store unit (`ibex_load_store_unit.sv`) | FSM, last address, first half of a load | one step per cycle | split accesses; grants, responses, bus and PMP errors of two halves in any order | right bytes, precise errors, right `mtval`, protocol kept, no hang |
| ID and WB stage, loads and stores | the access in each stage | request, move on, kill | an access is requested in the cycle of the response to the one before | no access requested twice, none after a failed one |
| Prefetch buffer, fetch FIFO | FIFO of 3 words, 2 outstanding requests, 3 addresses | one step per cycle | branches that overtake requests; unaligned and compressed instructions; errors | the program's instructions, in order, once; no overflow; no stall for ever |
| Controller, CSRs | FSM, status registers | traps, interrupts, debug, sleep | priorities, several events in a cycle | planned |
| Testbench memory (`Verification_modifiedCoreRTL`) | memory, latched request | grant, respond | answers one cycle after the grant | the protocol the core's assertions ask for |
| PMP, multiplier/divider, ALU, decoders, register file | | | | planned or not modelled, see the end |

The load/store unit and the prefetch buffer talk to memory over the same kind of
bus: the core shows a request and keeps it until it is granted, and every granted
request is answered once, in order, in a later cycle. ID drives the LSU
(`lsu_req`), the LSU tells ID when the request is done and WB when the response
is there, and a failed response makes the controller flush ID. The wrapper and
the masked netlist sit between all of this and the environment; `clkgen`, in the
noisy variant, supplies its clock.

### Verification flow (`baseline_ibex`)

| Part | State | Operations | Hard behaviour | What makes it correct |
|---|---|---|---|---|
| Process runner (`dv/formal/conductor.py`) | two queues, a future, a subprocess and memory figures per process | shell, poll, preempt, restart, time out, cancel | provers grow, end, block and are killed beside the loop; preemption races cancellation | no caller and no subprocess is lost; everyone is answered |
| Race (`conductor.py`) | a task group | create, start, end, cancel | wrappers run after the loop that made them | the first result wins, cleanly |
| Proof cache (`conductor.py`, `smt2manip.py`) | a JSON file per step | explore, store, prove, info, bmc | interrupted stores, partial runs, a design that changes under the cache, properties that move between steps | the cache is sound, a complete `prove` proves everything |
| Regression (`dv/uvm/core_ibex/scripts`) | `metadata.pickle` and its lock, a pickle per test, make's stamps | a script per job | parallel jobs, torn pickles, interrupts, repeated makes | no update lost, the report complete and truthful, make ends |
| Test selection (`gen_testlist.py`, `metadata.py`) | the directed list, the matched tests | generate, match, filter, create | an old list, overlapping names, parameters | exactly the tests asked for, once |
| Tool requirements (`check_tool_requirements.py`) | requirements read, tools found | read, check, conclude | absent or garbled tools, odd version numbers | the exit code can be trusted |
| Configuration (`ibex_config.py`, `ibex_cmd.py`, `riscvdv_interface.py`) | the parsed configuration | parse, options per simulator and stage, ISA strings, command templates | several ways to the tools, nested placeholders | all tools see one configuration; no placeholder is left |
| Log checking (`ibex_log_to_trace_csv.py`) | position in a trace and a log | one line at a time | results, errors and timeouts in any order | the right verdict and the right blame |
| In-place conversion (`sv2v_in_place.py`) | files, temporaries | convert, copy back | a failure half way, an interrupt while copying back | a failed conversion changes nothing, an exception leaves no damaged conversion |
| Reports (`collect_results.py`, `report_lib`) | summaries, files | one report after another | incomplete coverage data, pickles that do not load | reports complete and in agreement |

The conductor submits provers to the runner through `shell()`, sometimes in a
race. In the regression, make starts the scripts as its rules allow; those that
describe the whole regression hold the lock of `metadata.pickle` while they change
it, those of a test read it unlocked and write the test's own pickle;
`check_logs.py` uses the log checker, `collect_results.py` the reports.

## Modules

**Masking.** `CmoGates` has the cells, `Netlist` an arbitrary netlist of plain
cells (the constants of the model: cells, pins, flops, tied nets).
`UnmaskedCore` is the abstract specification: the cycle behaviour of that
netlist before masking. `MaskedCore` is the netlist the script builds, with two
wires per net (`s0`, `s1`) that settle one at a time (`Eval0`, `Eval1`), the
wrapper around it (`SplitInput`, `Recombined`) and the random bus. Its clock edge
needs a settled netlist, which is what static timing guarantees.
`MaskedImplementsUnmasked` is the refinement, with the flops recombined.

**Clock.** `ClkGen` has one action `Tick` per edge of `i_clk`, and reset.
`held` is an observer.

**Data side.** `LoadStoreUnit` has one action per state of the FSM (`IdleReq`,
`WaitGntMis`, ...). They are relations between the registers, the request of ID
and the bus signals of the cycle. Data is a token per byte that says where the
byte comes from, so a lost, swapped or wrongly extended byte is visible.
`MemPipeline` adds ID and WB, with the parameter `WritebackStage` of the core.
`DataSide` composes them with any memory that follows the protocol,
`TbCombinational` with the testbench's memory (`TbMemory`).

**Fetch side.** `FetchFifo` and `PrefetchBuffer` are the two modules of the RTL,
`FetchPipeline` adds the pipeline (it branches, stalls and stops fetching when it
likes) and the program; `InstrSide` composes it with any memory that follows the
protocol.

A step of the synchronous modules is a clock cycle: combinational signals are
operators, registers are variables. Observers (`done`, `closed`, `record`,
`shown`, `got`, `pc`, `arch`, `held`) feed nothing back into the model.

**Formal flow.** `ProcessRunner`: the handlers run to their end on the asyncio
loop, so `Poll`, `shell` and `Cancel` are one action each; `Poll` is the three
loops of `ProcessRunner.poll` (preempt, start, reap) with `Process.poll` inside.
The subprocesses (`Grow`, `Exit`, `OomKill`, `TimeUp`) are the environment.
`Race` is `race()`. `Conductor` is the program over many runs: `Launch` picks a
command line, the modes are actions per step, and storing is two actions, because
the file is truncated before it is filled. `EditDesign` changes which properties
hold and, within `StepMaps`, the step of each; a cached block keeps the step it is
stored with, and `run_strategy` proves it there, without the properties that have
left that step (`Kept`). The engines are external: UNSAT and SAT
are right about the problem they are given, and they may give up. Their answers
are chosen per property, so the interleaving of their processes, which
`ProcessRunner` has, need not be repeated. Without `--hard`, exploring races two
engines and so raises (`ExploreRace`, from `Race`).

**Regression.** `Regression` has a program counter per job of the make.
Prerequisites come from `ibex_sim.mk` and `riscvdv.mk`. A locked job goes through
`Enter` (lock and load), `ExitOpen` (truncate) and `ExitDump` (fill, unlock), so
that readers without the lock and interrupts see the torn file. `Compared` is what
`check_logs.py` makes of a result; how it gets from the lines of a log to an
outcome is `SimLog`'s. `resim` is an observer.

**Scripts.** `TestSelection`, `ToolRequirements`, `IbexConfig`, `SimLog`,
`Sv2vInPlace`, `Reports` are sequential and share no state; `MCScripts` runs one
of them at a time. Text is abstracted to what the scripts' patterns find in it.
Where a script may die of an exception, that is an action: `Uncaught` and
`CopyTorn` of `Sv2vInPlace` (a full disk, a read-only file, Ctrl-C), `CollectBroken`
of `Reports` (a pickle that does not load).

**Runs.** Parts that share no state are checked in one run, one part at a time:
`MCParts` has the scripts, the conductor, the masked core and the testbench,
`MCClockAndData` the clock generator and the data side. A variable that never
changes says which part runs, and the variables of the others rest in an initial
state, so that the run explores each part exactly as a run of its own would.
Fairness is asked of the part that runs only.

**Proofs.** `MaskedCoreProofs`, `ClkGenProofs`, `DataSideProofs`,
`InstrSideProofs`, `ProcessRunnerProofs`, `ConductorProofs` and `RegressionProofs`
extend the module they are named after, `DataSideProofs` also `TbCombinational`;
`ScriptsProofs` extends the modules of the six scripts. Each begins with the inductive
invariant, then has the lemmas about the model's operators, one lemma per action,
and the theorems.

## Runs

| Run | Checks | Result | States |
|---|---|---|---|
| `parts` | the scripts: `SelectionCorrect`, `CheckTruthful`, `ConfigReachesTools`, `CommandsComplete`, `VerdictCorrect`, `CsvFaithful`, `ConversionOrderly`, `ReportsFaithful`; the conductor: `CacheWellFormed`, `CacheSound`, `ProveSound`, `ExploreAccounts`; a netlist with every kind of cell and a net tied high: `MaskedImplementsUnmasked`; with WB stage and the testbench's memory: `NoTbResponseWithoutPendingAccess`, `LoadsSeeStores` | hold | 1.37 M |
| `masked_tie_low` | `MaskedImplementsUnmasked` on a netlist with a net tied low | **violated** | |
| `clock_and_data` | the clock: `ClkTypeOK`, `HoldBounded`, `LockUpOnlyByPerturbation`, `CoreClockRuns`; with WB stage and any memory: `ErrorsPrecise`, `LoadCorrect`, `StoreCorrect`, `NoMemResponseWithoutPendingAccess`, `BusMatchesFsm`, `RequestStable`, `NeverHangs` | hold | 63 k |
| `instr_side` | `FetchConsistent`, `InstructionsCorrect`, `FifoNeverOverflows`, `StreamContiguous`, `RequestStable`, `FetchProgress` | hold | 87 k |
| `process_runner` | `NoneLost`, `OldestKeepsRunning`, `EveryShellAnswered`, `CancelRespected` | hold | 61 k |
| `race` | `RaceIsClean` | **violated** | |
| `conductor_moved` | `CompleteMeansProved` | **violated** | |
| `regression` | `MetadataConsistent`, `FirstResultTruthful`, `ReportComplete`, `MakeTerminates` | hold | 372 k |
| `regression_stale` | `ReportTruthful` | **violated** | |
| `tools_refused` | `RecentVcsAccepted` | **violated** | |
| `log_type_error` | `FailureReported` | **violated** | |
| `select_all` | `AllMeansEvery` | **violated** | |

Type invariants are conjuncts of `ErrorsPrecise`, `FetchConsistent`, `NoneLost`,
`CacheWellFormed` and `MetadataConsistent`.

### What the violated runs show

1. **A net tied low is masked wrongly.** `connect_shared_wires`
   (`synthesis/test_final_masking_cmo.tcl:380`) makes share 1 of a constant the
   complement of share 0, so the shares of any constant recombine to 1. For a net
   tied high this is right (`parts` has one); for a net tied low it turns 0
   into 1.
2. **A race of two never has a winner.** The wrapper in `race()`
   (`dv/formal/conductor.py:78`) awaits the loop variable, which names the last
   entrant by the time the wrappers run. The first wrapper awaits that coroutine,
   the second gets a `RuntimeError`, and the race raises it. So `explore` works
   only with `--hard`, which does not race.
3. **A failure after a pass is reported as a pass.** `check_logs.py:61` leaves
   `trr.passed` alone when the log has errors. In a directory where the test
   passed before the design was edited, the old `True` survives and `regr.log`
   says PASS. `FirstResultTruthful` shows that only tests simulated again are
   affected.
4. **A moved property is not proved, and prove does not notice.** A property's
   step is part of its name in the design, and the cache of a step names the
   properties without it. `prove --check-complete` counts as covered whatever any
   cached block names (`dv/formal/conductor.py:647`), but each block is proved at the
   step it is stored with (line 492), where a property that has moved to a later
   step is deleted from the problem (`aig-manip/src/main.rs:155`). After such an edit
   the run may end with 0 without having proved the property, which may be false.
   `ProveSound` says what remains true: what was covered and not moved away holds.
5. **A recent VCS is refused.** `to_semver` (`util/check_tool_requirements.py:260`)
   writes service pack and patch after the month without padding, so 2020.12 is
   2020.120 and the minimum 2020.03-SP2 is 2020.3200. In the same way 2020.01-SP10
   (2020.11000) is accepted. `CheckTruthful` is about the versions of which the order
   is kept (`DigitsFollowMonth`): same month, another year, or no fewer digits after
   the later month.
6. **FAILED without an error line raises `TypeError`** instead of being reported
   (`riscv_dv_extension/ibex_log_to_trace_csv.py:245` searches in `None`).
   `VerdictCorrect` claims nothing about the blame in that case.
7. **`all` is not all.** `process_directed_testlist` (`scripts/metadata.py:327`)
   knows `all_directed` only, so `TEST=all`, the default of the Makefile, runs no
   directed test. `SelectionCorrect` therefore does not say which directed tests
   `all` selects.

### Things seen while modelling

Hardware:

* `lfsr8` reaches its all-ones state from 01111111 when a perturbation arrives on
  the right cycle. There `skip_clk` is 1, and the core has no clock until a
  perturbation of 1 arrives, 32 cycles apart. Running the actual seeds, this
  happens some 270 times in five million cycles and lasts up to about 300 cycles.
  `CoreClockRuns` shows that the clock resumes; nothing bounds the time.
* `clkgen.v:64` prints "Clock edge skipped" on the edges on which it toggles.
* `genClks.sdc` declares the generated clock with `-divide_by 1`, while `o_clk`
  toggles at most once per rising edge of `i_clk`.
* `lfsr43.v` takes its perturbation from bits 27 to 21, the copy in `clkgen.v`
  from 37 to 21. The model covers both, since it lets the bit be arbitrary.
* The script links cells named `AN2_CMO` and `DFCNQ_CMO`; `gates_cmo.v` defines
  `AND2_CMO` and `DFFRHQ_CMO`. The model takes them to be the same cells.
* The older testbench at the top of the repository (`masked_core_tb.sv:179`, `:207`)
  registers its grants and so answers some requests twice.

Formal flow (`dv/formal/conductor.py`):

* `kill_restart` overwrites `kill_ = "kill"`: a process that is cancelled and then
  preempted before the next poll is restarted and runs to its end. This is why
  `CancelRespected` asks for `--no-kill`.
* A process whose peak plus 5 GB exceeds the machine blocks the queue for ever
  once it has been preempted (`EveryShellAnswered` asks that all fit), and with
  two CPUs or fewer nothing is ever started. Stdout is not read while a prover
  runs (line 158): one that fills the pipe ends only by its timeout.
* `prove --by-step` ends with 0 even when a proof fails; `explore --fresh -p X`
  drops the other proofs of the step from the cache; a SAT answer for a single
  property (434 to 436) is logged but not counted among the failures.

Regression (`dv/uvm/core_ibex`):

* An export that is interrupted leaves a torn `metadata.pickle`, which the next
  make keeps; all later jobs fail until it is removed. Readers without the lock
  may see the torn file in an undisturbed run, too, and fail.
* `failure_mode` `TIMEOUT` is never reset: a test that was killed once fails even
  if it passes later. `run_instr_gen.py` returns 0 when the generator failed.
* `filter_tests_by_config` (`ibex_cmd.py:187`) appends a test once for every
  parameter before the first that does not match: a test with two parameters can be
  listed twice, or kept although the second does not match. The lists have none
  with two; for such lists `SelectionCorrect` says only that nothing asked for is
  missing (`OneParameter`).
* A missing Python package or a garbled version raises instead of being reported
  by `check_tool_requirements.py`.
* The handler of `collect_results.py:58` for a pickle that cannot be unpickled builds a
  `TestRunResult` with a field `name`, which the class does not have: it raises
  `TypeError`, and the other exceptions of loading are not caught. With one torn
  pickle there is no report at all (`BrokenPickleStops`).
* `sv2v_in_place.py` catches `RuntimeError` only. An `OSError` or Ctrl-C while it
  copies back leaves the first files converted, one perhaps torn
  (`StoppedInOrder`); the originals are in version control only.
* `ibex_config.py:58` prints the extra keys where it means the missing ones.
* Coverage data without covergroups, or with a metric missing or of total zero,
  makes the HTML, JSON or summary step raise; `regr.log` and the JUnit files are
  written by then.

## Bounds, and why they are enough

* `MCMaskedCore`: one flop in a loop through INV, AND, OR and XOR, two inputs, a
  constant, one output. It has every kind of driver a net can have; the flop and an input share
  a random bit. The theorem `Refinement` covers every netlist.
* `ClkGen` has no bound: its state is finite. `held` stays at or below `MaxHold`.
* `MCDataSide`: three words, the last one denied by the PMP; words at nine
  offsets, half words at four and a byte. Three words give split accesses that fail
  in neither half, in the first and in the second, and one that wraps around. At
  most two transactions are on the bus, so there is no bound on the memory's delay.
  Without the WB stage the protocol is proved (`BusCounted`), not run.
* `MCTbCombinational`: the parameters of `masked_core_tb.sv`, with WB stage and PMP:
  three words, the last of them denied. Eleven accesses: overlapping split stores
  and loads of the first two words, accesses denied in their first or in their
  second half. The memory contents make the state space. For other
  programs and address spaces, and without the WB stage, there is
  `TbLoadsSeeStores`.
* `MCInstrSide`: four words, one more than the FIFO holds, so that a repeated word
  cannot pass for the right one; compressed and long instructions at both
  alignments, faulty first and second halves, one unaligned branch target.
* `MCProcessRunner`: three processes and a machine on which two of them do not fit
  beside each other, with and without `--max-mem` and `--no-kill`; the third blocks
  on its pipe until its timeout. One process more only lengthens the queue.
* `Race`: up to three entrants (`MaxEntrants`).
* `MCConductor`: two steps, five properties (one skipped, one cover), fifteen
  command lines; an edit may move two properties, one each way (`conductor_moved`: one
  of them, forward); the number of runs, interrupts and edits is not bounded.
* `Regression`: a generated and a directed test, two makes (`MaxMakes`), all
  outcomes of a simulation. Two makes are what a stale file or result needs.
* `MCScripts`: logs and traces of three lines (`MaxLines`), offsets of four bits
  (`ImmWidth`), three runs in a report (`MaxRuns`), pickles that load or do not;
  VCS versions of three years, with and without service packs; every class of tool,
  field, placeholder and coverage defect once.

Deadlock is checked except where the program stops: a race that is over, a make
that has ended for the last time, a script that has exited. `parts` has scripts and
so does not check it; of the other parts in it the netlist and the testbench always
have a next cycle, and an idle conductor a next command.

## Fairness

* `ClkGen`: `i_clk` runs (weak fairness of `Tick`), and `lfsr43` does not deliver a
  0 at every perturbation for ever (strong fairness of a perturbation of 1): its
  state runs through a cycle of odd length, of which every 32nd step is looked at.
* `DataSide`, `Fairness`: the clock runs, a request that stays is granted in the
  end and a granted one answered. This is the contract of the memory, not of the
  core.
* `InstrSide`, `FairSpec`: the same, and the pipeline neither stalls nor stops
  fetching for ever. Without this it is not the prefetch buffer that stops.
* `ProcessRunner`, `FairSpec`: `Poll` reschedules itself on the loop whatever
  happens; the kernel runs a live prover, and time passes. Submitting and
  cancelling are not fair.
* `Regression`, `FairSpec`: the operating system runs every script that can go on,
  and make notices that all have ended. Starting make, interrupts and edits are
  not fair.

## What is proved

`MaskedCoreProofs`, for every netlist, every width of the random bus and every
way its bits are dealt out, provided that no net is tied low (`NoTieLow`):

* `Refinement`: `Spec => MaskedImplementsUnmasked`. The argument: each masked cell
  recombines to its plain cell (`CellCorrect`), so do the flops (`FlopCorrect`);
  hence in a settled netlist the recombined wires are a settled valuation of the
  plain one (`SettledRecombines`), and the clock edge maps to a clock edge. A
  wire that settles is not a flop, so it is a stutter (`EvalInvisible`). The only
  invariant needed is `TypeOK` (`TypeCorrect`).

`ClkGenProofs`:

* `TypeCorrect`: `ClkSpec => []ClkTypeOK`.
* `LockUpNeedsPerturbation`: without a perturbation the shift reaches all ones only
  from a state whose bits 0 to 6 are ones and with a feedback of 1; the taps 5, 4
  and 3 being ones, the feedback is bit 7, so the state was all ones already.

`DataSideProofs`, for every address space, PMP configuration, program and memory
that follows the protocol, with and without the WB stage:

* `BusCounted`: `Spec => []BusMatchesFsm`. The LSU keeps no counter of the
  responses it waits for; `BusMatchesFsm` says what its state, the PMP verdict and
  the stages of the pipeline say about their number. It is inductive together with
  "the bus is a sequence" and "the FSM is in one of its states" (`IInv`). The
  proof has a case per state of the FSM.
* `ResponsesExpected`: the assertion of `ibex_core.sv` follows from it.
* `SpecErrorsPrecise`, `SpecLoadCorrect`, `SpecStoreCorrect`: an access is reported
  as failed exactly when a half of it was refused, with the right `mtval`; a load
  gets its bytes, a store writes its bytes and no others. What an access has to its
  name differs from one moment to the next, so the inductive invariant `Inv` has a
  part per phase of an access: `NothingOut`, `FirstShown`, `FirstOut`, `BothOut`,
  `SecondShown`, `LastOut` (`Phases`). Each says what is on the bus, what was granted
  and refused, and what address, verdict and control the registers hold; the
  last one also covers WB, whose access the registers of the LSU belong to while ID
  has its successor. The registers must match only in the phases in which they are
  used. How bytes lie in the two words of a split access, modulo the
  size of the address space, is a lemma (`ByteAddr`). `ErrorsPrecise`, `LoadCorrect`
  and `StoreCorrect` speak of the access that has just ended (`done`, `closed`), and
  follow from `Inv` of the state before the step (`AlwaysCorrect`).
* `SpecRequestStable`: from `ShownWaits`, a conjunct of `Inv`: what was shown and not
  granted is what the FSM is about to show.
* `TbResponsesExpected`, `TbLoadsSeeStores`: `TbSpec => []NoTbResponseWithoutPendingAccess`
  and `TbSpec => []LoadsSeeStores`, with the testbench's memory instead of any
  memory. It grants at once and answers in the next cycle, so only what the PMP
  refuses waits for a grant (`TbRefused`) and fewer phases are left (`TbFirstOut`,
  `TbSecondRefused`, `TbLastOut`). What is new is the memory: `mem` takes each half
  of a store when it is granted, `arch` the whole of it when it completes. `TbMem`
  says by which halves `mem` is ahead, for the words the PMP lets pass: by the
  granted ones of the access whose response is awaited (`Issued`). When that access
  completes the two agree again (`CommittedHalves`), but for the next one, which may be
  granted in the same cycle.

`InstrSideProofs`, for every program, address space, set of faulty words, sequence
of branches and memory that follows the protocol:

* `SpecFetchConsistent`: `Spec => []FetchConsistent`. The inductive invariant `Inv`
  is `TypeOK`, `OutstandingTracked`, `EntriesPacked`, `RoomForAll`, `InOrder`,
  `ShownWaits`. Its core is a count: of the words on the bus the first `StaleWords`
  belong to an abandoned stream, and `HeldWords + ComingWords + AskedWords`, all the
  words of the current stream that were asked for, never exceed `DEPTH`
  (`RoomForAll`). `InOrder` gives each of these words its place behind the
  address of the next instruction. A stale request that waits for its grant is
  overtaken by nothing, since the answers before it are stale as well.
* `SpecFifoNeverOverflows`, `SpecStreamContiguous`, `SpecRequestStable`: from `Inv`.
* `SpecInstructionsCorrect`: `Spec => []InstructionsCorrect`. The instruction the FIFO
  shows is made of the first one or two words of the stream, which by `InOrder` are
  what memory holds there; the cases are the two alignments, compressed or not, the
  second word in the FIFO or just arriving, and an error in either word.

`ProcessRunnerProofs`, for every set of shells, their memory needs and timeouts, every
machine and command line:

* `SpecNoneLost`: `Spec => []NoneLost`; `SpecOldestKeepsRunning` and
  `SpecCancelRespected`: the action properties. `NoneLost` is inductive together with
  "what is queued or runs has a future" (`Submitted`) and "with `--no-kill` the mark
  of a cancellation stays" (`CancelKept`). The work is in `Poll`, whose three loops
  each move processes between the two lists: a lemma per loop says that together
  the lists keep their elements, each once. The reaping loop is a recursive
  function of the position in the list (`StillRunning`); what it leaves is shown by
  taking the least position at which the claim would fail.

`ConductorProofs`, for every set of properties and division into steps, every set
of command lines and every well-formed initial cache, over any number of runs,
interrupts, failed writes and edits:

* `CacheAlwaysWellFormed`: `CondSpec => []CacheWellFormed`. Not inductive as it
  stands: between building a strategy and storing it the list is in memory
  (`PendingWellFormed`), and it fits only because it was built from what that step's
  file held and properties that are not in it (`GrownWellFormed`). After an edit the
  blocks may name properties of other steps, but are disjoint still.
* `CacheAlwaysSound`: `CondSpec => []CacheSound`, with the same strengthening.
* `ProveAlwaysSound`: `CondSpec => []ProveSound`. Each block is proved at the step it
  is stored with, for those of its properties that are in that step now, under all
  asserts that are in earlier steps now; were a property wrong, take one of the least
  step (`StepInduction`): all it assumes holds, so the block that proves it would not
  have been UNSAT. The skipped properties are assumed and never proved, so they must
  hold; a property that only a block of another step names is not proved either, and
  the premise `CoveredProps \ Proved \subseteq valid` excludes that
  it is wrong. That there are such properties is what `conductor_moved` shows.
* `ExploreAlwaysAccounts`: `CondSpec => ExploreAccounts`, from the invariant that the
  steps already passed are accounted for (`AccountInv`).

`RegressionProofs`, for every set of tests and outcomes of the simulations, over any
number of makes, interrupts and edits of the design:

* `MetadataAlwaysConsistent`: `Spec => []MetadataConsistent`. The strengthening
  (`MdInv`): a job inside the lock has read all that the file records (`Recorded`),
  nothing has run while metadata is created (`Untouched`), and no job outlives its
  make (`Quiet`), so the lock is free when the next one starts.
* `ReportAlwaysComplete`: `Spec => ReportComplete`. A job of a test at work is there
  to make something that is missing (`AtWork`), and what is missing holds up all
  that is made from it (`Chain`); so once all logs are checked, no such job is under
  way or can start while the results are collected (`Collecting`).
* `FirstResultsTruthful`: `Spec => []FirstResultTruthful`. A pickle says `True` for a
  test simulated once only if that simulation passed (`PassInv`); a job that checks a
  log has one to check (`AtWork`).

`ScriptsProofs`, for logs, traces, files and lists of every length:

* `LogVerdictCorrect`: `LogSpec => []VerdictCorrect`. The four values the loop carries
  are those of the lines read so far (`Read`), and only the last line read can have
  stopped it (`LogInv`).
* `TraceCsvFaithful`: `LogSpec => []CsvFaithful`. The entry of a branch is the one
  whose position is the number of instructions up to it (`CsvInv`); the offset,
  reduced to its width and made signed, leads back to the target.
* `ToolCheckTruthful`: `ToolSpec => []CheckTruthful`. What has been passed is checked,
  skipped or missing (`ToolInv`); `SemverOrder` says that `to_semver` keeps the order
  of two versions under `DigitsFollowMonth`, whatever the minimum is.
* `ToolCommandsComplete`, `ConfigAlwaysReachesTools`: `CfgSpec => []CommandsComplete`
  and `[]ConfigReachesTools`; the invariant `CfgInv` says what each phase has left.
* `Sv2vOrderly`: `Sv2vSpec => []ConversionOrderly`. The lists split so far have the
  paths seen so far (`ListsSplit`), no file changes before all are converted
  (`Converting`), and after that the files up to the current one are done
  (`Writing`), also when a path is listed twice; an exception keeps what `Writing`
  says, but for the file it tears.
* `ReportsAlwaysFaithful`: `RepSpec => []ReportsFaithful`. The two lists hold the
  pickles read so far (`Collected`), of which each one loads, and every step writes one
  report from them and leaves the ones before it (`RepInv`). That the sums over the JSON table are the
  number of runs is `SumOfRuns`: a sum over a set is some solution of a recursion over
  its subsets, and in a smallest subset on which that solution differs from the number
  of runs one test could be left out.
* `SelectionAlwaysCorrect`: `SelSpec => []SelectionCorrect`. The list of directed tests
  names no test twice and none of riscv-dv's, also while gen_testlist writes it
  (`YamlOk`, `ListWritten`), and each step of metadata computes from what it is given
  and changes none of it (`SelInv`). The rest is about lists: what `FlattenSeq` does to a
  list with one more piece (`FlatAppend`), and from it the elements, their order and
  that none is repeated, for filtered lists (`ThoseFacts`), for the filter by
  configuration (`FilterIs`) and for the TEST.SEEDs (`TdsOnce`). Induction over lists
  is stated for a set of lists that is closed under `Append` (`SeqSetInduction`), as
  the provers cannot instantiate a predicate.

The assumptions are those named in the modules. Most only give the constants their
types (`NetlistAssumption`, `MaskedAssumption`, `LsuAssumption`,
`PipelineAssumption`, `FetchFifoAssumption`, `FetchPipelineAssumption`,
`JunkAssumption`, `ConductorAssumption`, `CommandAssumption`,
`RegressionAssumption`, `ToolRequirementsAssumption`, `SimLogAssumption`,
`IbexConfigAssumption`, `Sv2vAssumption`, `ReportsAssumption`, `SelectionTypes`,
`TestSelectionAssumption`); `ShownAssumption` and `NoneAssumption` keep the
marker for "no request" apart from requests. These ask for more:

* `ProcessRunnerAssumption`: more than two CPUs, as otherwise nothing is started.
* `VcsAssumption`: service packs and patches have at most two digits. The minimum
  may be any version.
* `CmdTemplateAssumption`: options that are enabled exist, and options and the
  caller's substitutions have different names that option texts do not repeat, as
  in `rtl_simulation.yaml`.
* `NamesUnique`: no name stands for two tests, in one list or in two. It holds of the
  57 riscv-dv tests, the 30 handwritten ones and the 913 of the suites in the repository;
  nothing in the scripts checks it, and two tests of one name would share their pickles.

Only model-checked:

* Liveness (`CoreClockRuns`, `NeverHangs`, `FetchProgress`, `EveryShellAnswered`,
  `MakeTerminates`): out of the prover's reach.
* `HoldBounded`: `ClkGen` has no constants, so the exhaustive run is the full result.

## What is not modelled

* Inside the masking script: the walk over hierarchical ports, the skip lists, and
  the helpers of the domino flow (instance depths, precharge clock). Masking is
  modelled functionally; side-channel leakage is a statistical matter and outside
  of this method.
* `MemECC`, `ICache`, `BranchPredictor`, `SecureIbex` and with them lockstep,
  dummy instructions and the instruction cache: off in every configuration the
  repository builds.
* `casr37`, `ring_oscillator`: their outputs drive nothing.
* `gng`: third-party; its output is arbitrary in the model.
* ALU, decoders, register file: tables and plain storage.
* Tracer, physical design, synthesis constraints: no behaviour to check.
* The older testbench at the top of the repository, and the upstream RTL, of which
  `modifiedCoreRTL` is the copy in use.
* In the flow: the text of command lines and reports, the simulators, provers and
  generators themselves (external, by their outcomes), `syn/python`, `doc/conf.py`
  and `fix_bugs.py` (filters and settings without state).
* The splitting of a block of properties in `build_strategy_rec`: it is reached
  only through `race()`, which raises first.

## Plan

1. Done: masking, clock generator, data side, fetch side, testbench memory; the
   formal flow, the regression and its scripts; first theorems.
2. Done: proofs of the data and the fetch side, of the process runner, of the
   testbench memory and of the six scripts: of all that the runs check, but liveness
   and `HoldBounded`.
3. Next modules: `Controller` (FSM with exceptions of ID and WB, interrupts, NMI,
   debug, WFI) with the trap part of the CSRs, against an abstract specification of
   a precise trap; `CoreSleep` (clock gate of `ibex_top`, `core_busy`, prefetch
   buffer) composed with it; `IrqInjector` (closed-loop injector of
   `masked_core_tb_interrupt.sv`); `MaskingFlow` (the script's walk over
   hierarchical nets against the flat masking of `MaskedCore`); `MultDiv` at a
   reduced width and `Pmp` against reference definitions.
