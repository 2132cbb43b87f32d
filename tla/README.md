# Verification of the simulator independent coverage passes

This directory holds TLA+ models of the coverage passes for FIRRTL and of the
fuzzer that uses them, the TLC configurations that check the models on small
instances, and proofs that the properties hold for instances of any size.

## The system

The repository instruments a hardware design with `cover` statements, counts
them in whatever backend simulates the design, and maps the counts back to the
source. Its parts, the state each keeps and what is hard about it:

| part | state and operations | how it interacts | hard behaviour |
|---|---|---|---|
| scan chain (`firesim-coverage/.../CoverageScanChain.scala`) | one hardware counter per cover point; count, shift | is scanned out by FireSim's host through `en` and `out`; announces the order of the points in `CoverageScanChainInfo` | counts travel through other points' registers; saturation; a scan given up half way; two codes compute the same order |
| fork server (`fuzzing/afl-proxy`, `AFLDriver.scala`, AFL) | three processes, two pipes, two FIFOs, a file, shared memory | one request and one answer per input | interleaving without locks, timeouts, signals, death of each process |
| AFL's queue (`afl-fuzz.c`) | the inputs that are kept, the bits of coverage that are known, the best entry of every byte, a dozen counters | every execution of the target is one request to the proxy | an entry is calibrated, trimmed, rated and fuzzed in many executions, each of which may fail, or be the last one before a signal |
| campaign script (`fuzz.py`) | the iteration it is in, the JVMs it has left running | all iterations use the same FIFOs and the same input file | a fixed sleep is all the synchronisation; who opens a FIFO with whom |
| fuzz target (`FuzzTarget.scala`, harness, `MetaResetPass`, `MuxToggleCoverage`) | a simulator that is kept running between inputs | is called by the driver and by the analysis | state that survives from one input to the next |
| coverage analysis of a fuzzing run (`CoverageAnalysis.scala`) | the points covered so far, a JSON text | runs every input of AFL's queue on the target | signed bytes, an early return |
| FSM coverage (`FsmInfoPass`, `FsmCoveragePass`, `FsmCoverage`) | cover points, a register with the previous state | analysis announces transitions, instrumentation counts them | over-approximation, resets in mid-run |
| toggle coverage (`AliasAnalysis`, `ToggleCoveragePass`, `ToggleCoverage`) | groups of signals that alias, one register per group | the group of a port is covered in a module further up | merging groups, modules with several instances |
| line and ready/valid coverage | cover points per branch and per port | counts are added up per line over all instances | points removed by other passes |
| cover point removal, merging of results and statistics | counts of earlier runs | removes points that all instances have reached | several instances per module; results that lack a build |
| pass order (`Coverage.scala`, the annotations) | the annotations and the order FIRRTL derives | every pass sees what ran before it | unordered passes |
| reset assumption, random state, clock and reset helpers | ports and registers of a module | prepares formal cover traces | order against other passes |
| scripts (`merge_cov.py`, `vcd_to_testbench.py`, ...) | files | post-processing | - |

What makes each part correct is stated by the properties below, or named in
the plan where the part is not modelled yet. `PROJECT.json` lists the hazards
with their lines, and the lines of the code that every definition stands for.

## Modules

| module | models | abstract / composed with |
|---|---|---|
| `CoverCounters` | what a set of saturating counters promises: count, and read all of them in one step | abstract specification |
| `ScanChain` | the counters and the shift register of `CoverageScanChainPass`, scanned out one value per cycle | implements `CoverCounters` |
| `ScanChainDesign` | how the pass wires a hierarchy of modules into one chain, and the list it announces | - |
| `FuzzServer` | what AFL expects of the program it fuzzes: an outcome for every input | abstract specification |
| `ForkServer` | AFL's fork-server client, `afl-proxy.c` and `AFLDriver.scala` composed over pipes, FIFOs, a file and shared memory | implements `FuzzServer` |
| `FuzzTarget` | `FuzzTarget.run` on a design with the meta reset, the assertion signal and the multiplexer coverage | - |
| `CoverageAnalysis` | `CoverageAnalysis.run` over the queue that a campaign leaves | - |
| `FsmAnalysis` | the transitions that `FsmInfoPass` derives from a next-state expression, and those the hardware can take | used by `MCFsmCoverage` |
| `FsmCoverage` | the registers and cover points of `FsmCoveragePass` beside the machine | composed with `FsmAnalysis` |
| `AflQueue` | the dry run, calibration, trimming, rating, culling and fuzzing of queue entries in `afl-fuzz.c` | - |
| `FuzzCampaign` | the iterations of `fuzz.py`, the JVM of each, the session that AFL and the proxy have with it | composes several JVMs; what happens between a request and its answer is `ForkServer`'s |
| `AliasAnalysis` | `AliasAnalysis.findAliases`, module by module | used by `ToggleCoverage` |
| `ToggleCoverage` | `ToggleCoveragePass` and what `ToggleCoverage.processCoverage` makes of its annotations | composed with `AliasAnalysis`, its first phase |
| `ForkServerProofs`, `FuzzTargetProofs`, `CoverPointsProofs` | the inductive invariant, the lemmas and the theorems about the module of that name | extend it |
| `ScanChainProofs` | the same for `ScanChain`, then for `ScanChainDesign` | extends both |
| `FuzzCampaignProofs` | the same for `FuzzCampaign`, then for `CoverageAnalysis` | extends both |
| `FsmCoverageProofs` | the same for `FsmCoverage`, then for `ToggleCoverage` | extends both |
| `AflQueueSteps`, `AflQueueProofs` | the same for `AflQueue`: what its operators compute and each action does; then the invariant part by part and the theorems | the second extends the first |
| `CoverPoints` | line and ready/valid coverage, simulation, merging of results, removal of points, report, over several builds | composes six small components |

The `MC` modules give the constants the values that need an expression; a
module without one is instantiated by its `.cfg` alone. Operators whose
comment says "Mutated form" are plausible bugs: each of them makes some property
fail, which shows that the property depends on the code at that place. A type
invariant is a conjunct of one of the safety properties of its module, except in
`ScanChain`, where it is proved by itself.

### Scan chain

A state of `ScanChain` is the register file of the generated hardware (`reg`),
what the host has read in the current scan (`read`) and what it made of the
last one (`report`). `CountCycle` is a clock cycle with `en` low, in which any
set of cover conditions may hold: `generateCounter`'s increment, its overflow
check and its carry. `ShiftCycle` and `LastShiftCycle` are cycles with `en`
high. The host is not in this repository. Two hosts are assumed: one that
completes each scan (`Spec`) and one that may lower `en` in the middle
(`AbortSpec`, action `Abort`). `events` and `dirty` are history variables.

`CountsInPlace` says where each count is in the middle of a scan. `ReportExact`
says that a report is what was covered since the previous one; after an
abandoned scan that holds again from the second report on, because a complete
scan clears all registers (`ScanClears`). The refinement maps the counts that
are split between chain and host to one atomic `count`: every step is one of
`CoverCounters` or invisible to it, with one exception, the step that gives up a
scan, which leaves counts in the registers of other points
(`ImplementsCounters`). The run uses the second host, whose behaviours include
those of the first.

`ScanChainDesign` follows the wires from the `out` port of the main module back
to the constant zero, one register or instance boundary per step, and compares
the order with the list of `getCovers`. `ChainEnds` needs weak fairness of the
walk, which is only the promise to keep walking.

### Fork server

`ForkServer` has one action for every system call of the three processes that
may block, so that all their interleavings are explored. A cell in a pipe
carries the role its sender gave it, for the invariant `Framing` only: the
receivers do not look at it. Opening a FIFO is a rendezvous. Timers, `SIGINT`
and the death of AFL or of the JVM are actions without fairness. All other
actions of a process are under weak fairness of that process: the operating
system schedules a process that is not blocked. A JVM whose coverage does not
fit into the map cannot do anything but fail the `require`, and that is fair,
too.

`ImplementsServer` is the summary: through timeouts, a late answer, oversized
results and all interleavings, AFL sees one outcome for each input, with the
trace of that input. `SharedDataStable` says that the shared memory and the input
file, which nobody locks, are not written while the other side uses them.
`EndsHaveCause` says that neither AFL nor the JVM gives up without a reason that
lies outside of the protocol. `EveryRunEnds` and `JvmFinishes` are the liveness: no run blocks for
ever, and a JVM that was connected ends after AFL has ended.

The pid that the proxy reports is that of no process, so `AflTimeout` changes
only `timedOut`; that is why a late answer is still an answer. Before the first
outcome `AflInitTimeout` does kill the proxy.

### AFL's queue

In `AflQueue` one execution of the target is one step: the runs of
`calibrate_case`, of `trim_case`, of the dry run and of the havoc and splicing
stages. A trace gives each byte of the map its class of hit counts; what
an execution leaves in the map is a choice among the traces that the target has
for this input, so a target with varying traces is one with several. An input
may be one whose executions sometimes time out or crash. Inputs are opaque, with
a length and the inputs that remain when a block is cut out. `pc` and `cal` are
the place in `fuzz_one` and the locals of `calibrate_case`; the dice that
`fuzz_one` throws are choices. `mutated` is a history variable.

The properties relate what AFL believes to what the target does:

- `NothingLost`: what has once been taken off `virgin_bits` can be seen again by
  running an entry of the queue, though entries are trimmed and calibrations
  fail after the bits were taken off;
- `FavoredExact`, `FavoredCover`, `BestRated`: the counters of favored entries, on
  which the probability of skipping depends; that the favored entries hit every
  byte something hits; that a top rated entry is the best one;
- `CountersExact`: reference counts of traces and the number of pending entries;
- `FilesComplete`: every file has the length the queue gives it, on which the
  `mmap` of splicing relies;
- `FavoredFuzzed`: a favored entry is fuzzed, or is no longer favored. This needs
  weak fairness of afl-fuzz itself, as of any running process; the interrupt is
  not fair, and which entries the dice skip is not either.

Several of them hold only for targets whose traces do not vary (`Stable`), and say
so in their premise; that is a limit of the code, not of the model. With
a varying trace `cull_queue` may count an entry as favored twice, because the
bytes it crosses off come from a trace of an earlier execution
(`afl-fuzz.c:1353`).

The run `afl_queue_retry` shows a defect: when an entry's calibration has failed
once, `fuzz_one` calibrates it again with `exec_cksum` set to 0
(`afl-fuzz.c:5115`). `calibrate_case` takes that for the first run of a new input,
finds no new bits, as they were cleared when the input was found, and returns
`FAULT_NOBITS`. The entry is then abandoned and marked as fuzzed though nothing
was executed but the calibration.

Left out of AFL: the deterministic stages (`fuzz.py` passes `-d`), dictionaries,
synchronisation with other instances, resuming an old session, the performance
score (only how many mutations are tried depends on it), the counters
`queued_with_cov` and `queued_variable` that are only displayed, `FAULT_ERROR` and
`FAULT_NOINST`, which end the program, and the skip request of `SIGUSR1`.

### Campaign script

`FuzzCampaign` has the JVMs of all iterations at once. A FIFO is opened in two
steps, as the kernel does it: who arrives wakes those that wait for the other end,
and waits if there is none, where an end that is itself waiting counts. So a proxy
may be served by the JVM of an earlier iteration, by several, or by
none, and content survives in a FIFO as long as anybody has it open. What can go
wrong in a campaign is a set of faults, and the run checks several such sets:

- `slow_start`: the simulator is not built when the sleep of 13 s is over;
- `slow_run`: a run outlasts its session and the sleep after it;
- `torn_open`: the session ends between the two opens of a JVM;
- `crash`: a JVM dies while it is built or while it runs an input;
- `folder_exists`: the script exits because results would be overwritten.

Without `slow_*` the sleep is assumed to do its work (`Rested`), which is exactly
what `fuzz.py` assumes; the handshake timer of AFL (10 s) is assumed to be longer
than a JVM takes from one open to the next.

AFL does not write over the input file: `write_to_testcase` unlinks it
(`UnlinkInput`), creates a new one (`CreateInput`) and writes it (`WriteInput`), before
the proxy asks (`Ask`). When the time is up in between, AFL ends after the write
(`stopped`). A JVM takes a request (`JvmWait`) and then opens the file
(`JvmOpenInput`, `AFLDriver.scala:52`); if there is none, that is the `IOException` which
ends its loop, and it writes `end_time` though its session goes on.

AFL and the JVM are in step (`InStep`) as long as every request is answered in its
session: if nothing is slow, or no run outlasts its session and none ends between the
two opens of a JVM. With `slow_run`, or with `slow_start` and `torn_open`, an answer of one
session is taken for the first one of the next; AFL then goes on to its next input while the JVM is
still about to open the last one.

- `SessionsAreSeparate`: in step, `end_time` is not written before the session of its
  iteration is over, and the input file is complete whenever a JVM is about to open it. If
  nothing is slow each session is served by the JVM of its iteration and by no other,
  and `end_time` of an iteration is there before the next session begins.
- `AnswerIsForTheInput`: in step, AFL is told about the input that it has asked for,
  also when a proxy is served by several JVMs.

Out of step both fail, as described; they have `InStep` as a premise. A file that
is opened while it is created but not yet written counts as no input (`NoInput`).
`CampaignEnds` and
`JvmsEnd` are the liveness; they need that every process goes on when it can and
that the timers (`timeout`, and the one of AFL's handshake) fire. `JvmsEnd` names
the JVMs that are left over for ever: those that were late wait for a proxy that
does not come.

### Fuzz target

The design is a table: next state, one multiplexer condition, an assertion and
a write enable as functions of a register bit, a memory bit and the input pin.
`MetaReset`, `Reset` and `Step` are one clock cycle each, `Return` is the end
of `run`. `metaCovers` says whether `MetaResetPass` ran after
`MuxToggleCoverage`: neither pass declares an order, so both are initial
states. A condition that depends on reset itself is not in the tables.

`RunsAreIndependent` compares each result with what a freshly reset design
returns for the same words. Its premise names the two cases in which the code
does *not* give that: designs with memory, which nothing resets, and full-toggle
coverage whose own register the meta reset did not reach.

### Coverage analysis

Every step of `CoverageAnalysis` is one file of the queue, run or written. The
JSON text is a sequence of tokens, checked by a small parser.

- `CoverageOfBytes`: what is reported is what some valid input shows as a byte
  (`Shows`: the count is positive after the cap and `toByte`), also when the analysis stops
  early, and nothing is reported that no input toggled. It holds for every cap and is
  checked with the one that the Makefile passes, 255.
- `CoverageComplete`: what is reported is what was toggled. That is what the comment in the
  code says; the run `coverage_analysis_byte` shows that it is false for a cap of
  255 (`fuzzing/Makefile:68`): counts above 127 become negative bytes, and the point is
  not covered. For caps up to 127 it follows from `CoverageOfBytes`.
- `JsonWellFormedToTheEnd`: without an early return the text is well-formed. With
  one (`CoverageAnalysis.scala:94`, everything is covered before the last input)
  the array is not closed.

### FSM coverage

`FsmAnalysis` has the recursive analysis of next-state expressions and, as the
reference, the values the expression can really take. `FsmCoverage` runs the
machine with resets at any cycle, or, for a machine without a reset, with any
initial value of the register that says whether there is a previous state.
`TransitionsComplete` says the analysis misses nothing, `TransitionCountsExact` that
each count is right; without a reset one transition into the first state may have
been counted that nothing took. Two branches to one state give two cover points for
one transition, and both count, so the counts of transitions do not add up to the
number of cycles as `FsmCoverageTest.scala:31` says of its example.

### Alias analysis and toggle coverage

`AliasAnalysis` goes over the modules bottom-up. Every order that a hash map or
a hash set may have is a choice: the order in which pairs of ports are looked at
(`TakeAlias`), and the order of lists (`FinishModule`), on which depends which
alias of a port its parents get to see. The reference joins connected signals
edge by edge, through the instances. `AliasGroups` joins two properties: signals
of a group are aliases (soundness, which holds always), and the groups are right
unless a pair of groups that are to be merged bridges two pairs that have nothing
in common. In that case `findMerges` may leave two overlapping groups
(`AliasAnalysis.scala:107`); an instance with one input and two outputs beside a
pass-through instance is enough.

`ToggleCoverage` runs that analysis as its first phase, then goes over the modules
as `ToggleCoveragePass` does: `CoverGroup` samples a group or leaves it to the
parents, `ResolveModule` and `ResolveInstance` are `resolvePortAliases`. Modules may
be excluded, external, or without a clock. `ReportExact` compares the report with
the nets of the whole flattened design: every signal of every instance is reported
once, with the toggles of its own net, if the groups were right. `SampledOnce` says that
two aliases are not sampled twice, and `FailsOnlyWithoutClock` that the pass throws
only if there is a module without a clock around a module with one
(`ToggleCoveragePass.scala:140`).

### Cover points

A state of `CoverPoints` is a build of a design, its running simulation, and the
results on disk. Actions are the passes in the order of `CoverageShellOptions`
(`Instrument`, `FindCoversToRemove`, `RemoveCoverPoints`), a clock cycle of the
simulation, saving its counts, merging any two results as `merge_cov.py` does, and
the report (`ProcessCoverage`). `basis` and `hits` are history variables: which
builds went into a result, and what really happened in each of them. A result is
`Closed` when it has all the results that its builds were given.

- `OnlyCoveredEverywhereRemoved`: what is dropped was hit `Threshold` times in every
  instance of the module;
- `ReportExact`: a line has the executions of its block in all instances, a port
  those of its instance, and no line of a block with an effect is missing;
- `NothingIsLost`: the merged results of a campaign know every point and have the
  right count up to `Threshold`, and every closed result can be reported: there is
  always a build that was given no results, and with its annotations the
  report fails only for results that are not closed, with a key that is not found
  (`LineCoverage.scala:26`);
- `PointsStayRemoved`: from one build to the next no point comes back.

The annotations of a build are an input of the report. `LoadTestCoveragePass` adds the
results that the build is given to them (`RemoveCoverPointsPass.scala:97`), nothing takes
them out, and `collectTestCoverage` insists on exactly one (`Coverage.scala:33`). So with the
annotations of such a build the report fails for every other result (`pc` is
`ambiguous`), and the results of a campaign that drops points have to be reported with
those of its first build. The annotations of the points are the same in all builds.

Three small disagreements are noted here and not as runs, as they concern a limit of the code
or the wording of a message: only one result file is accepted although the
comment speaks of several (`RemoveCoverPointsPass.scala:106`, `:134`); points are
dropped at 10 hits, while the comment says at least one (`:107`, `:114`); and the
statistics print as removed what was requested for some instance, although the point
stays until all instances have asked (`CoverageStatisticsPass.scala:76`).

## Runs, bounds and why they are enough

| run | bounds | reason |
|---|---|---|
| `scan_chain` | 3 counters of 1 bit, 2 events for each | first, inner and last register differ; one event more than the counter holds; an abandoned scan leaves one or two values in foreign registers |
| `scan_chain_design` | 3 modules with up to 3, 2 and 2 statements, one external | repetition, nesting, sharing, empty modules |
| `fork_server` | map of 3, pipes of 2 cells, 0, 2 or 3 cover points, 3 inputs | the JVM blocks in the middle of a result; empty, full and oversized; an answer, a late one, and the one after it |
| `afl_queue` | 4 inputs of length 1 to 3, map of 3 bytes with 2 classes, one seed, calibration of 2 runs (3 when variable), 3 chances, 2 trimming runs, one mutation, one splice | two cuts of one input of which one changes the trace; an entry better than another at one byte only; calibration that fails at first, in the middle and at every chance; a target with one trace per input and one with two |
| `afl_queue_retry` (violation) | the same, with two inputs that may time out | an entry fails its first calibration and is chosen by `fuzz_one` |
| `fuzz_campaign` | 3 iterations, 2 inputs, 4 sets of faults; 696,156 states | an iteration after one that was late, and one more that should be right again |
| `fuzz_target` | 2 inputs of up to 4 words, cap 2 | second run on the state of the first; two full toggles |
| `coverage_analysis`, `coverage_analysis_byte` (violation) | 2 points, counts 0, 1, 128 (200 in the violation), 3 files, cap 255 | complete before the last file, invalid files at each end, both sides of the largest byte |
| `fsm_coverage` | 3 states, expressions of two multiplexers, with and without reset, 6 cycles | a reset between two stretches with a transition each |
| `toggle_coverage` | for the report: 4 modules on 3 levels with 3 sets of kinds, ignored and clockless ones; for the alias analysis: 5 modules, 3 levels, up to 3 instances | ports that are passed up twice, a module that is sampled by a parent in one place and by itself in another; the smallest designs with a bridge |
| `cover_points` | 3 designs, 3 builds of which 2 are simulated for 2 cycles, threshold 2 | a point below, at and above the threshold, in one result or in the sum of two; a third build from each subset of the results |

In `toggle_coverage` the designs of the second kind have nothing to cover: only their
aliases are computed. The constant `Threshold` is 10 in the code; nothing
depends on its value but when points go.

Deadlock checking is off where the modelled program stops: the campaign, the
walk along the chain, the analyses, the bounded simulations. It is on for the
scan chain and for AFL's queue.

## Proofs

TLAPS checks the theorems below for every value of the constants that satisfies the
assumption of the module (`ChainAssumption`, `ForkServerAssumption`, ...): that a bound
is a number, that a table has entries for its inputs, that the value for "none" is
none of the others. The assumptions on designs (`DesignAssumption`,
`CoverPointsAssumption`, `ToggleAssumption`) say what FIRRTL's checks ensure: no module
contains itself, no signal drives itself through others (`NoLoop`), a block belongs to one
`when`, a circuit is finite, a black box contains nothing. TLC evaluates the same assumptions in every run. No theorem depends on the
bounds of a run.

Every proof has the same shape. `IInv` is a conjunction of named parts; each action
has a lemma that it preserves `IInv` (in `AflQueueProofs`, each part has a lemma that
all actions preserve it); `IInvHolds` says that it holds always; the theorems follow from it. What
`IInv` needs beyond the properties is the interesting part:

### Scan chain

`TypeCorrect`, `CountsStayInPlace`, `ZerosStayBehind`, `ReportsAreExact`, `ScansClear`
hold also for the host that abandons scans; `ChainImplementsCounters` is
`ImplementsCounters` for any host, and `CompletedScansImplementCounters` says that with a
host that completes its scans the chain implements `CoverCounters` itself, step by
step. `ReportExact` alone is not inductive: the report is made from values that were
read over several cycles, so one has to know where each count is in the middle of a
scan (`CountsInPlace`), and that the registers behind the scan are zero
(`ZerosBehind`), or the counters would not start from zero again. The saturation
argument (`IncrementSaturates`, `SaturatedStep`) shows that the increment with its
carry and overflow check is a saturating sum.

Of a hierarchy of modules `OrdersMatch` and `ChainsComplete` state `OrderMatches` and
`ChainComplete` of `ScanChainDesign`, for every circuit. `OrderMatches` speaks of the end of
the walk only, so it is not inductive. `WalkInv` says of every step that the list of
`getCovers` is what is still to come followed by what was met, turned around
(`Reached`). What is still to come depends on all the instances that the walk is
inside of: `acc[j]` is what is announced before the `j`-th of them, and with the
elements of that instance up to the one the walk is in it makes up `acc[j + 1]`
(`Follows`). The walk goes backwards, so entering an instance takes its whole
list off at the end, and leaving it finds `acc` again. That the recursion of `getCovers` has
a result at all needs that no module contains itself (`DesignAssumption`).

### Fork server

`TypeCorrect`, `StreamsInStep`, `EndsAreCaused`, `OneUserAtATime` and
`ForkServerImplementsServer` state `TypeOK`, `Framing`, `EndsHaveCause`,
`SharedDataStable` and `ImplementsServer` for every map size, pipe capacity, length of
the coverage and number of inputs. `IInv` is the lock step of the three processes,
seen from each of them: `AflInStep` (what AFL has not read, and how far the proxy may
be), `ProxyInStep` and `JvmInStep`. Its core is `InStep`: what is in the FIFO, followed
by what the JVM has not written, is the rest of the result of the input that AFL has
submitted. That the pipe of AFL's requests never holds more than one (`Len(ctl) <= 1`)
had to be added, though no property speaks of it.

### Campaign script

`SessionsSeparate` and `AnswersMatch` hold for any number of iterations and any
set of faults, with `InStep` as the premise that the properties have. `IInv` bounds how many requests may be without an answer (`Backlog`: one
for every session so far), relates the opens of the proxy to those of the JVM
(`OwnJvm`, `OwnJvmInTime`), and says who holds a FIFO open, so that content of an
earlier session is gone before the next one begins (`RequestHeld`, `AnswerHeld`,
`Served`). `FileStates` relates the input file to what AFL is doing: it is full
from the write until the answer, so in step a JVM that has a request finds it so. A JVM
that waits in its second open while the proxy reads is a state that
the other parts admit and from which an answer would get lost; `Served` excludes it.

### Coverage analysis

`CoverageIsOfBytes` and `JsonIsWellFormed` state `CoverageOfBytes` and
`JsonWellFormedToTheEnd` of `CoverageAnalysis`, for any queue of files and every cap. That
the reported coverage is complete if all counts fit is a corollary
(`CompleteIfCountsShow`). `AnalysisIInv` is about the three passes over the same data,
which the code makes with lists of different lengths: the files that are run
(`RunInOrder`), the entries kept, where the place of a valid file is the number of valid
ones up to it (`KeptInOrder`), and the entries not written yet (`WrittenInOrder`).
`CountedIsWritten` says that the points counted as covered are those of the entries
written, and that the early return leaves entries out only when nothing is left to
cover. For the text, that it is well-formed at the end says nothing about the middle:
`ReadSoFar` says where a parser stands that has read what was written so far. The parser of
the property is a fold over the tokens; `ParseAppend` makes it read one token at a time.

### Fuzz target

`RunsIndependent` holds for every design table, all inputs of any length and any number
of runs. `IInv` follows a run word by word beside the recursive function `Before` of the
property: it says that there is a function with the values of the register before each
word so far, and that a function that satisfies the equation of `Before` agrees with
it. At the end of the run that function is itself a solution of the equation, so that
no induction is needed to know that there is one.

### FSM coverage

`StatesCounted` and `TransitionsCounted` compare each counter with the set of cycles
in the history that it stands for; in a cycle such a set gains one element or none.
Without a reset `Excess` follows what the first cycle may have counted too much.
`StatesAddUp` is `StateCountsAddUp`; it is about a sum over all states. That the
analysis announces every transition (`TransitionsComplete`) is not proved: its
content is the recursive analysis, which TLC checks on expressions of bounded size.

### Toggle coverage

`FailsOnlyForClocks` and `NoneSampledTwice` state `FailsOnlyWithoutClock` and `SampledOnce`
for every design, every set of kinds, and every order in which groups and
instances are looked at; they do not depend on the alias analysis. `AliasGroupsRight`
states `AliasGroups` for every design and every order of the hash maps.

The pass throws in a module far above the one whose port is lost. What connects the two is
`ToggleIInv`: a port whose coverage was moved up belongs to an instrumented
module that is nowhere the topmost one (`PortsMoveUp`), and what a module has selected is
sampled, moved up or still to be covered (`NoneForgotten`). So when a parent neither
samples such a port nor passes it on, the parent has not selected it, and that leaves a
parent without a clock. `resolvePortAliases` changes the cover points while it goes through the
ports of an instance; `Going` says that they only grow meanwhile, and
`ResolvedIs` that its loop keeps it.

`SampledOnce` needs that the groups from which `coverSignals` takes its signals have nothing in
common. That holds for right groups: `TrueGroupsSeparate` shows that joining connected
signals edge by edge keeps a partition, by induction over the edges of a module and over
the modules bottom-up. `Samplings` carries that premise through the pass: what is sampled is in
none of the groups that are left (`SamplesLeft`), and no two samples are in one group
(`SamplesApart`).

The groups of `AliasAnalysis` are sound always and exact without bridges:

- *What right groups are.* `ConnectedGroups` characterises the reference: the partition
  from joining edge by edge has every edge in a part, and is finer than every other partition that
  has (`Refines`). So it is enough to compare parts, and `SameParts` says that partitions which
  refine each other are equal; the order of joining no longer matters.
- *Local groups.* The recursion of `getAliases` ends because of `NoLoop`: `RootExists`, by
  induction over the driven signals. Signals with one root are connected (`LocalGroupsRight`).
- *Port aliases.* `computePortAliases` pairs a port with the last other port of its group
  (`LastInIs`), so in separate groups all ports but one of a group have the same alias
  (`PortsRight`): a star, which connects the same ports that the whole group does. That is why
  keeping one pair for each port loses nothing.
- *Merges.* Each step of `findMerges` keeps that a merge lies in one part of the reference
  (`Sound`), since it only adds two groups with a connected pair of signals. If no pair
  of groups bridges two others, at most one merge is extended in a step, so that they stay
  disjoint (`MergedApart`), and no merge found earlier gets lost (`MergedGrows`).

`AliasIInv` puts these together for the module under way (`StepRight`) and those below it
(`BelowRight`). Soundness needs no more than sound groups below; exactness needs exact groups
below, and the star, which is the one place where the two halves have to be proved
together. Where a bridge is, `Apart` is what fails.

`ToggleReportExact` states `ReportExact`, for every hierarchy, every set of kinds, and every
order of groups and of instances. The property compares two things that are computed
from opposite ends: the report follows the annotations of the last state, the nets are those of
the flattened design. Neither is known while the pass runs.

- *Paths and nets.* `Paths` is computed top-down by a recursive function; `PathsAre` makes
  an equation of it, and `PathEnds` and `PathLast` relate a path to its last instance, which is
  what the pass sees. `NetsAre` says that the nets are the parts of the flattened
  wires, and `GroupsInNets` that signals in a right group of a module are in one
  net along each of its paths. That is all that the report needs to know of right groups.
- *The view.* `Reporting` claims that there is a view, a function on carriers: the cover
  points and the entries of `aliases`. For each it tells whose signals it stands for, which signal
  represents them, and along which paths that one is what counts. It is
  kept for as many carriers as there are in the state (`IsView`). An entry of a port is for
  the paths whose parent is still to be looked at (`Acts`, `Left`). And
  every signal covered so far is traced, from each path of its module, to exactly one carrier, one
  of its paths and the net that the signal is in (`Whole`, `Traced`).
- *Steps.* `CoverGroup` adds a carrier, for all paths of the module (`SampleShown`,
  `PassUpShown`). `ResolveInstance` is the difficult one: the paths that end in that
  instance leave the entry of the port, and go to the cover point or to another entry of the
  parent, which the signals follow (`MovedTraced`, `MovedWhole`). It does so port by port, and
  an entry may be used twice when a group has several ports of one instance (`InstanceWhole`).
  `ResolveModule` starts with the instances of the next module (`LeftNext`).
- *The end.* Above the topmost module nothing is left (`LeftNone`), so all is traced to
  cover points. `ReportTraced` shows that what is reported for a signal is what it is
  traced to, and `SameNumber` counts both: a set of paths and the set of their spots
  are in a bijection, net by net.

`ReportExact` includes the type invariant, `ToggleTypeOK`, which adds that a cover point
stands for the signal that it samples (`SampledListed`) and that no merge has a single
group (`MergesPlural`).

### Cover points

`NothingLost`, `RemovedOnlyCovered`, `RemovedStayRemoved` and `ReportIsExact` state
`NothingIsLost`, `OnlyCoveredEverywhereRemoved`, `PointsStayRemoved` and `ReportExact` for every
design, any threshold, and any number of builds, runs and merged results.

Results do not say what a build has counted, and the points of an old build are
no longer part of the state, so `IInv` has to claim that there is a history: `own`, the
counters that each build kept. `Results(own)` says that these counters follow from the
results each build was given, and that every result on disk is the sum of the
counts of its builds, as far as these had a counter. `Build(own)` says the same of the
build that is under way. From that `ClosedKnowsAll` follows: of the builds in a closed
result the first was given nothing, so it knew every point, and a point that a later one lacks
was counted often enough by those before it, which are in the result, too. No property
of one result alone is inductive, because what is removed depends on the merged results of
builds that may have had different points.

That the first build was given nothing is also why every result can be reported.

`RemovedStayRemoved` needs that sums only grow with more builds (`OftenMonotone`).
`ReportIsExact` also says that no line of a block with an effect is missing, where "with an
effect" is stated by what the hardware may execute, not by the nesting that the pass
follows. The proof goes outwards from an effect along the nesting (`OutwardExists`); a block
that is not met on this way can be left out when the effect is executed
(`ActiveWithout`, for which `InwardExists` constructs the execution), so every block that
cannot be left out is one that `LineCoveragePass` covers.

### AFL's queue

`CountersStayExact`, `FavoredStaysExact`, `FavoredAlwaysCover`, `NothingIsLost`,
`BestStaysRated` and `FilesStayComplete` state the six safety properties of the run
`afl_queue`, for any inputs, targets, sizes of the map and lengths of the stages. The parts of `IInv`:

- `Types` and `Control`: what each place of the program implies about `cal`,
  `queue_cur` and the entry whose file is not written yet;
- `Lengths`, `Traces`: the length and the trace of an entry are those of its input,
  except for the entry that is being trimmed, for which they are those of `in_buf`;
- `Progress`: how far an entry is. An entry with `cal_failed` 0 has a trace and
  a time, or waits for its dry run, or was left by a signal;
- `Rated`: like `BestRated`, but also during trimming, except for the entry whose file
  is to be written again: it is already shorter, and is compared with the top rated
  entries only when trimming ends. A top rated entry that becomes shorter stays the best;
- `References`, `Minis`, `Owners`, `Pending`, `Favored`: which entry holds a trace, how
  many references it has, and which bytes it has them for.

`Progress` was the difficult one. The weaker forms that the properties suggest are not
inductive: that a calibrated entry has a trace fails for one that a
signal leaves in its dry run, and an entry may be trimmed only because it was calibrated before, a
fact that `trim_case` does not check but `BestRated` depends on. `FavoredAlwaysCover` and
`FavoredStaysExact` need what the loop of `cull_queue` computes (`GrabFacts`): it takes top
rated entries only, at most one per byte, together they hit every byte that has one, and none is
taken twice if every entry hits the bytes that it is top rated for (`Owners`, for which
the traces must not vary).

### Induction

The library's induction theorems take an operator as a parameter, which the
provers cannot instantiate. The one about well-founded relations (`WFMin`) takes
sets. From it and `NatLessThanWellFounded` follows `Induction`, for a set of numbers, and
from the latter induction over the subsets of a finite set (`SubsetInduction`). With them the recursive
functions and the folds of the community modules are shown to be defined (a function with
their equation exists) and to do one element after another:

- `GrabSteps` for the loop of `cull_queue`, `SumsExist` and `SumGrows` for the counters of an FSM;
- `SumsExist` and `Sums` for the sums of results in `CoverPointsProofs`, with what
  follows for disjoint sets and for smaller summands (`SumOfParts`, `SumMonotone`);
- `ListExists` and `UptoExists` for the recursion of `getCovers` over the ranks of
  modules, `Flattened` for `FlattenSeq`, `CollectedIs` for the statements of a module;
- `Reading` and `ParseAppend` for the parser of the JSON text;
- `ResolvedIs` and `ResolvedSteps` for the port aliases of an instance, `Downward` and `Upward`
  for the paths of a hierarchy, `ConnectedIs` and `TrueGroupsAre` for
  the groups of connected signals, `RootExists` for the recursion of `getAliases`,
  `LargestExists` for the last element of an order.

These are about how the definitions are used in one proof; a statement about what
a recursive definition computes for every input, in general, is out of reach.

### Only model-checked

- liveness (`EveryRunEnds`, `JvmFinishes`, `ChainEnds`, `FavoredFuzzed`, `CampaignEnds`,
  `JvmsEnd`), which is out of reach of the prover;
- what the recursive operators in `FsmAnalysis` compute, as the prover cannot work with
  modules that have any, and with it `TransitionsComplete`;

## Not modelled

`PROJECT.json` lists the parts with reasons. Left out for good:

- the vendored copy of Verilator below `ext`, which is most of the lines of the
  repository and is used as a backend like any other simulator: its counters are
  the external ones of `CoverPoints`; of AFL what its section above lists, and its
  compilers and helper programs;
- command lines, the construction of compiler invocations, file formats of other
  tools, the text of reports, the FireSim host, benchmark data;
- passes that rewrite one node each and keep no state (change of the main module,
  keeping clock and reset ports, deletion of `printf`);
- names: fresh names of ports and cover points are model values that do not collide.

## Plan

In this order; what is done is marked.

1. [done] Scan chain with its abstract specification and proofs.
2. [done] Fork-server protocol and its abstract specification.
3. [done] FSM analysis and coverage, with and without a reset; fuzz target; analysis
   of a campaign.
4. [done] Alias analysis composed with toggle coverage.
5. [done] Cover points: line and ready/valid coverage, results, merging and removal.
6. [done] AFL's queue.
7. [done] The campaign script with the JVMs of several iterations.
8. [done] Proofs: scan chain, of one module and of a hierarchy; fork server; FSM coverage;
   fuzz target; campaign and its analysis; AFL's queue; cover points; alias
   analysis and toggle coverage.
9. The report of FSM coverage; the orders that the declared dependencies admit for
   reset assumption, random state and meta reset.
