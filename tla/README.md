# himorime in TLA+

himorime is a benchmark runner for command-line programs: it reads suites of
benchmarks, runs their commands, compares two revisions or checks budgets, and
writes reports. This directory holds a TLA+ model of it, checked with TLC, and
proofs about the model, checked with TLAPS. Paths below are relative to
`src/internal/` unless they say otherwise.

## 1. The system

| Part | Code | State it keeps | Operations | What is hard about it |
| --- | --- | --- | --- | --- |
| Invocation | `cli/` | temporary directory, base worktree, results, exit status; the context that the first SIGINT or SIGTERM cancels | `run`, `compare`, `report`, ... | deferred removals in reverse order, an interrupt at every step, several failures and one exit status |
| Git worktrees | `gitwt/` | a worktree and its administrative entry in the user's repository | `AddWorktree`, `Remove`, `pruneOrphans` | crashes between steps, other himorimes and the user in the same repository |
| Runner | `runner/` | per side: workdir, variables, stdin; per unit (side, command): samples, slices of every metric group, failure | `Measure` and all it calls | rounds in random order with failing units, adaptive stopping, metrics that become unsupported, hooks, interruption |
| Process runner | `proc/proc*.go`, `usage*.go`, `floor*.go` | the running command, its tree handle, the watcher goroutine | `Run` | timeout or cancellation racing the end of the command; releasing what is still used |
| Spawner | `proc/spawner*.go` | pool of idle spawners; in each spawner the environment, the running tree, the watch on the socket | `runSpawned`, `prepareSpawner`, `serveSpawner` | three goroutines and two processes on one socket; kill requests that come early or late; either process dying |
| Terminal | `proc/terminal*.go` | pseudo-terminal, typing and copying goroutines | `OpenTerminal`, `Close` | closing against a goroutine that still types, reads or waits |
| Judgement | `report/build.go`, `aggregate.go`, `budgets.go` | none: a function of the measurements | `Judge` | floors, skipped and failed metrics, one exit status from many verdicts |
| Statistics | `stats/` | none | `Summarize`, `Compare` | zero and missing values, resampling |
| Reports | `cli/reports.go`, `cli/report.go`, `report/section.go`, views, `ghactions/` | files | checking the destinations, writing a file, replacing a section of a document | partial writes, one file under several names, documents that talk about markers |
| Configuration | `config/`, `metric/` | resolved suites | `Load`, `resolve` | inheritance of settings, checks across fields, agreeing with the run on what is allowed |

A measuring invocation calls the runner once per benchmark; the runner calls
`proc.Run` for every hook and every command, one at a time; `proc.Run` starts a
process itself or, when memory is measured on Unix, asks a spawner. The context
is the only thing they share with the signal handler. Results go up as values:
`proc.Result`, then `Measurement` per unit, then verdicts, then files and the
exit status.

### What makes each part correct

- Runner: rounds are in lockstep, so samples of the sides pair up; slices stay
  aligned; measuring ends, and not before it has what a verdict needs; teardown
  runs every cleanup hook of every side that was touched and removes every
  workdir; the first failure is the one reported and an interrupt is never lost.
- Process runner and spawner: a command starts at most once, with the
  environment it asked for; nothing of it is left unkilled when `Run` returns; a
  result that claims neither timeout nor cancellation comes from a command
  nobody touched; every call returns although commands may hang.
- Invocation and worktrees: whatever was created is removed, whichever step
  failed; the user's repository is left as it was; the exit status is the worst
  thing that happened.
- Judgement: a verdict, a budget and a pass hold for every value the
  measurement is compatible with; the summary, the exit status, the annotations
  and the geometric mean agree with the verdicts and with what was measured.
- Reports: whatever fails or is killed while a report is written, the document
  around it survives; no two reports of an invocation share a file; the saved
  comparison is not overwritten; writing the same report again changes nothing.
- Configuration: what validation accepts the run does not refuse after it has
  built and measured; what a suite says has an effect; the most specific level
  decides.

`PROJECT.json` lists the hazards of the code, each at its line, with the
properties that cover it.

## 2. Modules

| Module | Models | Implements |
| --- | --- | --- |
| `Runner` | `Runner.Measure` with `round`, `runOnce`, `recordRun`, `teardown`, ... | |
| `MCRunner` | instances of `Runner` | |
| `RunnerProofs` | theorems about `Runner` | |
| `CommandRun` | the contract of `proc.Run` | |
| `Spawner` | `runSpawned`, the pool, `serveSpawner`, `watchHimorime` | `CommandRun` |
| `MCSpawner` | instances of `Spawner` | |
| `SpawnerProofs` | theorems about `Spawner` | |
| `ProcRun` | `proc.run` on Unix and Windows | `CommandRun` |
| `MCProcRun` | instances of `ProcRun` | |
| `Terminal`, `MCTerminal` | `OpenTerminal`, `Close` and the two goroutines between them | |
| `ProcProofs` | theorems about `ProcRun` and `Terminal` | |
| `Worktree`, `MCWorktree` | `AddWorktree`, `Remove`, `pruneOrphans` of several invocations, git, the user | |
| `WorktreeProofs` | theorems about `Worktree` | |
| `Invocation`, `MCInvocation` | `measurement.execute` with `finish` and `Main` | |
| `InvocationProofs` | theorems about `Invocation` | |
| `Stats` | `Summarize`, `Aggregate`, percentiles, as exact ratios | |
| `Comparison`, `MCComparison` | one metric of one command: `evaluateBudget`, `compareMetric` and `stats.Compare`; extends `Stats` | |
| `Judge`, `MCJudge` | one suite: `report.Judge`, `summarize`, the geometric mean, `WriteAnnotations` | |
| `JudgeProofs` | theorems about `Judge` | |
| `Section` | `report.ReplaceSection` and the outline of what it puts in place | |
| `Reports`, `MCReports` | `checkReportDestinations`, `writeReports`, `UpdateMarkdownSection`, the command `report`; extends `Section` | |
| `ReportProofs` | theorems about `Comparison`, `Section` and `Reports` | |
| `Config`, `MCConfig` | `config.Parse` after the schema, and every place of the run that expands a template or confines a path | |
| `ConfigProofs` | theorems about `Config` | |

Operators whose definition ends in `\* mutant: ...` are not part of the model:
each is the plausible slip in the code that the property named in
`PROJECT.json` notices.

### Runner

`b` is the resolved benchmark; `pc` follows `Measure` from its checks through
`prepareSide` per side, the loop and the deferred `teardown`. A process, hook
or command, is two steps: it starts (`ProcessStarts`) and returns with one of
three outcomes; it can also return without having started. `Interrupt` cancels
the context between any two steps, so it lands inside every process too. A unit
is a pair (side, command); `samples`, `slice`, `failed`, `skipped` are the
fields of its `Measurement`. The random permutation of a round is the
nondeterministic choice of `PickUnit`. Elapsed times matter only through
`min_time`, so `total` is the sum capped there. Abstracted: messages, progress,
path checks and every file operation before a process, which all end in the
same failure of the same owner.

### CommandRun, ProcRun and Spawner

`CommandRun` states what a caller of `proc.Run` may rely on, in six variables.
`ProcRun` and `Spawner` are shown to implement it under the mappings at their
ends (`Contract`, `Implements`). `Runner` relies on it in turn: a process
returns "interrupted" only when its context is done.

In `ProcRun` the variable `suspends`, which never changes, is
`suspendedUntilAttached`: FALSE is Unix, TRUE is Windows. A killed process is "doomed" until the system has
removed it, which is what tells the two platforms apart in `tree.close`: Unix
signals the group and goes on, Windows waits for the job to be empty.
`Resident` changes himorime's memory at any time; `peak`, `inherited` and
`floor` are VmHWM, the value the kernel folds into the command at exec, and the
value read after the command. `floor` is 0 when nothing could be read, and always
on Windows. `stray` is a history variable: it records that a process of the
command has left the tree, which on Unix a descendant may do (`Leaves`), or was
started outside it.

In `Spawner` a call goes through the client's steps, its watcher goroutine is
`watcher[c]`, the spawner's two goroutines are `at` and `watch`, and the two
directions of the socket are FIFOs of whole messages. The fallback to
`proc.run` is an outline here (`Direct...`), since `ProcRun` has the detail.
`Faults` switches on what may go wrong. Descriptors and the copying of streams
are abstracted to the error they may cause.

### Terminal

`typist` and `copier` are the goroutines of `typeKeys` and `copyOutput`, `main`
is `Close`, and every look at a channel or at the terminal is a step. The
command, which may change the mode, read, write and exit at any moment, and a
descendant that may outlive it, are the environment. A key ends a line
("enter") or it does not ("char"): nothing else about it matters. The terminal
is the kernel's: a bounded queue each way; in line mode only whole lines can be
read, and what is unread when line mode returns counts as one. The two seconds
of `terminalDrain` may pass at any time, so `DrainOutput` gives up
when it likes.

### Worktree

`entries` is `.git/worktrees`: names, given by git to the first free one, and
for each the worktree it belongs to and whether its file `gitdir` was written.
Each himorime goes through `pruneOrphans`, `git worktree add`, `settleIndex`
and `Remove`; git is a process of its own (`git[h]`) whose steps interleave
with everybody's. `Interrupt` cancels the context, which kills git unless it
removes; `Kill` ends himorime and leaves git running, and `TempCleared` makes
what it left an orphan. The user adds worktrees and unmounts them. Abstracted: what is checked out, and
the timeout of `Remove`, which only makes git fail.

### Invocation

`pc` follows `execute` and its calls, `defers` is Go's stack of deferred
removals, `code` the named result that they may change. A benchmark is one step
that yields what the report counts of it (`results`) and the failures recorded
for it; what `Judge` finds is any verdict possible in the mode. `early` and
`failures` are histories. Each report in `Dests` is written or fails, in any
order; the log is what GitHub Actions shows. `Panic` may happen in any step,
`InterruptAgain` is the second signal, after which nothing runs.

### Stats and Comparison

Samples are naturals and every float is an exact ratio, so a comparison against
a threshold is decided without rounding. `Comparison` judges one side against a
budget and two sides against each other, step by step in the order of the code:
`Skip` or `Prepare` (what `raiseToFloor` does to the samples), `Draw` once per
resample, `Classify`, `Settle` (what the floor leaves of the verdict). A
resample is any sequence of indexes the generator could draw. The floors are
per run, as they are recorded. `Sorted` is given by what stands at each place;
`Classify` asks in the order of the code, since more than one of its conditions
can hold. The properties speak of `Real`: the samples a
side can really have had, that is any value up to the recorded one for a run at
or below its own floor.

### Judge

`Judge` starts from what `measureSuite` hands over: per benchmark and unit the
measurement the runner delivers, failures and an interrupt included. What
`stats.Compare` says of two measured sides is any verdict it can give, which is
what `Comparison` is about. The budgets are those the validator passes
(`BudgetOK`): a limit on the latency, which stands for any metric without a
floor, bounds it from either side, one on the peak RSS only from above, and only
where memory is measured. The result of a command, benchmark and suite, the
gates, the counts of the summary, the exit status and the annotations are then
operators in the shape of the code, and the properties compare the two ways on
which the program comes to its answer: the worst of the results, and the counts.

### Section and Reports

A line of a document is known by what `ReplaceSection` looks at: a heading, a
fence, a delimiter of a front matter, a marker or nothing of these. `Scanned` is
its scan, line by line. `Rendered` is the outline of what `renderMarkdown` writes:
two levels of headings, the results, and `Description`, the line of the suite's
description, which is what the user wrote (section 4). A file is an
inode, names are its directory entries, and a spelling is a way to write a
destination that may lead through links. `writeFile` truncates, writes and
closes in separate steps; `replaceFile` makes, writes, closes and renames its
temporary file; each may fail and `Killed` may come between any two. `Again` is
the next invocation over what is left. `over` keeps which files were opened to be
written over, by `writeFile` or by a rename onto one of them; the other files are
the user's documents, of which only sections may change.

### Config

A suite is the document as the schema lets it pass (`Schema`, checked for every
suite of the run by `SuitesAssumption`). An optional setting is a
set of at most one value, a template the sequence of its references, a path its
references and segments. `Issues` collects what the resolver rejects, `Resolve`
is what it returns. The actions follow the run to each place where it expands a
template or confines a path: version commands, builds of the sides, setup hooks
and the stdin fixture, hooks and commands and the input of `work`, cleanup.

## 3. Runs

| Run | Bounds | Shows |
| --- | --- | --- |
| `runner` | fixed: a plain run (3 runs, 1 warmup, skip policy), a comparison (2 sides, 3 units, 2 runs, 1 warmup, 2 cleanup hooks), two refused benchmarks; adaptive: a comparison raised from `min_runs` 1 to `min_samples` 2 and a plain run, `max_runs` 3; elapsed times 0, 1, 2 against `min_time` 2 | rounds, slices, teardown; measuring stops, and completely |
| `spawner_faults` | 2 commands, 3 spawners, 2 environments, all faults but a crash | safety and the contract |
| `spawner_live` | 2 commands, 1 spawner, which may die; without it commands start directly | every call returns, nothing is started twice or outlives himorime |
| `procrun` | 2 commands, both values of `suspends`, resident sets 1..2, descendants that leave the process group, a floor that cannot be read | safety, liveness and the contract |
| `terminal` | 3 keys (a line and one key more), 3 writes, 2 of each fit into the terminal; both modes; the writer may fail | keys are typed one by one, the output is complete, `Close` returns |
| `worktree` | 2 himorimes, 1 lasting and 1 new worktree of the user, 3 names, every failure | who is not killed leaves nothing, left-overs are cleared, lasting entries are safe |
| `invocation` | a comparison of 2 suites of 1 benchmark, 2 reports, in GitHub Actions, panics | removals, evidence, the diagnostic and the exit status |
| `comparison` | 3 runs a side in ascending order, values 0, 1, 2, 3, 5, with no floor, floor 2, or a floor that rises from 1 to 2; a side that was not measured; the median; three sets of options (confidence, `min_samples`, `max_cv`, `min_difference`, a budget on median, max and min); 2 resamples, any indexes | verdicts and budgets hold below the floor, rest on every resample, and separated samples are called |
| `comparison_floor` | two sides of 5 runs over floors of 2, one at them and one with 3 runs at 3; the mean, a tolerance of 5%, confidence 0.95 | finding 1 |
| `judge` | 2 benchmarks of 2 commands, one of which a comparison measures on the head alone or not at all; 6 measurements (complete, at the floor, skipped, zero, two failures); budgets from both sides, gates per metric; a suite new in head, a failed build, an interrupt | status, results, annotations and geometric mean agree |
| `reports` | 4 names and 5 spellings, hard links among them, 3 documents, 9 sets of outputs, a description that is a heading, 2 invocations | documents stay whole, files are not shared, sections are stable |
| `config` | 7,111 suites: 20 paths in 7 places, 6 templates in 9 places, settings, variables and tolerances over all levels, each setting and the hooks over theirs, budgets with metrics and work, streams on a terminal, names, outputs; both sides | accepted suites run, rejected paths leave, settings fit each other, the most specific wins |

Two commands are enough for what leaks from one call into the next, which is
what these models look for: a stale kill, a watcher or watch left over, an
environment remembered wrongly. Two himorimes are enough for a prune that
races an add or another prune; one that is killed is the left-over that the
other one clears. Three names for four worktrees make git wait for a name when
all are taken at once, and never otherwise. The removal of a worktree that git refuses, a
directory that cannot be removed and a git that was killed leave different
entries behind, so each has its own failure. Two suites let the first succeed,
fail or be interrupted before the second; two reports let either one fail. Three
keys let one key join an unread one, end a line, and follow it. Three spawners are one per way of starting
one: the background preparation and one per command after a discard. When the
model has none left to start, starting fails as it may in the code. Two units
per side, with three rounds, let a unit fail before, in and after the round of
another. Spawners are interchangeable, and so are himorimes, so
`spawner_faults` and `worktree` use symmetry; the liveness runs do not. A
spawner that dies is only in `spawner_live`, which has one spawner, since deaths
multiply what `spawner_faults` has to look at. `CHECK_DEADLOCK FALSE` appears where the model stops
once its last command was run, its verdict given or its reports written.

Three runs a side in order are all there is to a side for a median, a minimum
and a maximum, and the values lie below, at and above both floors; the resamples
need no order either, and two of them can agree, disagree and have no base. The
two benchmarks of `judge` differ in what they gate, measure and budget, so each
kind of result meets each other one. Two invocations of `reports` show what the
second makes of what the first wrote, failed to write or left behind. The suites
of `config` vary one thing at a time in all its places, and together what the
code decides together. `Comparison`, `Judge` and `Config` are functions run step
by step; their bounds are the inputs.

Most invariants are conjunctions: `SamplesAligned` of `TypeOK`, `Lockstep` and
`SlicesAligned`; `TornDown` of what teardown owes to hooks, workdirs and the
interrupt; `CommandsKeptApart` of `TypeOK`, `ReportedRunsUndisturbed`,
`EnvAgreement` and `IdleSpawnersQuiet`. Where a module has a type invariant it is part
of one of these.

Fairness: the goroutines of himorime and of a spawner are always scheduled, the
runtime's timers fire and a killed process dies; every timeout of a resolved
configuration is positive (`config/model.go` defaults, `resolveExec`). In
`Terminal` the command ends, since its timeout does, but a descendant may hold
the terminal for ever. Of the measured command it is assumed that its first process
stays in its process group (it leads the group, so it cannot make a session; it could
only move into another group of its session on purpose). It may run for ever, and any
other of its processes may leave the group.

## 4. Findings

1. `comparison_floor`: `compareMetric` (`report/build.go:554`) asks whether the
   statistic of a side is at its floor. With `regression.*.statistic: mean`, and
   for the median of an even number of runs, the statistic may be above the floor
   although some of its runs are at it: the side is then taken as exact, and a
   regression or an improvement is called that the real values contradict. In the
   run the base records 2 five times and the head 2, 2, 3, 3, 3, all over floors
   of 2. The means are 2 and 2.6, and all but (2/5)^5, about 1%, of the resamples
   of the head have a mean more than 5% above 2, so a regression is called with
   confidence 0.95 however many resamples are drawn. But the head may really have
   been 0, 0, 3, 3, 3, with a mean of 1.8, and the base 2. With the sides swapped
   it is an improvement. `src/CHANGELOG.md:187` says such a comparison "reports
   only a regression or an improvement that holds whatever the real value below
   the floor is", and `website/content/metrics.md:131` argues the same. With the
   median of an odd number of runs it is true, for any number of runs and any
   samples (`HoldsForOddRuns`).

Seen while modelling, without a run of their own; the models behave like this,
and the counterexamples are a few steps long:

- Teardown chooses the context of its hooks once (`runner.go:451`). Interrupted
  before, it gives them 30 seconds of their own; interrupted during teardown, it
  runs the remaining hooks under the canceled context, so they do not run.
  `website/content/configuration.md:91` promises cleanup after interruption.
  `TornDown` therefore exempts an interrupt that comes during teardown.
- On Unix the rest of the process group is signalled, not waited for
  (`proc_unix.go:49`); `proc.go:9-11` says a temporary directory is never still
  in use when it is removed.
- On Unix a descendant that leaves the process group (a daemon that calls
  `setsid`, a job of an interactive shell) is reached by no kill and outlives the
  call (`Leaves` in `ProcRun`). `proc.go:8-11` says a benchmark cannot leak
  processes, and `website/content/metrics.md:147` that a process left running in
  the background is stopped "on every platform". The contract `CommandRun` is
  about the command's tree, and `NothingEscapes` says what holds: nothing starts
  outside of it, and on Windows nothing leaves it.
- When the floor of a run cannot be read it is 0 (`readFloor`, documented at
  `usage.go:33`), and the report takes the peak as the command's own although
  part of it may be himorime's. `FloorCoversInherited` is about a floor that was
  read.
- `pruneOrphans` looks at the directory an entry names and then removes the
  entry by name (`gitwt.go:237`). If the entry goes in between (its owner
  removes it, or another himorime prunes it) and the user adds a worktree called
  `tree`, git gives it the same name and the user's entry is removed;
  `gitwt.go:7-8` says that those are never touched. `LastingEntriesUntouched`
  is about the worktrees the user has all along.
- Git killed before it wrote `gitdir` leaves an entry that `Remove` and every
  later `pruneOrphans` skip; `gitwt.go:4-5` says that `Remove` deletes it.
  `LeavesNoWorktree` is about entries that name a worktree.
- The reports hold the status from before they were written and before the
  removals; either may still change it, while `website/content/reference.md:183`
  says that they record the chosen status.
- `checkPathTemplate` accepts some paths that the run refuses (`confine`):
  `${workdir}x`, and `${root}x` with a suite at the top of its repository; text
  glued to the variable that starts a path is one segment for the validator and
  another for the run (`${root}x/../../a/b`). And a relative path that climbs out
  of the repository and comes back by its name (`../repo/a`) is inside where the
  suite was read, but not in the worktree of the base, whose directory has
  another name. `load.go:108-110` says validation never accepts a path the run
  would reject after building. These are the two exceptions of `AcceptedRuns`
  (`OutAndBack` is the second); `RejectedLeave` is, for the same reasons, about
  paths without glued text and about the tree the suite was read from.
- `checkTerminalStderr` (`resolve.go:517-541`) returns at the first command that
  inherits `stderr` when the benchmark sets it, even to `discard`: a later
  command with `stderr: log` is accepted and its setting ignored, in the other
  order it is rejected. `SettingsFit` excepts it (`OverlookedStderr`).
- An interrupted suite may still get a geometric mean over the benchmarks it
  measured (`report/model.go:116-117` says over all of a suite).
- `EscapeMarkdown` (`report/markdown.go:14-31`) leaves `~`, `#` and `-` as they
  are, and `writeMarkdownBody` (`markdown.go:59-61`) writes the description of a
  suite as a line of its own. A description `~~~` therefore opens a fence inside
  the section, which hides its end marker: the first update writes the section,
  every later one fails, and what follows the section is shown as code.
  `website/content/reports.md:89` says that the output can "replace a named
  section while preserving the surrounding file". With
  `MCDescription == Tildes(3)`, and without the `ASSUME` that excludes it,
  `MCReports` violates `SectionsStable`. The theorems about sections assume
  `PlainDescription`; a description that is a heading is harmless, since a
  heading inside the section does not count.
- Two outputs of the same document are written in the order of the suite; when
  the later section of the document comes first, the level of its headings is
  settled only by the second run. `SectionsStable` looks at each section once
  it is written.
- A file that does not exist yet is not recognized under two spellings that only
  a case-insensitive file system takes for one; and what another program writes
  into a document between its reading and the rename is lost.
- The process group of a command is known to its spawner only. When the spawner
  is killed from outside the command goes on (`Lost` in `Spawner`), although
  `proc.go:8-11` says a benchmark cannot leak processes.
- `resumeProcess` (`proc_windows.go:80-114`) may fail after it resumed the
  process; `ErrProcessTree` is documented as killed before it runs any code.
- A worktree of the user at `worktree-<x>/tree` looks like himorime's, so its
  entry is removed when its directory is missing: with `Lookalikes = {u}`
  `LastingEntriesUntouched` is violated.
- `spawner_unix.go:80` and `usage.go:29` say the floor is the peak "just before"
  the start, while it is read after the command (`readFloor`'s own comment says
  why).

## 5. Proofs

Each `*Proofs` module proves the invariants of its module for every value of the
constants that satisfies the assumptions of that module: any number of commands,
spawners, himorimes, suites or benchmarks, any sizes, and all faults. The
assumptions on constants are types and what the code establishes before
(`checkComparable`, the resolver, the schema); TLC evaluates each on its run.
The properties of a module follow from inductive invariants, shown to hold
initially and to be kept by every action: one `IInv` in most modules, several
independent ones in `RunnerProofs`, one for each of the two models of
`ProcProofs` and `ReportProofs`. `PROJECT.json` lists the results with the
properties they state.

What a recursive function computes is proved with two lemmas that the modules
which need them state for themselves: `StepByStep` (a function defined by its
first value and a step from each value to the next exists and satisfies its
equations) and `SmallestNumber` (a set of numbers that is not empty has a
smallest one), which stands for induction: if a claim about the values failed
somewhere, look at the first place.

| Module | Properties proved | What had to be added to make them inductive |
| --- | --- | --- |
| `RunnerProofs` | `SamplesAligned`, `CompleteUnlessFailed`, `FirstFailureKept`, `TornDown` | `LoopInv`, `SliceInv`, `TeardownInv` |
| `ProcProofs` | of `ProcRun`: `KillsReachTheirCommand`, `NothingEscapes`, `FloorCoversInherited`, `Implements`; of `Terminal`: `OutputComplete`, `KeysReadSingly` | where the call is determines what its watcher, its processes and the memory readings can be, and earlier commands have nothing that acts; what was written is copied, on its way or in the terminal, and what the last unread key is while the typist waits |
| `SpawnerProofs` | `CommandsKeptApart`, `StartedOnce`, `Implements` | who holds which spawner, and the stage of the one request that is under way |
| `WorktreeProofs` | `LeavesNoWorktree`, `OrphansCleared`, `LastingEntriesUntouched` | how far a himorime and its git can be and what exists by then; what a prune is to clear is still ahead of it |
| `InvocationProofs` | `LeftoversAccounted`, `SuccessIsEarned`, `CauseIsGravest` | the deferred removals by phase, the count of measured benchmarks, the status by what was recorded |
| `ConfigProofs` | `AcceptedRuns`, `RejectedLeave`, `SettingsFit`, `MostSpecificWins` | what runs is the resolution of an accepted document; the run is at one of its benchmarks |
| `JudgeProofs` | `PassIsAssessed`, `FailureHasGround`, `OutputsAgree`, `MeanIsComplete` | what is reported is the judgement of what was delivered; a phase ends with its work done or with a reason |
| `ReportProofs` | of `Comparison`: `FullEvidence`, `SeparatedIsCalled`, and under the hypotheses below `HoldsBelowFloor`, `BudgetHolds`; of `Reports`: `SavedKept`, and under the hypotheses below `DocumentsWhole`, `ReportsHeld`, `SectionsStable` | `Drawing` (the resamples so far, counted), `Deciding` (a verdict has its evidence), `Grounded` (what is judged is what was recorded); `Numbered` (files are numbered, a new one has a new number), `Rendering` (what the report command renders is not what it writes); `Asked` (what the invocation was started for), `Composed` (the document to write is the file's, with a section replaced), `Clears` (every file is one the scan reads right), `Opened`, `Wholes`, `Progress` |

**Runner.** `Lockstep` alone is not inductive: whether the round reached a unit
depends on `left`, on `cur` and on whether the unit being run is healthy, and
whether warmups or samples count depends on `warm`. `LoopInv` adds these: the
unit being run is a healthy unit of the round that is no longer in `left`,
measured rounds only start once the warmup rounds are done, and outside of the
loop nothing is half-way. Completeness follows from `LoopInv` and from what is
known when the loop ends without a failure; it needs `Measurable`, which
`checkComparable` and the resolver establish. The slice invariant is
independent: every action that appends a sample appends to every slice kept.
`TornDown` needs that the hooks of a side are counted one by one, that nothing
starts on a side before it is marked for cleanup, and that the context of the
hooks is chosen once.

**ProcRun and Spawner.** Both implement `CommandRun`: each action is mapped to a
step of the contract or to a stutter (`StepImplements`), using that a process
that dies is a step of the contract and that at the return nothing is alive. In
`Spawner` a spawner that holds no request owes nothing and knows the environment
himorime believes it to know; after a request it is in exactly one stage: the
request is in the socket behind late kills, it is served, it is answered, or the
spawner is lost. That a kill for one command cannot reach the next follows from
that: what is left in a socket at the end of a call can only be kills, and the
spawner ignores them before a request. `SpawnerImplements` assumes
`"crash" \notin Faults`: nobody outside kills a spawner. With a crash the
contract is violated, which is a finding of section 4; everything else holds with
crashes too.

**Terminal.** The count of writes is that of copies and of what is under way,
through the whole order of `Close`. `KeysReadSingly` needs to know which key the
typist waits for: what is unread ends with it or with the end of a line.

**Worktree.** A himorime that prunes has, for every entry it is to clear, either
still to read it or already read it, and nobody makes an orphan into a worktree
again, since its owner and the git of its owner are gone. `UsersEntriesLast`
assumes `Users \cap Lookalikes = {}`; without it the property is violated
(section 4). A user's new worktree is not covered, for the reason given there.

**Invocation.** `Deferred` ties what exists to the stack of removals in every
phase; `Progress` counts benchmarks, so a summary without an error means all of
them; `StatusFollows` has one case for each way to the exit status.

**Config.** The proofs follow a suite from `Schema` and `Issues(raw) = {}` to
the place where the run uses a setting. `AcceptedRuns` has two halves. At every
place no variable is missing that the validator let pass (`Available`); and no
path leaves the tree it is confined to. For the second, `Enter` is followed
segment by segment: a path that the validator passed stays inside at every step
(`PassedStays`, `PassedInside`), and what it does in the tree of the suite it
does in any other tree (`EnterMirrors`, `SameWay`), which is how an answer about
the head holds for the base. `RejectedLeave` is the converse: a path the
validator refuses because it leaves is one the run would refuse
(`LeavingRefused`). Each value that runs was written at one of the levels of the
document (`FromALevel`, `FromAnyLevel`), where the validator checked it, and the
first level that writes a setting is the one that decides it (`FirstLevel`,
`SecondLevel`, `EnvDecides`).

**Judge.** The program has two ways to its answer: the worst of the results of
commands, benchmarks and suite, and the counts in the summary. `OutputsAgree`
says they agree. `Worst` and `Severity` are shown to pick a gravest element; the
counts are shown to be of finite sets, so a count is positive exactly when there
is a command with that result (`Counts`, `CountedOf`). `PassIsAssessed` and
`FailureHasGround` go from the status to a command (`CountedOf`), from a command
to its causes (`CommandPassed`, `CommandGround`), and from a budget to the values
the floor allows (`BudgetStatusOf`). `MeanOverCases` shows that the mean is
always over a number of benchmarks, which the type invariant needs.
`MeanIsComplete` says of every mean that the measurements it is over completed
and could be judged, that every ratio is positive, and that none is below 1
against the fastest and one is 1 against the baseline: `FastestIsFastest` and
`RatioOf` say what a command contributes, `ProductSteps`, `ProductOrder` and
`ProductPositive` multiply step by step.

**Comparison.** What is computed of a sample is pinned down first. The k-th
value is the one that fewer than k samples are below and at least k are not
above; counting shows that it exists and that only one value is it
(`KthExists`, `KthUnique`). Every statistic of the samples, and of every
resample, lies between the smallest and the largest of them (`MeanBetween`,
`MedianBetween`, `ResampleBetween`). So when all samples of a side are above
all of the other, every resample rises, or falls, and does so beyond the
tolerance when the samples are that far apart (`AllRise`, `AllFall`,
`FarEnough`); `SeparatedIsCalled` follows, and `FullEvidence` from the counting of
the resamples. `HoldsBelowFloor` and `BudgetHolds` quantify over everything the
runs can really have been. With an odd number of runs the median is the value of
one run, and a value above every floor is the k-th value of the real runs exactly
when it is that of the recorded ones (`KeptAbove`, `KeptBelow`, `RealKth`). The
theorems assume this: `OddSides` and the median for `HoldsForOddRuns`; for
`BudgetOfOneRun`, `OneRunBudgets`: a budget on the minimum, on the maximum, or on
the median of an odd number of runs. For the mean and for an even number of runs
the properties are false, which is finding 1. `MCComparison` assumes both
hypotheses, so TLC evaluates them on the instances of the run.

**Reports.** `SavedKept` needs that different files have different numbers, and
that the one output of the report command is not the saved report, however it is
written: `SameFile` was asked before, and a rename or a new file can only give the
output a number that nobody has.

The other three rest on what `ReplaceSection` does to a document, which is proved
for every document and every section (`ReplaceIs`). `GapIs` says that the two
lines are a gap between a begin and an end marker outside of fences and of the
front matter; filling a gap with plain lines moves what follows and nothing
else (`SpliceIs`, `SameFront`, `SameFence`): every marker of every section is read
where it was (`ReadsSpliced`), the parent heading stays (`ParentStays`), the lines
outside and in other sections are the same (`SpliceMoves`, `ClearReplaced`), and
to replace the section once more gives the same document
(`SectionsHold`, for any file). For this the filling must not hold a fence or a
delimiter: `PlainDescription`, without which it is false (section 4).
`DocumentsStayWhole` follows each file from the first invocation: it is the
user's, opened to be written over, or the result of replacements, and the
temporary file is none of these until its rename. `OutcomeHolds` follows one
invocation: each output before `at` that has not failed holds its report
(`Progress`), and since no two outputs share a file but for two sections of one
(`Conflict`), and a rename gives a number that nobody has, writing the next one
does not disturb it. Both assume `LegibleFiles`: the markers of the user's
documents are what they seem to be and no section contains the marker of another.
With overlapping sections the outer one is replaced with the inner one in it,
and whether a marker is "real" is the reader's idea, not the program's, so
without the assumption there is nothing to hold. `MCReports` assumes both
hypotheses, and TLC evaluates them on documents with examples of markers in code.

What is only model-checked:

- Liveness: `Terminates`, `CallsReturn` (of `ProcRun` and `Spawner`),
  `CloseReturns`, `NothingOutlivesHimorime`. Liveness under fairness and
  `ENABLED` are out of the prover's reach.
- `HoldsBelowFloor` and `BudgetHolds` of `Comparison` outside of the hypotheses
  above, where they do not hold in general.
- `DocumentsWhole`, `ReportsHeld` and `SectionsStable` of `Reports` for what the
  hypotheses above leave out, where they do not hold in general.

## 6. Not modelled

Left out: YAML decoding and the JSON schema (`config/schemacheck.go`), whose
result is the document `Config` starts from; the views and the rendering of
tables, CSV and JSON (`report/view.go`, `markdown.go`, `terminal.go`, ...), which
are layout; parsing and wording; rounding of floating point numbers; symbolic
links in `confine`; the redaction, build and environment helpers; the selection
of suites by patterns and flags; the documentation generator and the scripts;
the reuse of process ids by the operating system.
