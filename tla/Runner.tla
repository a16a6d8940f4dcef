------------------------------- MODULE Runner -------------------------------
(***************************************************************************)
(* Runner.Measure: one benchmark measured on one side (a plain run) or on  *)
(* two (a revision comparison).  Every side is prepared, the units, one    *)
(* per measured (side, command) pair, run once per round in a random       *)
(* order, and the deferred teardown cleans up whatever was prepared.  The  *)
(* user may interrupt himorime at any step.                                *)
(*                                                                         *)
(* A process (hook or command) is a call of proc.Run: it starts, and it    *)
(* returns "ok", "interrupted" (only once its context is done) or          *)
(* "failed" (any other failure, including one met before it starts).       *)
(* CommandRun states that contract; Spawner and ProcRun implement it.      *)
(***************************************************************************)
EXTENDS Naturals

CONSTANTS
  Commands,          \* the commands a benchmark may name
  Benchmarks,        \* the resolved benchmarks to measure
  Unsupported,       \* metric groups this platform cannot measure at all
  TerminalSupported, \* does this platform have pseudo-terminals?
  Elapsed            \* elapsed times a run of a command may take

Sides == 1..2
Groups == {"cpu", "memory", "throughput"}
AllUnits == Sides \X Commands

(***************************************************************************)
(* A resolved benchmark with the overrides of the command line applied.    *)
(* The last of its sides is head.  runs = 0 asks for adaptive measuring.   *)
(***************************************************************************)
Benchmark ==
  [sides: Sides, compared: SUBSET Commands, budgeted: SUBSET Commands,
   warmup: Nat, runs: Nat, minRuns: Nat, maxRuns: Nat, minTime: Nat,
   minSamples: Nat, setup: Nat, prepareEach: Nat, cleanup: Nat,
   metrics: SUBSET Groups, skip: BOOLEAN,
   terminal: BOOLEAN, stdin: {"none", "content", "file"}]

(* A comparison is only started when it can reach regression.min_samples,  *)
(* and the configuration never lets max_runs be below min_runs.            *)
Measurable(bm) ==
  /\ bm.sides = 2 => bm.minSamples <= (IF bm.runs > 0 THEN bm.runs ELSE bm.maxRuns)
  /\ bm.runs = 0 => bm.minRuns <= bm.maxRuns

ASSUME RunnerAssumption ==
  /\ Commands # {}
  /\ Benchmarks \subseteq Benchmark
  /\ \A bm \in Benchmarks : Measurable(bm)
  /\ Unsupported \subseteq {"cpu", "memory"}
  /\ TerminalSupported \in BOOLEAN
  /\ Elapsed \subseteq Nat

-----------------------------------------------------------------------------
VARIABLES
  b,          \* the benchmark being measured
  pc,         \* where Measure is
  side,       \* the side prepareSide or teardown is at
  hook,       \* how many processes of the current phase have returned
  exec,       \* is proc.Run running a process?
  cancelled,  \* has the run been interrupted?
  grace,      \* does teardown run its hooks under a context of its own?
  expired,    \* has the cleanup grace period of that context run out?
  workdir,    \* does the side have its workdir on disk?
  setupOK,    \* must the side's cleanup hooks run?
  failure,    \* the failure of the benchmark
  warm,       \* warmup rounds completed
  rounds,     \* measured rounds completed
  left,       \* units this round has not reached yet
  cur,        \* the unit being run
  active,     \* has a unit run in this round?
  failed,     \* the failure of each unit
  warmups,    \* warmup runs of each unit
  samples,    \* elapsed samples of each unit
  total,      \* their sum, of which only whether it reaches min_time is kept
  slice,      \* length of each unit's other slices, by group
  skipped,    \* groups skipped on each unit
  touched,    \* history: a process of this side has been started
  attempted   \* history: cleanup hooks of this side that were attempted

control == <<pc, side, hook, exec>>
interrupt == <<cancelled, grace, expired>>
dirs == <<workdir, setupOK>>
loop == <<warm, rounds, left, cur, active>>
units == <<failed, warmups, samples, total, slice, skipped>>
history == <<touched, attempted>>
vars == <<b, control, interrupt, dirs, failure, loop, units, history>>

None == "none"
Failures == {None, "interrupted", "metric_unsupported", "failed"}
PCs == {"start", "prepare", "setup", "units", "rounds", "round", "unit",
        "teardown", "cleanup", "finish", "done"}
Outcomes == {"ok", "interrupted", "failed"}

(* The value of cur while no unit runs.                                    *)
NoUnit == CHOOSE u \in AllUnits : TRUE

(* commandUnits: a command excluded from a comparison is measured on head  *)
(* only, and only when it has a budget.                                    *)
Units ==
  {u \in AllUnits :
     /\ u[1] <= b.sides
     /\ \/ b.sides = 1
        \/ u[2] \in b.compared
        \/ u[1] = b.sides /\ u[2] \in b.budgeted}

Healthy(u) == failed[u] = None

MinRunsOnly == b.minRuns  \* mutant: min_samples is forgotten

MinRunsFor ==
  IF b.sides > 1 /\ b.minSamples > b.minRuns THEN b.minSamples ELSE b.minRuns

(* The rounds left are measured ones: every warmup round has been run.     *)
Recording == warm = b.warmup

(* done: decides before each measured round whether the loop stops.        *)
Done ==
  IF b.runs > 0
  THEN rounds >= b.runs
  ELSE \/ rounds >= b.maxRuns
       \/ \A u \in Units : Healthy(u) =>
            /\ samples[u] >= MinRunsFor
            /\ total[u] >= b.minTime

(* The processes of the current phase: the setup hooks of a side, the      *)
(* prepare_each hooks of a unit and then its command, or the cleanup hooks *)
(* of a side.                                                              *)
Processes ==
  CASE pc = "setup" -> b.setup
    [] pc = "unit" -> b.prepareEach + 1
    [] pc = "cleanup" -> IF setupOK[side] THEN b.cleanup ELSE 0
    [] OTHER -> 0

(* The context the current phase passes to proc.Run is done.               *)
ContextDone ==
  IF pc = "cleanup" /\ grace THEN expired ELSE cancelled

-----------------------------------------------------------------------------
Init ==
  /\ b \in Benchmarks
  /\ pc = "start" /\ side = 1 /\ hook = 0 /\ exec = "idle"
  /\ cancelled = FALSE /\ grace = FALSE /\ expired = FALSE
  /\ workdir = [s \in Sides |-> FALSE]
  /\ setupOK = [s \in Sides |-> FALSE]
  /\ failure = None
  /\ warm = 0 /\ rounds = 0 /\ left = {} /\ active = FALSE
  /\ cur = NoUnit
  /\ failed = [u \in AllUnits |-> None]
  /\ warmups = [u \in AllUnits |-> 0]
  /\ samples = [u \in AllUnits |-> 0]
  /\ total = [u \in AllUnits |-> 0]
  /\ slice = [u \in AllUnits |-> [g \in Groups |-> 0]]
  /\ skipped = [u \in AllUnits |-> {}]
  /\ touched = [s \in Sides |-> FALSE]
  /\ attempted = [s \in Sides |-> 0]

(* A failure that ends measuring: Measure returns and teardown follows.    *)
Fail(kind) ==
  /\ failure' = kind
  /\ pc' = "teardown"

KeepLast(kind) == failure' = kind  \* mutant: the last failure wins

(* A failure met by teardown is recorded only when it is the first.        *)
KeepFirst(kind) ==
  failure' = IF failure = None THEN kind ELSE failure

-----------------------------------------------------------------------------
(* Groups the platform cannot measure fail the benchmark before anything   *)
(* is prepared, unless its policy is to skip them.                         *)
CheckMetrics ==
  /\ pc = "start"
  /\ IF ~b.skip /\ b.metrics \cap Unsupported # {}
     THEN Fail("metric_unsupported")
     ELSE IF b.terminal /\ ~TerminalSupported
     THEN Fail("failed")
     ELSE pc' = "prepare" /\ UNCHANGED failure
  /\ UNCHANGED <<b, side, hook, exec, interrupt, dirs, loop, units, history>>

MakeUnrecorded ==  \* mutant: setupOK is set after the setup hooks
  /\ pc = "prepare"
  /\ \/ /\ workdir' = [workdir EXCEPT ![side] = TRUE]
        /\ pc' = "setup" /\ hook' = 0
        /\ UNCHANGED failure
     \/ Fail("failed") /\ UNCHANGED <<workdir, hook>>
  /\ UNCHANGED <<b, side, exec, interrupt, setupOK, loop, units, history>>

(* prepareSide up to its setup hooks: the workdir, then the stdin content. *)
MakeWorkdir ==
  /\ pc = "prepare"
  /\ \/ /\ workdir' = [workdir EXCEPT ![side] = TRUE]
        /\ setupOK' = [setupOK EXCEPT ![side] = TRUE]
        /\ pc' = "setup" /\ hook' = 0
        /\ UNCHANGED failure
     \/ /\ Fail("failed")
        /\ \/ UNCHANGED workdir
           \/ b.stdin = "content" /\ workdir' = [workdir EXCEPT ![side] = TRUE]
        /\ UNCHANGED <<setupOK, hook>>
  /\ UNCHANGED <<b, side, exec, interrupt, loop, units, history>>

(* The rest of prepareSide, once its setup hooks have returned: a stdin    *)
(* fixture must exist by now.  Then the next side, or the units.           *)
FinishSide ==
  /\ pc = "setup" /\ hook = Processes
  /\ \/ /\ IF side < b.sides
           THEN side' = side + 1 /\ pc' = "prepare"
           ELSE pc' = "units" /\ UNCHANGED side
        /\ UNCHANGED failure
     \/ b.stdin = "file" /\ Fail("failed") /\ UNCHANGED side
  /\ UNCHANGED <<b, hook, exec, interrupt, dirs, loop, units, history>>

(* The units are made and the groups of the platform skipped on them.      *)
MakeUnits ==
  /\ pc = "units"
  /\ skipped' = [u \in AllUnits |->
                   IF u \in Units THEN b.metrics \cap Unsupported ELSE {}]
  /\ pc' = "rounds"
  /\ UNCHANGED <<b, side, hook, exec, interrupt, dirs, failure, loop, failed,
                 warmups, samples, total, slice, history>>

(* The head of the warmup loop and of the measuring loop.                  *)
NextRound ==
  /\ pc = "rounds"
  /\ IF Recording /\ Done
     THEN pc' = "teardown" /\ UNCHANGED <<left, active>>
     ELSE pc' = "round" /\ left' = Units /\ active' = FALSE
  /\ UNCHANGED <<b, side, hook, exec, interrupt, dirs, failure, warm, rounds,
                 cur, units, history>>

(* The seeded permutation of a round reaches a healthy unit.               *)
PickUnit(u) ==
  /\ pc = "round"
  /\ u \in left /\ Healthy(u)
  /\ left' = left \ {u} /\ cur' = u /\ active' = TRUE
  /\ pc' = "unit" /\ hook' = 0
  /\ UNCHANGED <<b, side, exec, interrupt, dirs, failure, warm, rounds, units,
                 history>>

EndRoundEarly ==  \* mutant: a failed unit ends the round
  /\ pc = "round"
  /\ left = {} \/ \E u \in Units : ~Healthy(u)
  /\ left' = {}
  /\ pc' = "rounds"
  /\ IF Recording
     THEN rounds' = rounds + 1 /\ UNCHANGED warm
     ELSE warm' = warm + 1 /\ UNCHANGED rounds
  /\ UNCHANGED <<b, side, hook, exec, interrupt, dirs, failure, cur, active,
                 units, history>>

(* Only failed units are left: the round is over.  A measured round in     *)
(* which no unit ran ends the loop and is not counted.                     *)
EndRound ==
  /\ pc = "round"
  /\ \A u \in left : ~Healthy(u)
  /\ left' = {}
  /\ IF ~Recording
     THEN pc' = "rounds" /\ warm' = warm + 1 /\ UNCHANGED rounds
     ELSE IF active
     THEN pc' = "rounds" /\ rounds' = rounds + 1 /\ UNCHANGED warm
     ELSE pc' = "teardown" /\ UNCHANGED <<warm, rounds>>
  /\ UNCHANGED <<b, side, hook, exec, interrupt, dirs, failure, cur, active,
                 units, history>>

-----------------------------------------------------------------------------
(* The side the next process belongs to.                                   *)
Owner == IF pc = "unit" THEN cur[1] ELSE side

(* proc.Run starts the next process of the phase.                          *)
ProcessStarts ==
  /\ hook < Processes /\ exec = "idle"
  /\ ~ContextDone
  /\ exec' = "running"
  /\ touched' = [touched EXCEPT ![Owner] = TRUE]
  /\ attempted' = IF pc = "cleanup"
                  THEN [attempted EXCEPT ![side] = @ + 1]
                  ELSE attempted
  /\ UNCHANGED <<b, pc, side, hook, interrupt, dirs, failure, loop, units>>

(* The process of the phase returns: one that never started fails, or is   *)
(* interrupted because its context was done already.                       *)
Returns(outcome) ==
  /\ hook < Processes
  /\ outcome = "ok" => exec = "running"
  /\ outcome = "interrupted" => ContextDone
  /\ exec' = "idle"

SetupRetries(outcome) ==  \* mutant: a setup hook is retried until it succeeds
  /\ pc = "setup" /\ Returns(outcome)
  /\ hook' = IF outcome = "ok" THEN hook + 1 ELSE hook
  /\ UNCHANGED <<b, pc, side, failure, interrupt, dirs, loop, units, history>>

(* A setup hook returns.  Its failure, or the interrupt, ends measuring.   *)
SetupReturns(outcome) ==
  /\ pc = "setup" /\ Returns(outcome)
  /\ IF outcome = "ok"
     THEN hook' = hook + 1 /\ UNCHANGED <<pc, failure>>
     ELSE Fail(outcome) /\ UNCHANGED hook
  /\ UNCHANGED <<b, side, interrupt, dirs, loop, units, history>>

(* runOnce ends with a failure of the unit, which is recorded on the unit, *)
(* or with the interrupt, which ends measuring.                            *)
RunFails(outcome) ==
  IF outcome = "interrupted"
  THEN /\ Fail(outcome)
       /\ UNCHANGED <<failed, warmups, cur>>
  ELSE /\ failed' = [failed EXCEPT ![cur] = outcome]
       /\ warmups' = IF Recording THEN warmups ELSE [warmups EXCEPT ![cur] = @ + 1]
       /\ cur' = NoUnit
       /\ pc' = "round" /\ UNCHANGED failure

PrepareEachReturns(outcome) ==
  /\ pc = "unit" /\ hook < b.prepareEach /\ Returns(outcome)
  /\ IF outcome = "ok"
     THEN hook' = hook + 1 /\ UNCHANGED <<pc, failure, cur, failed, warmups>>
     ELSE RunFails(outcome) /\ UNCHANGED hook
  /\ UNCHANGED <<b, side, interrupt, dirs, warm, rounds, left, active, samples,
                 total, slice, skipped, history>>

(* The command does not start, times out, exits with a status that is not  *)
(* allowed, or is interrupted.                                             *)
CommandFails(outcome) ==
  /\ pc = "unit" /\ hook = b.prepareEach /\ Returns(outcome)
  /\ outcome # "ok"
  /\ RunFails(outcome)
  /\ UNCHANGED <<b, side, hook, interrupt, dirs, warm, rounds, left, active,
                 samples, total, slice, skipped, history>>

UsageFailure(wanted, error) ==
  CASE ~wanted \/ error = "ok" -> None
    [] wanted /\ error = "unsupported" -> IF b.skip THEN None ELSE "metric_unsupported"
    [] wanted /\ error = "failed" -> "failed"

(* The sum of a unit's samples, as far as min_time can tell.               *)
AddElapsed(sum, e) ==
  IF sum + e < b.minTime THEN sum + e ELSE b.minTime

(* recordRun, for a command that exited with an allowed status: the errors *)
(* of collecting CPU and memory are looked at in that order, the first     *)
(* failure wins, and a measured run appends one sample to every slice.     *)
RecordRun(cpuErr, memErr, e) ==
  LET wantCPU == "cpu" \in b.metrics \ skipped[cur]
      wantMemory == "memory" \in b.metrics \ skipped[cur]
      cpuFailure == UsageFailure(wantCPU, cpuErr)
      usage == IF cpuFailure # None THEN cpuFailure ELSE UsageFailure(wantMemory, memErr)
      skips == (IF wantCPU /\ cpuErr = "unsupported" /\ b.skip THEN {"cpu"} ELSE {})
               \cup (IF cpuFailure = None /\ wantMemory /\ memErr = "unsupported" /\ b.skip
                     THEN {"memory"} ELSE {})
      grows == Recording /\ usage = None
      kept == b.metrics \ (skipped[cur] \cup skips)
  IN
  /\ failed' = [failed EXCEPT ![cur] = usage]
  /\ skipped' = [skipped EXCEPT ![cur] = @ \cup skips]
  /\ samples' = IF grows THEN [samples EXCEPT ![cur] = @ + 1] ELSE samples
  /\ total' = IF grows THEN [total EXCEPT ![cur] = AddElapsed(@, e)] ELSE total
  /\ slice' = [slice EXCEPT ![cur] =
                 [g \in Groups |-> IF g \in skips THEN 0
                                   ELSE IF grows /\ g \in kept THEN @[g] + 1 ELSE @[g]]]

CommandExits ==
  /\ pc = "unit" /\ hook = b.prepareEach /\ Returns("ok")
  /\ \E cpuErr, memErr \in {"ok", "unsupported", "failed"}, e \in Elapsed :
       RecordRun(cpuErr, memErr, e)
  /\ warmups' = IF Recording THEN warmups ELSE [warmups EXCEPT ![cur] = @ + 1]
  /\ cur' = NoUnit
  /\ pc' = "round"
  /\ UNCHANGED <<b, side, hook, interrupt, dirs, failure, warm, rounds, left,
                 active, history>>

-----------------------------------------------------------------------------
(* teardown chooses the context of its hooks once: the run's, or, when the *)
(* run has been interrupted already, one with a grace period of its own.   *)
BeginTeardown ==
  /\ pc = "teardown"
  /\ grace' = cancelled
  /\ pc' = "cleanup" /\ side' = 1 /\ hook' = 0
  /\ UNCHANGED <<b, exec, cancelled, expired, dirs, failure, loop, units, history>>

(* Every cleanup hook of a side runs, whatever became of the one before.   *)
CleanupReturns(outcome) ==
  /\ pc = "cleanup" /\ Returns(outcome)
  /\ hook' = hook + 1
  /\ IF outcome = "ok" THEN UNCHANGED failure ELSE KeepFirst(outcome)
  /\ attempted' = IF outcome = "failed" /\ exec = "idle"
                  THEN [attempted EXCEPT ![side] = @ + 1]
                  ELSE attempted
  /\ UNCHANGED <<b, pc, side, interrupt, dirs, loop, units, touched>>

(* The workdir of the side is removed, and teardown moves on.              *)
RemoveWorkdir ==
  /\ pc = "cleanup" /\ hook = Processes
  /\ \/ workdir' = [workdir EXCEPT ![side] = FALSE] /\ UNCHANGED failure
     \/ workdir[side] /\ KeepFirst("failed") /\ UNCHANGED workdir
  /\ hook' = 0
  /\ IF side < b.sides
     THEN side' = side + 1 /\ UNCHANGED pc
     ELSE pc' = "finish" /\ UNCHANGED side
  /\ UNCHANGED <<b, exec, interrupt, setupOK, loop, units, history>>

(* An interrupt no step has reported is reported by teardown.              *)
Finish ==
  /\ pc = "finish"
  /\ IF cancelled THEN KeepFirst("interrupted") ELSE UNCHANGED failure
  /\ pc' = "done"
  /\ UNCHANGED <<b, side, hook, exec, interrupt, dirs, loop, units, history>>

-----------------------------------------------------------------------------
(* The first SIGINT or SIGTERM cancels the context of the run.             *)
Interrupt ==
  /\ ~cancelled /\ pc # "done"
  /\ cancelled' = TRUE
  /\ UNCHANGED <<b, control, grace, expired, dirs, failure, loop, units, history>>

(* The grace period of the cleanup hooks runs out.                         *)
GraceExpires ==
  /\ grace /\ ~expired /\ pc \in {"cleanup", "finish"}
  /\ expired' = TRUE
  /\ UNCHANGED <<b, control, cancelled, grace, dirs, failure, loop, units, history>>

Measure ==
  \/ CheckMetrics \/ MakeWorkdir \/ FinishSide \/ MakeUnits
  \/ NextRound \/ EndRound
  \/ \E u \in AllUnits : PickUnit(u)
  \/ ProcessStarts
  \/ \E outcome \in Outcomes :
       \/ SetupReturns(outcome)
       \/ PrepareEachReturns(outcome)
       \/ CommandFails(outcome)
       \/ CleanupReturns(outcome)
  \/ CommandExits
  \/ BeginTeardown \/ RemoveWorkdir \/ Finish

(* Measure has returned.                                                   *)
Terminated == pc = "done" /\ UNCHANGED vars

Next == Measure \/ Interrupt \/ GraceExpires \/ Terminated

(* Measure itself never stops: every process it waits for has a timeout.   *)
Spec == Init /\ [][Next]_vars /\ WF_vars(Measure)

-----------------------------------------------------------------------------
(* Every variable keeps to the values the code can give it.                *)
TypeOK ==
  /\ b \in Benchmarks
  /\ pc \in PCs /\ side \in 1..b.sides /\ hook \in Nat
  /\ exec \in {"idle", "running"}
  /\ cancelled \in BOOLEAN /\ grace \in BOOLEAN /\ expired \in BOOLEAN
  /\ workdir \in [Sides -> BOOLEAN] /\ setupOK \in [Sides -> BOOLEAN]
  /\ failure \in Failures
  /\ warm \in Nat /\ rounds \in Nat /\ left \in SUBSET AllUnits
  /\ cur \in AllUnits /\ active \in BOOLEAN
  /\ failed \in [AllUnits -> Failures]
  /\ warmups \in [AllUnits -> Nat] /\ samples \in [AllUnits -> Nat]
  /\ total \in [AllUnits -> Nat]
  /\ slice \in [AllUnits -> [Groups -> Nat]]
  /\ skipped \in [AllUnits -> SUBSET Groups]
  /\ touched \in [Sides -> BOOLEAN] /\ attempted \in [Sides -> Nat]

(* The current round has run the unit.                                     *)
RanThisRound(u) ==
  /\ pc \in {"round", "unit"}
  /\ u \notin left
  /\ pc = "unit" => u # cur

(* "Every unit runs once per round, so all healthy units hold the same     *)
(* sample count": a unit that has not failed has exactly one measured run  *)
(* for every round completed, and one more once the current round has      *)
(* reached it; the warmup rounds are counted the same way.  Without it the *)
(* pairs of a comparison would come from different rounds.                 *)
Lockstep ==
  \A u \in Units : Healthy(u) /\ pc \in {"rounds", "round", "unit"} =>
    /\ samples[u] = rounds + (IF Recording /\ RanThisRound(u) THEN 1 ELSE 0)
    /\ warmups[u] = warm + (IF ~Recording /\ RanThisRound(u) THEN 1 ELSE 0)

(* "All collected slices have the same length as Samples", whenever a      *)
(* group was skipped or a unit failed: statistics pair them by index.      *)
SlicesAligned ==
  \A u \in Units : \A g \in Groups :
    slice[u][g] = IF g \in b.metrics \ skipped[u] THEN samples[u] ELSE 0

(* The samples can be compared: pair by pair across the sides, and index   *)
(* by index with what was collected beside them.                           *)
SamplesAligned == TypeOK /\ Lockstep /\ SlicesAligned

(* A benchmark that reports no failure was measured to the end: every      *)
(* healthy unit has the runs asked for or, measured adaptively, enough     *)
(* runs and time unless max_runs stopped it; in a comparison it also has   *)
(* the samples a verdict needs.  An interrupt never passes for the end.    *)
CompleteUnlessFailed ==
  pc = "done" /\ failure = None =>
    \A u \in Units : Healthy(u) =>
      /\ b.runs > 0 => samples[u] = b.runs
      /\ b.runs = 0 =>
           /\ samples[u] <= b.maxRuns
           /\ \/ samples[u] = b.maxRuns
              \/ samples[u] >= MinRunsFor /\ total[u] >= b.minTime
      /\ b.sides = 2 => samples[u] >= b.minSamples

(* The first failure is the one reported: nothing teardown meets, not even *)
(* the interrupt, replaces it, and it never goes away.                     *)
FirstFailureKept ==
  [][failure # None => failure' = failure]_vars

(* Once teardown is over, a side on which any process was started has had  *)
(* all its cleanup hooks attempted, whichever step failed or was           *)
(* interrupted, unless the interrupt came when teardown had already chosen *)
(* its context, or the grace period of the hooks ran out; no workdir       *)
(* outlives its benchmark unless the benchmark says so; and an interrupted *)
(* benchmark never reports success, wherever the interrupt landed.         *)
TornDown ==
  pc = "done" =>
    /\ (cancelled => grace /\ ~expired) =>
         \A s \in Sides : touched[s] => attempted[s] = b.cleanup
    /\ failure = None => \A s \in Sides : ~workdir[s]
    /\ cancelled => failure # None

(* Measuring ends, adaptive or not, however many units fail.               *)
Terminates == <>(pc = "done")
=============================================================================
