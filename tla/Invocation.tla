------------------------------ MODULE Invocation ----------------------------
(***************************************************************************)
(* One run or compare (package cli, measurement.execute): what it prepares *)
(* and removes again, the suites it measures, the judgement, the reports   *)
(* it writes and the status it exits with, interrupted at any step.        *)
(*                                                                         *)
(* A benchmark (Runner) is one step here, and so are adding and removing   *)
(* the base worktree (Worktree) and each report.  Failures are known by    *)
(* their diagnostic: "command", "internal", "metric", "interrupted".       *)
(***************************************************************************)
EXTENDS Naturals, Sequences, SequencesExt

CONSTANTS
  Compare,        \* is this a comparison with a base revision?
  NumSuites,      \* how many suites were selected
  NumBenchmarks,  \* how many benchmarks each has
  Dests,          \* the reports to write
  Actions,        \* does it run in GitHub Actions?
  FailOnInconclusive,
  Panics          \* may a step panic?

ASSUME InvocationAssumption ==
  /\ NumSuites \in Nat \ {0} /\ NumBenchmarks \in Nat \ {0}
  /\ {Compare, Actions, FailOnInconclusive, Panics} \subseteq BOOLEAN

(* Exit statuses.                                                          *)
OK == 0
Failed == 1
Config == 2
Usage == 3
Execution == 4
Internal == 5
Metric == 6
Statuses == {OK, Failed, Config, Usage, Execution, Internal, Metric}

Unset == 7  \* no status yet

Failures == {"command", "internal", "metric", "interrupted"}
NoFailure == "none"

VARIABLES
  pc,          \* where execute is
  cancelled,   \* did the first interrupt arrive?
  defers,      \* the removals execute has deferred, the last one last
  temp,        \* does the temporary directory exist?
  worktree,    \* does the base worktree exist?
  suite,       \* the suite being measured
  new,         \* is it new in the head revision?
  bench,       \* the benchmark being measured
  results,     \* what the report counts of every command, suite and benchmark
  cause,       \* failureCause
  summary,     \* Summary.ExitCode, once judged
  logged,      \* the complete tables in the log: "no", "ok", "failed"
  written,     \* each report, the same way
  code,        \* the status execute returns
  panicked,    \* is it unwinding a panic?
  failures,    \* history: the failures that were recorded
  done,        \* history: how many benchmarks were measured
  early        \* history: was it interrupted before it last looked?

measuring == <<suite, new, bench, results, cause, failures, done>>
reporting == <<summary, logged, written>>
made == <<defers, temp, worktree>>
vars == <<pc, cancelled, made, measuring, reporting, code, panicked, early>>

Init ==
  /\ pc = "destinations" /\ cancelled = FALSE
  /\ defers = <<>> /\ temp = FALSE /\ worktree = FALSE
  /\ suite = 1 /\ new = FALSE /\ bench = 0
  /\ results = {} /\ cause = NoFailure
  /\ summary = Unset /\ logged = "no" /\ written = [d \in Dests |-> "no"]
  /\ code = Unset /\ panicked = FALSE /\ failures = {} /\ done = 0 /\ early = FALSE

(* return: what was deferred runs next.                                    *)
Return(c) == pc' = "deferred" /\ code' = c

Continue(where) == pc' = where /\ UNCHANGED code

-----------------------------------------------------------------------------
(* Before anything is measured.                                            *)

(* checkReportDestinations, baseRef and checkMetrics refuse an invocation  *)
(* before anything was made or run.                                        *)
CheckDestinations ==
  /\ pc = "destinations"
  /\ Continue("base") \/ Return(Usage) \/ Return(Execution)
  /\ UNCHANGED <<cancelled, made, measuring, reporting, panicked, early>>

BaseRef ==
  /\ pc = "base"
  /\ Continue("metrics") \/ (Compare /\ Return(Usage))
  /\ UNCHANGED <<cancelled, made, measuring, reporting, panicked, early>>

CheckMetrics ==
  /\ pc = "metrics"
  /\ Continue("temp") \/ Return(Metric)
  /\ UNCHANGED <<cancelled, made, measuring, reporting, panicked, early>>

MakeTemp ==
  /\ pc = "temp"
  /\ \/ /\ Continue("git")
        /\ temp' = TRUE /\ defers' = Append(defers, "temp")
     \/ Return(Execution) /\ UNCHANGED <<temp, defers>>
  /\ UNCHANGED <<cancelled, worktree, measuring, reporting, panicked, early>>

(* openGit: outside of a repository only a comparison ends here, and every *)
(* git command fails once the context is canceled.                         *)
OpenGit ==
  /\ pc = "git"
  /\ IF Compare
     THEN (~cancelled /\ Continue("checkout")) \/ Return(Execution) \/ Return(Usage)
     ELSE Continue("suite")
  /\ UNCHANGED <<cancelled, made, measuring, reporting, panicked, early>>

CheckoutUndeferred ==  \* mutant: the removal is not deferred yet
  /\ pc = "checkout"
  /\ \/ ~cancelled /\ Continue("comparable") /\ worktree' = TRUE
     \/ Return(Execution) /\ UNCHANGED worktree
  /\ UNCHANGED <<cancelled, defers, temp, measuring, reporting, panicked, early>>

(* A checkout that fails leaves no worktree: see Worktree.                 *)
Checkout ==
  /\ pc = "checkout"
  /\ \/ /\ ~cancelled /\ Continue("comparable")
        /\ worktree' = TRUE /\ defers' = Append(defers, "worktree")
     \/ Return(Execution) /\ UNCHANGED <<worktree, defers>>
  /\ UNCHANGED <<cancelled, temp, measuring, reporting, panicked, early>>

CheckComparable ==
  /\ pc = "comparable"
  /\ Continue("suite") \/ \E c \in {Config, Usage, Execution} : Return(c)
  /\ UNCHANGED <<cancelled, made, measuring, reporting, panicked, early>>

-----------------------------------------------------------------------------
(* Measuring the suites.                                                   *)

KeepLastCause(old, kind) ==  \* mutant: the last failure is the cause
  IF kind = NoFailure THEN old ELSE kind

(* recordFailure: a command failure is more specific than a metric failure *)
(* and an interruption is always the final cause.                          *)
RecordFailure(old, kind) ==
  CASE kind = NoFailure -> old
    [] kind = "interrupted" -> kind
    [] OTHER -> IF \/ old \in {NoFailure, "metric"}
                   \/ old # "interrupted" /\ kind = "command"
                THEN kind ELSE old

(* errorResult.                                                            *)
ErrorResult(kind) == IF kind = "metric" THEN "metric_error" ELSE "error"

(* Two results are recorded, one after the other.                          *)
Note(first, second) ==
  /\ cause' = RecordFailure(RecordFailure(cause, first), second)
  /\ failures' = failures \cup ({first, second} \ {NoFailure})

(* The failure of a process: it may report an interruption only when there *)
(* was one.                                                                *)
Possible == IF cancelled THEN Failures ELSE Failures \ {"interrupted"}

(* The next suite, unless the context is canceled; a comparison measures a *)
(* suite that the base lacks in the working tree only.                     *)
NextSuite ==
  /\ pc = "suite"
  /\ IF cancelled \/ suite > NumSuites
     THEN Continue("judge") /\ UNCHANGED <<new, bench>>
     ELSE /\ Continue("build") /\ bench' = 1
          /\ new' \in IF Compare THEN BOOLEAN ELSE {FALSE}
  /\ UNCHANGED <<cancelled, made, suite, results, cause, failures, done,
                 reporting, panicked, early>>

(* The versions of the tools and the builds of the sides; the first that   *)
(* fails ends the suite.                                                   *)
Build ==
  /\ pc = "build"
  /\ \/ Continue("benchmarks") /\ UNCHANGED <<suite, results, cause, failures>>
     \/ \E kind \in Possible \ {"metric"} :
          /\ Continue("suite") /\ suite' = suite + 1
          /\ Note(NoFailure, kind) /\ results' = results \cup {ErrorResult(kind)}
  /\ UNCHANGED <<cancelled, made, new, bench, done, reporting, panicked, early>>

NextBenchmark ==
  /\ pc = "benchmarks"
  /\ IF cancelled \/ bench > NumBenchmarks
     THEN Continue("suite") /\ suite' = suite + 1
     ELSE Continue("measure") /\ UNCHANGED suite
  /\ UNCHANGED <<cancelled, made, new, bench, results, cause, failures, done,
                 reporting, panicked, early>>

(* What the judgement finds in a benchmark: nothing is compared in a plain *)
(* run or a new suite, and a required budget may be beyond assessment.     *)
Verdicts ==
  {"pass", "over_budget", "metric_error"} \cup
  (IF Compare /\ ~new THEN {"improved", "inconclusive", "regression"} ELSE {})

(* One benchmark, which may fail itself and in one of its measurements.    *)
(* Its own failure is one of all its commands, and none of them is judged; *)
(* a measurement's is one of its command, and the others are judged.       *)
Measure ==
  /\ pc = "measure"
  /\ \E f, g \in Possible \cup {NoFailure} :
       /\ Note(f, g)
       /\ \E v \in Verdicts :
            results' = results \cup
              {ErrorResult(k) : k \in {f, g} \ {NoFailure}} \cup
              (IF f = NoFailure THEN {v} ELSE {})
  /\ Continue("benchmarks") /\ bench' = bench + 1 /\ done' = done + 1
  /\ UNCHANGED <<cancelled, made, suite, new, reporting, panicked, early>>

-----------------------------------------------------------------------------
(* The judgement and the reports.                                          *)

(* The status summarize chooses.                                           *)
ExitCode(rs) ==
  IF "error" \in rs THEN Execution
  ELSE IF "metric_error" \in rs THEN Metric
  ELSE IF rs \cap {"regression", "over_budget"} # {} THEN Failed
  ELSE IF "inconclusive" \in rs /\ FailOnInconclusive THEN Failed
  ELSE OK

JudgeAlone ==  \* mutant: the interruption is left to finish
  /\ pc = "judge"
  /\ summary' = ExitCode(results)
  /\ Continue("log")
  /\ UNCHANGED <<cancelled, made, measuring, logged, written, panicked, early>>

(* Judge; an interruption that left no trace in the results is added.      *)
Judge ==
  /\ pc = "judge"
  /\ summary' = IF cancelled /\ ExitCode(results) = OK THEN Execution ELSE ExitCode(results)
  /\ Continue("log")
  /\ UNCHANGED <<cancelled, made, measuring, logged, written, panicked, early>>

(* finish: the log of GitHub Actions, whose failure is only looked at once *)
(* the reports are written.                                                *)
WriteLog ==
  /\ pc = "log" /\ Continue("write")
  /\ IF Actions THEN logged' \in {"ok", "failed"} ELSE UNCHANGED logged
  /\ UNCHANGED <<cancelled, made, measuring, summary, written, panicked, early>>

(* Each report is tried, whatever became of the others.                    *)
WriteReport(d) ==
  /\ pc = "write" /\ written[d] = "no"
  /\ \E outcome \in {"ok", "failed"} : written' = [written EXCEPT ![d] = outcome]
  /\ UNCHANGED <<pc, cancelled, made, measuring, summary, logged, code, panicked, early>>

Finish ==
  /\ pc = "write" /\ \A d \in Dests : written[d] # "no"
  /\ early' = cancelled
  /\ IF "failed" \in Range(written) \/ logged = "failed" \/ cancelled
     THEN Return(Execution) ELSE Return(summary)
  /\ UNCHANGED <<cancelled, made, measuring, reporting, panicked>>

-----------------------------------------------------------------------------
(* The end: removals, the status, and what ends it early.                  *)

(* cleanupFailed: an execution error, unless the run had already failed.   *)
CleanupFailed(c) == IF c = OK THEN Execution ELSE c

(* The last deferred removal runs first; each may fail, and the others run *)
(* all the same.                                                           *)
RunDeferred ==
  /\ pc = "deferred" /\ defers # <<>>
  /\ \/ /\ IF Last(defers) = "temp"
           THEN temp' = FALSE /\ UNCHANGED worktree
           ELSE worktree' = FALSE /\ UNCHANGED temp
        /\ UNCHANGED code
     \/ code' = CleanupFailed(code) /\ UNCHANGED <<temp, worktree>>
  /\ defers' = Front(defers)
  /\ UNCHANGED <<pc, cancelled, measuring, reporting, panicked, early>>

(* Run recovers from a panic and reports an internal error.                *)
Leave ==
  /\ pc = "deferred" /\ defers = <<>>
  /\ pc' = "exited" /\ code' = IF panicked THEN Internal ELSE code
  /\ UNCHANGED <<cancelled, made, measuring, reporting, panicked, early>>

Panic ==
  /\ Panics /\ pc \notin {"deferred", "exited", "killed"}
  /\ panicked' = TRUE /\ Return(OK)
  /\ UNCHANGED <<cancelled, made, measuring, reporting, early>>

(* The first interrupt cancels the context ...                             *)
Interrupt ==
  /\ ~cancelled /\ pc \notin {"exited", "killed"}
  /\ cancelled' = TRUE
  /\ UNCHANGED <<pc, made, measuring, reporting, code, panicked, early>>

(* ... and the second ends himorime at once.                               *)
InterruptAgain ==
  /\ cancelled /\ pc \notin {"exited", "killed"}
  /\ pc' = "killed"
  /\ UNCHANGED <<cancelled, made, measuring, reporting, code, panicked, early>>

Execute ==
  \/ CheckDestinations \/ BaseRef \/ CheckMetrics \/ MakeTemp \/ OpenGit
  \/ Checkout \/ CheckComparable \/ NextSuite \/ Build \/ NextBenchmark
  \/ Measure \/ Judge \/ WriteLog \/ Finish \/ RunDeferred \/ Leave
  \/ \E d \in Dests : WriteReport(d)

Next == Execute \/ Panic \/ Interrupt \/ InterruptAgain

Spec == Init /\ [][Next]_vars

-----------------------------------------------------------------------------
(* Every variable keeps to the values the code can give it.                *)
TypeOK ==
  /\ pc \in {"destinations", "base", "metrics", "temp", "git", "checkout", "comparable",
             "suite", "build", "benchmarks", "measure", "judge", "log", "write",
             "deferred", "exited", "killed"}
  /\ defers \in {<<>>, <<"temp">>, <<"temp", "worktree">>}
  /\ {cancelled, temp, worktree, new, panicked, early} \subseteq BOOLEAN
  /\ suite \in 1..(NumSuites + 1) /\ bench \in 0..(NumBenchmarks + 1)
  /\ results \subseteq {"pass", "improved", "inconclusive", "over_budget", "regression",
                        "metric_error", "error"}
  /\ cause \in Failures \cup {NoFailure} /\ failures \subseteq Failures
  /\ {summary, code} \subseteq Statuses \cup {Unset}
  /\ logged \in {"no", "ok", "failed"} /\ written \in [Dests -> {"no", "ok", "failed"}]
  /\ done \in 0..(NumSuites * NumBenchmarks)
  /\ pc \in {"deferred", "exited"} => code \in Statuses

(* Whatever was made is going to be removed, whichever step returns,       *)
(* panics or is interrupted, and the worktree before the directory it is   *)
(* in; what could not be removed never passes as a success.                *)
LeftoversAccounted ==
  /\ TypeOK
  /\ pc \notin {"deferred", "exited", "killed"} =>
       /\ temp => "temp" \in Range(defers)
       /\ worktree => Last(defers) = "worktree"
  /\ pc = "exited" /\ (temp \/ worktree) => code # OK

(* A success is earned: every selected benchmark was measured, by the time *)
(* the reports say so; "a CI job must not pass with its evidence missing", *)
(* so every report and the log were written; and an interruption while it  *)
(* measured or wrote its reports ends it with an execution error, whatever *)
(* it had found by then.                                                   *)
SuccessIsEarned ==
  /\ summary = OK \/ (pc = "exited" /\ code = OK) => done = NumSuites * NumBenchmarks
  /\ pc = "exited" =>
       /\ early => code = Execution
       /\ code \in {OK, Failed, Metric} /\ summary # Unset =>
            /\ \A d \in Dests : written[d] = "ok"
            /\ Actions => logged = "ok"

Rank(kind) == CASE kind = NoFailure -> 0 [] kind = "metric" -> 1 [] kind = "internal" -> 2
                [] kind = "command" -> 3 [] kind = "interrupted" -> 4

(* The diagnostic at the end is the gravest of all the failures there      *)
(* were, in whatever order they were recorded, and the status follows it:  *)
(* execution failures before metric failures before performance failures.  *)
CauseIsGravest ==
  /\ cause \in failures \cup {NoFailure}
  /\ \A k \in failures : Rank(k) <= Rank(cause)
  /\ pc = "exited" /\ summary # Unset /\ ~panicked =>
       /\ failures \ {"metric"} # {} => code = Execution
       /\ failures = {"metric"} => code \in {Metric, Execution}
=============================================================================
