-------------------------------- MODULE Judge -------------------------------
(***************************************************************************)
(* The judgement of one suite: what measureSuite hands over (SuiteInput),  *)
(* report.Judge over it, the counts and the exit status (summarize), the   *)
(* geometric mean and the annotations of the CI log.                       *)
(*                                                                         *)
(* A measurement has one run, and the statistics of that run are its       *)
(* values.  What stats.Compare says of two measured sides is any verdict   *)
(* it can give (Comparison).  A failure is known by the result it leads    *)
(* to, "error" or "metric_error"; the metric that fails is the peak RSS.   *)
(***************************************************************************)
EXTENDS Integers, Sequences, FiniteSets, SequencesExt

CONSTANTS
  Cases,         \* the benchmarks of the suite
  Measurements,  \* what a side of a command may have recorded
  Modes,         \* "run", "compare"
  MayInterrupt

(* What the validator passes of a budget (resolveBudget): a positive limit *)
(* on a metric that is measured, from above unless more is better.         *)
BudgetOK(case, bud) ==
  /\ bud.command \in ToSet(case.commands) /\ bud.metric \in {"latency", "peak_rss"}
  /\ bud.limit \in Nat \ {0} /\ bud.upper \in BOOLEAN
  /\ bud.metric = "peak_rss" => case.memory /\ bud.upper

ASSUME JudgeAssumption ==
  /\ Modes \subseteq {"run", "compare"} /\ MayInterrupt \in BOOLEAN
  /\ Cases \in Seq(ToSet(Cases))
  /\ \A case \in ToSet(Cases) :
       /\ case.commands # <<>> /\ case.commands \in Seq(ToSet(case.commands))
       /\ case.gates \subseteq {"latency", "peak_rss"}
       /\ \A bud \in case.budgets : BudgetOK(case, bud)
  /\ \A m \in Measurements :
       /\ m.failure \in {"none", "metric_error", "error"} /\ m.ran \in BOOLEAN
       /\ m.latency \in Nat /\ m.rss \in Nat /\ m.floor \in Nat

VARIABLES
  pc,
  mode, newInHead, failOnInconclusive,
  interrupted,
  failure,  \* BuildFailure
  results,  \* of the benchmarks, as the runner delivers them
  judged,   \* the benchmarks of the report
  mean,     \* GeometricMean
  summary,
  notes,    \* the annotations
  exit

options == <<mode, failOnInconclusive>>
input == <<newInHead, failure, results>>
vars == <<pc, options, interrupted, input, judged, mean, summary, notes, exit>>

(* Results, from best to worst; what is not one of them is worse than any. *)
Results == <<"pass", "improved", "inconclusive", "over_budget", "regression",
             "metric_error", "error">>
Severity(r) == IF Contains(Results, r) THEN CHOOSE i \in 1..7 : Results[i] = r ELSE 8
Worst(rs) == CHOOSE r \in rs \cup {"pass"} : \A q \in rs : Severity(q) <= Severity(r)
IsError(r) == r \in {"metric_error", "error"}

JudgedMode == IF newInHead THEN "run" ELSE mode
SidesOf(m) == IF m = "compare" THEN {"head", "base"} ELSE {"head"}

(* Regression.Compares, for one command.                                   *)
ModeOf(case, c) == IF c \in case.compares THEN JudgedMode ELSE "run"

NoSummary == [exit |-> "none"]
NoNotes == [error |-> {}, warning |-> {}, notice |-> {}]
NoMean == [reference |-> "none", cases |-> 0, ratios |-> <<>>]

Init ==
  /\ pc = "build" /\ mode \in Modes /\ newInHead = FALSE
  /\ failOnInconclusive \in BOOLEAN /\ interrupted = FALSE
  /\ failure = "none" /\ results = <<>> /\ judged = <<>> /\ mean = NoMean
  /\ summary = NoSummary /\ notes = NoNotes /\ exit = "none"

-----------------------------------------------------------------------------
(* measureSuite.                                                           *)

Interrupt ==
  /\ MayInterrupt /\ ~interrupted /\ pc \in {"measure", "report"}
  /\ interrupted' = TRUE
  /\ UNCHANGED <<pc, options, input, judged, mean, summary, notes, exit>>

(* inBase, the versions, the directories of the sides and their builds.    *)
Build ==
  /\ pc = "build"
  /\ newInHead' \in IF mode = "compare" THEN BOOLEAN ELSE {FALSE}
  /\ failure' \in {"none", "error"}
  /\ pc' = IF failure' = "none" THEN "measure" ELSE "judge"
  /\ UNCHANGED <<options, interrupted, results, judged, mean, summary, notes, exit>>

(* commandUnits: the sides a command is measured on.                       *)
UnitsOf(case, c) ==
  IF JudgedMode = "run" \/ c \in case.compares THEN SidesOf(JudgedMode)
  ELSE IF \E bud \in case.budgets : bud.command = c THEN {"head"}
  ELSE {}

(* What Measure may return: everything ran or failed on its own, or the    *)
(* benchmark failed before its units were made, or before their last run.  *)
Complete(m) == m.ran \/ m.failure # "none"

Measured(case) ==
  LET units == {u \in ToSet(case.commands) \X {"head", "base"} : u[2] \in UnitsOf(case, u[1])}
  IN [failure : {"none"}, sides : [units -> {m \in Measurements : Complete(m)}]]
     \cup [failure : {"error"}, sides : {<<>>}]
     \cup [failure : {"error", "metric_error"}, sides : {[u \in units |-> m] : m \in Measurements}]

Measure ==
  /\ pc = "measure" /\ ~interrupted /\ Len(results) < Len(Cases)
  /\ \E r \in Measured(Cases[Len(results) + 1]) : results' = Append(results, r)
  /\ UNCHANGED <<pc, options, newInHead, failure, interrupted, judged, mean, summary, notes, exit>>

EndSuite ==
  /\ pc = "measure" /\ (interrupted \/ Len(results) = Len(Cases))
  /\ pc' = "judge"
  /\ UNCHANGED <<options, input, interrupted, judged, mean, summary, notes, exit>>

-----------------------------------------------------------------------------
(* judgeBenchmark.                                                         *)

Collects(case, metric) ==
  CASE metric = "peak_rss" -> case.memory
    [] metric = "throughput" -> case.throughput
    [] OTHER -> TRUE

(* metricSummaries, series.                                                *)
Status(case, m, metric) ==
  IF ~Collects(case, metric) THEN "not_requested"
  ELSE IF metric = "peak_rss" /\ m.skipped THEN "unsupported"
  ELSE IF metric = "peak_rss" /\ m.failure = "metric_error" THEN "failed"
  ELSE IF m.ran THEN "measured" ELSE "failed"

AtFloor(m, metric) == metric = "peak_rss" /\ m.floor > 0 /\ m.rss <= m.floor

ValueOf(m, metric) == IF metric = "peak_rss" THEN m.rss ELSE m.latency
Allows(bud, v) == IF bud.upper THEN v <= bud.limit ELSE v >= bud.limit

(* evaluateBudget, measuredBudget.  "skipped" is a metric that was waived, *)
(* "at_floor" one that was skipped because of its floor.                   *)
BudgetStatus(case, m, bud) ==
  IF Status(case, m, bud.metric) = "unsupported" THEN "skipped"
  ELSE IF Status(case, m, bud.metric) # "measured" THEN "no_data"
  ELSE IF ~AtFloor(m, bud.metric) THEN IF Allows(bud, ValueOf(m, bud.metric)) THEN "pass" ELSE "fail"
  ELSE IF bud.upper /\ Allows(bud, m.floor) THEN "pass" ELSE "at_floor"

FloorWaived(status) ==  \* mutant: what the floor hides counts as waived
  IF status = "fail" THEN "over_budget" ELSE IF status = "no_data" THEN "metric_error" ELSE "pass"

BudgetResult(status) ==
  CASE status = "fail" -> "over_budget"
    [] status \in {"no_data", "at_floor"} -> "metric_error"
    [] OTHER -> "pass"

(* commandFailure: the failures of the benchmark and of the judged sides;  *)
(* a side that is missing is one.                                          *)
FailuresOf(case, br, c) ==
  ({br.failure} \cup
     {IF <<c, s>> \in DOMAIN br.sides THEN br.sides[<<c, s>>].failure ELSE "error" :
        s \in SidesOf(ModeOf(case, c))}) \ {"none"}

Verdicts == {"pass", "improved", "regression", "inconclusive", "skipped"}

(* The verdicts of compareMetric, with the floor of a side taken out.      *)
VerdictsOf(case, b, h, metric) ==
  IF {Status(case, b, metric), Status(case, h, metric)} # {"measured"} THEN {"skipped"}
  ELSE IF AtFloor(b, metric) /\ AtFloor(h, metric) THEN {"skipped"}
  ELSE IF AtFloor(b, metric) THEN {"regression", "inconclusive"}
  ELSE IF AtFloor(h, metric) THEN {"improved", "inconclusive"}
  ELSE {"pass", "improved", "regression", "inconclusive"}

Independent(case) == {m \in {"latency", "peak_rss"} : Collects(case, m)}

(* deriveThroughput takes the verdict of the latency, and no gate.         *)
Throughput(case, b, h, latency) ==
  IF {Status(case, b, "throughput"), Status(case, h, "throughput")} = {"measured"}
     /\ b.work > 0 /\ b.work = h.work /\ b.latency > 0 /\ h.latency > 0
  THEN latency ELSE "skipped"

(* compareMetrics.                                                         *)
Comparisons(case, br, c) ==
  LET b == br.sides[<<c, "base">>]
      h == br.sides[<<c, "head">>]
      verdicts == {v \in [Independent(case) -> Verdicts] :
                     \A m \in DOMAIN v : v[m] \in VerdictsOf(case, b, h, m)}
  IN IF ModeOf(case, c) = "run" \/ FailuresOf(case, br, c) # {} THEN {<<>>}
     ELSE {IF case.throughput
           THEN [m \in DOMAIN v \cup {"throughput"} |->
                   IF m = "throughput" THEN Throughput(case, b, h, v["latency"]) ELSE v[m]]
           ELSE v : v \in verdicts}

GateIgnored(case, comparisons) ==  \* mutant: every verdict decides
  {comparisons[m] : m \in DOMAIN comparisons} \ {"skipped"}

Gated(case, comparisons) ==
  {comparisons[m] : m \in DOMAIN comparisons \cap case.gates} \ {"skipped"}

BudgetsOf(case, br, c) ==
  [bud \in {x \in case.budgets : x.command = c} |->
     BudgetStatus(case, br.sides[<<c, "head">>], bud)]

JudgeCommand(case, br, c, comparisons) ==
  LET budgets == BudgetsOf(case, br, c)
  IN [result |-> Worst(FailuresOf(case, br, c)
                       \cup {BudgetResult(s) : s \in Range(budgets)}
                       \cup Gated(case, comparisons)),
      budgets |-> budgets, comparisons |-> comparisons]

(* The commands of the report: of a comparison, those with a side.         *)
Reported(br) == {u[1] : u \in DOMAIN br.sides}

JudgeBenchmark(case, br, comparisons) ==
  LET commands == [c \in Reported(br) |-> JudgeCommand(case, br, c, comparisons[c])]
  IN [commands |-> commands,
      result |-> Worst(({br.failure} \ {"none"}) \cup {commands[c].result : c \in Reported(br)})]

JudgeNext ==
  /\ pc = "judge" /\ Len(judged) < Len(results)
  /\ LET case == Cases[Len(judged) + 1]
         br == results[Len(judged) + 1]
     IN \E v \in {f \in [Reported(br) -> UNION {Comparisons(case, br, c) : c \in Reported(br)}] :
                    \A c \in DOMAIN f : f[c] \in Comparisons(case, br, c)} :
          judged' = Append(judged, JudgeBenchmark(case, br, v))
  /\ UNCHANGED <<pc, options, input, interrupted, mean, summary, notes, exit>>

-----------------------------------------------------------------------------
(* The geometric mean.  Its value is known by the product of the ratios.   *)

(* latencyStats: the latency of a side that completed; -1 without one.     *)
LatencyOf(br, c, side) ==
  IF <<c, side>> \in DOMAIN br.sides /\ br.sides[<<c, side>>].failure = "none"
     /\ br.sides[<<c, side>>].ran
  THEN br.sides[<<c, side>>].latency ELSE -1

(* relative: 0 stands for no reference.                                    *)
Fastest(case, br) ==
  LET fastest[n \in 0..Len(case.commands)] ==
        IF n = 0 THEN 0
        ELSE LET v == LatencyOf(br, case.commands[n], "head")
                 f == fastest[n - 1]
             IN IF v >= 0 /\ (f = 0 \/ v < f) THEN v ELSE f
  IN fastest[Len(case.commands)]

Baselines == {Cases[i].baseline : i \in DOMAIN results}

(* geoReference.                                                           *)
Reference == IF Cardinality(Baselines) = 1 /\ Baselines # {"none"} THEN "baseline" ELSE "fastest"

ReferenceOf(i) ==
  IF Reference = "fastest" THEN Fastest(Cases[i], results[i])
  ELSE LatencyOf(results[i], Cases[i].baseline, "head")

Product(factors) ==
  LET product[n \in 0..Len(factors)] == IF n = 0 THEN 1 ELSE product[n - 1] * factors[n]
  IN product[Len(factors)]

(* The ratios of some pairs of positive latencies <<v, reference>>.        *)
Ratio(pairs) ==
  <<Product([i \in DOMAIN pairs |-> pairs[i][1]]), Product([i \in DOMAIN pairs |-> pairs[i][2]])>>
AllPositive(pairs) == \A i \in DOMAIN pairs : pairs[i][1] > 0 /\ pairs[i][2] > 0

Whole == {i \in DOMAIN results : results[i].failure = "none"}

(* commandNames.                                                           *)
CommandNames == UNION {Reported(results[i]) : i \in Whole}
Shared == \E c \in CommandNames : \A i \in Whole : c \in Reported(results[i])

PartialCases ==  \* mutant: only the benchmark's own failure counts
  \A i \in DOMAIN results : results[i].failure = "none" /\ CommandNames \subseteq Reported(results[i])

CompleteCases ==
  \A i \in DOMAIN results :
    /\ results[i].failure = "none" /\ CommandNames \subseteq Reported(results[i])
    /\ \A c \in Reported(results[i]) :
         ~IsError(judged[i].commands[c].result) /\ LatencyOf(results[i], c, "head") >= 0

(* runGeoMean.                                                             *)
RunMean ==
  LET pairs(c) == [i \in DOMAIN results |-> <<LatencyOf(results[i], c, "head"), ReferenceOf(i)>>]
  IN IF /\ Len(results) >= 2 /\ Cardinality(CommandNames) >= 2 /\ Shared /\ CompleteCases
        /\ \A c \in CommandNames : AllPositive(pairs(c))
     THEN [reference |-> Reference, cases |-> Len(results),
           ratios |-> [c \in CommandNames |-> Ratio(pairs(c))]]
     ELSE NoMean

(* compareGeoMean: what was measured on the head alone has no ratio.       *)
CompareMean ==
  LET reported == UNION {{<<i, c>> : c \in Reported(results[i])} : i \in DOMAIN results}
      error(k) == IsError(judged[k[1]].commands[k[2]].result)
      alone(k) == <<k[2], "base">> \notin DOMAIN results[k[1]].sides /\ ~error(k)
      both == {k \in reported : ~alone(k)}
      compared == SetToSeq(both)
      pairs == [j \in DOMAIN compared |->
                  <<LatencyOf(results[compared[j][1]], compared[j][2], "head"),
                    LatencyOf(results[compared[j][1]], compared[j][2], "base")>>]
  IN IF /\ Cardinality(both) >= 2 /\ Whole = DOMAIN results
        /\ \A j \in DOMAIN compared : ~error(compared[j]) /\ AllPositive(pairs)
     THEN [reference |-> "base", cases |-> Cardinality(both),
           ratios |-> [c \in {"head/base"} |-> Ratio(pairs)]]
     ELSE NoMean

(* The end of judgeSuite.                                                  *)
JudgeMean ==
  /\ pc = "judge" /\ Len(judged) = Len(results)
  /\ pc' = "summarize"
  /\ mean' = IF failure # "none" \/ newInHead THEN NoMean
             ELSE IF JudgedMode = "compare" THEN CompareMean ELSE RunMean
  /\ UNCHANGED <<options, input, interrupted, judged, summary, notes, exit>>

SuiteResult == Worst(({failure} \ {"none"}) \cup {judged[i].result : i \in DOMAIN judged})

-----------------------------------------------------------------------------
(* summarize, countChecks, the annotations and the exit status.            *)

CommandsOf(i) == DOMAIN judged[i].commands

(* What is counted once each, with its result.                             *)
Counted ==
  {<<0, "suite", failure>>} \cup
  {<<i, "benchmark", results[i].failure>> :
     i \in {j \in DOMAIN judged : ~\E c \in CommandsOf(j) : IsError(judged[j].commands[c].result)}}
  \cup UNION {{<<i, c, judged[i].commands[c].result>> : c \in CommandsOf(i)} : i \in DOMAIN judged}

CountOf(r) == Cardinality({k \in Counted : k[3] = r})

NoInconclusive ==  \* mutant: --fail-on-inconclusive is forgotten
  IF CountOf("error") > 0 THEN "execution"
  ELSE IF CountOf("metric_error") > 0 THEN "metric"
  ELSE IF CountOf("regression") + CountOf("over_budget") > 0 THEN "failed" ELSE "ok"

ExitCode ==
  IF CountOf("error") > 0 THEN "execution"
  ELSE IF CountOf("metric_error") > 0 THEN "metric"
  ELSE IF CountOf("regression") + CountOf("over_budget") > 0 THEN "failed"
  ELSE IF CountOf("inconclusive") > 0 /\ failOnInconclusive THEN "failed" ELSE "ok"

(* The judged checks: <<benchmark, command, what, status>>.                *)
BudgetChecks ==
  UNION {UNION {{<<i, c, bud, judged[i].commands[c].budgets[bud]>> :
                   bud \in DOMAIN judged[i].commands[c].budgets} : c \in CommandsOf(i)} :
           i \in DOMAIN judged}

ComparisonChecks ==
  UNION {UNION {{<<i, c, m, judged[i].commands[c].comparisons[m]>> :
                   m \in DOMAIN judged[i].commands[c].comparisons} : c \in CommandsOf(i)} :
           i \in DOMAIN judged}

IsGated(k) == k[3] \in Cases[k[1]].gates
Informational(k) == k[3] # "throughput" /\ ~IsGated(k) /\ k[4] # "skipped"

Summarize ==
  /\ pc = "summarize" /\ pc' = "report"
  /\ summary' =
       [exit |-> IF interrupted /\ ExitCode = "ok" THEN "execution" ELSE ExitCode,
        counts |-> [r \in ToSet(Results) |-> CountOf(r)],
        skipped |-> Cardinality({k \in BudgetChecks : k[4] \in {"skipped", "at_floor"}})
                    + Cardinality({k \in ComparisonChecks : k[4] = "skipped"}),
        notGated |-> Cardinality({k \in ComparisonChecks : Informational(k)})]
  /\ UNCHANGED <<options, input, interrupted, judged, mean, notes, exit>>

(* WriteAnnotations.                                                       *)
FailureNotes ==
  {<<0, "suite">> : x \in {failure} \ {"none"}}
  \cup {<<i, "benchmark">> : i \in {j \in DOMAIN judged : results[j].failure # "none"}}
  \cup UNION {{<<i, u[1]>> : u \in {v \in DOMAIN results[i].sides :
                                      results[i].sides[v].failure # "none"}} : i \in DOMAIN judged}

AtFloorNotes ==
  {<<k[1], k[2]>> : k \in {x \in BudgetChecks : x[4] = "at_floor"
                            /\ judged[x[1]].commands[x[2]].result = "metric_error"}}

NotesOf(checks, verdicts, gated) ==
  {<<k[1], k[2]>> : k \in {x \in checks : x[4] \in verdicts /\ x[3] # "throughput"
                                          /\ (IsGated(x) <=> gated)}}

Annotations ==
  [error |-> FailureNotes \cup AtFloorNotes
           \cup {<<k[1], k[2]>> : k \in {x \in BudgetChecks : x[4] = "fail"}}
           \cup NotesOf(ComparisonChecks, {"regression"}, TRUE),
   warning |-> NotesOf(ComparisonChecks, {"inconclusive"}, TRUE),
   notice |-> NotesOf(ComparisonChecks, {"regression"}, FALSE)]

(* finish, on GitHub Actions.                                              *)
Report ==
  /\ pc = "report" /\ pc' = "done"
  /\ notes' = Annotations
  /\ exit' = IF interrupted THEN "execution" ELSE summary.exit
  /\ UNCHANGED <<options, input, interrupted, judged, mean, summary>>

Next ==
  \/ Interrupt \/ Build \/ Measure \/ EndSuite
  \/ JudgeNext \/ JudgeMean \/ Summarize \/ Report

Spec == Init /\ [][Next]_vars

-----------------------------------------------------------------------------
(* Properties.                                                             *)

(* Everything the report says of a result is one of the seven results, and *)
(* everything that is counted is counted under one of them.                *)
TypeOK ==
  /\ pc \in {"build", "measure", "judge", "summarize", "report", "done"}
  /\ \A i \in DOMAIN judged :
       /\ judged[i].result \in ToSet(Results)
       /\ \A c \in CommandsOf(i) :
            /\ judged[i].commands[c].result \in ToSet(Results)
            /\ Range(judged[i].commands[c].comparisons) \subseteq Verdicts
  /\ exit \in {"none", "ok", "failed", "metric", "execution"}
  /\ mean.cases \in Nat

(* The values a measured metric can really have: below its floor any.      *)
RealValues(m, metric) ==
  IF AtFloor(m, metric) THEN 0..m.floor ELSE {ValueOf(m, metric)}

GatedVerdict(i, verdicts) ==
  \E c \in CommandsOf(i) : \E m \in Cases[i].gates \cap DOMAIN judged[i].commands[c].comparisons :
    judged[i].commands[c].comparisons[m] \in verdicts

(* Status 0 says that everything that was asked for was assessed: every    *)
(* benchmark ran, every command completed on each side it was measured on, *)
(* every budget holds whatever the floor hides, or was waived by the       *)
(* suite, and no gated comparison found a regression                       *)
(* (report.summarize, report.budgets).                                     *)
PassIsAssessed ==
  exit = "ok" =>
    /\ ~interrupted /\ failure = "none" /\ Len(results) = Len(Cases)
    /\ \A i \in DOMAIN results :
         /\ results[i].failure = "none"
         /\ \A u \in DOMAIN results[i].sides : results[i].sides[u].failure = "none"
         /\ \A bud \in Cases[i].budgets :
              LET m == results[i].sides[<<bud.command, "head">>]
              IN \/ bud.metric = "peak_rss" /\ m.skipped
                 \/ \A v \in RealValues(m, bud.metric) : Allows(bud, v)
         /\ ~GatedVerdict(i, {"regression"})
         /\ failOnInconclusive => ~GatedVerdict(i, {"inconclusive"})

(* A status other than 0 has its ground in what was measured: a budget     *)
(* that is exceeded or a gated verdict, a metric or a floor that leaves a  *)
(* budget open, a failure to run.  What is not gated never decides         *)
(* (report.compareMetrics, report.deriveThroughput).                       *)
FailureHasGround ==
  /\ exit = "failed" => \E i \in DOMAIN results :
       \/ \E bud \in Cases[i].budgets :
            LET m == results[i].sides[<<bud.command, "head">>]
            IN ~Allows(bud, ValueOf(m, bud.metric))
       \/ GatedVerdict(i, {"regression"})
       \/ failOnInconclusive /\ GatedVerdict(i, {"inconclusive"})
  /\ exit = "metric" => \E i \in DOMAIN results :
       \/ results[i].failure = "metric_error"
       \/ \E u \in DOMAIN results[i].sides : results[i].sides[u].failure = "metric_error"
       \/ \E bud \in Cases[i].budgets :
            {Allows(bud, v) : v \in RealValues(results[i].sides[<<bud.command, "head">>], bud.metric)}
              = BOOLEAN
  /\ exit = "execution" =>
       \/ interrupted \/ failure = "error"
       \/ \E i \in DOMAIN results :
            \/ results[i].failure = "error"
            \/ \E u \in DOMAIN results[i].sides : results[i].sides[u].failure = "error"

(* What the job is told agrees: the status, which comes from what is       *)
(* counted, with the result of the suite, which is the worst of its parts; *)
(* and everything that fails the job is annotated as an error at the       *)
(* command or at its benchmark, and nothing is in a job that passes        *)
(* (report.judgeSuite, report.summarize, report.WriteAnnotations).         *)
OutputsAgree ==
  /\ TypeOK
  /\ pc = "done" /\ ~interrupted =>
       exit = CASE SuiteResult = "error" -> "execution"
                [] SuiteResult = "metric_error" -> "metric"
                [] SuiteResult \in {"regression", "over_budget"} -> "failed"
                [] SuiteResult = "inconclusive" /\ failOnInconclusive -> "failed"
                [] OTHER -> "ok"
  /\ pc = "done" =>
       /\ failure # "none" => <<0, "suite">> \in notes.error
       /\ \A i \in DOMAIN judged : \A c \in CommandsOf(i) :
            judged[i].commands[c].result \in {"over_budget", "regression", "metric_error", "error"} =>
              {<<i, c>>, <<i, "benchmark">>} \cap notes.error # {}
       /\ exit = "ok" => notes.error = {}
       /\ exit # "ok" /\ ~interrupted => notes.error \cup notes.warning # {}

(* A geometric mean is shown only over measurements that completed and     *)
(* could be judged, and it is relative to what it says: no command is      *)
(* faster than the fastest, and the baseline is exactly 1                  *)
(* (report.runGeoMean, report.compareGeoMean).                             *)
MeanIsComplete ==
  mean # NoMean =>
    /\ \A i \in DOMAIN results :
         /\ results[i].failure = "none"
         /\ \A u \in DOMAIN results[i].sides :
              results[i].sides[u].failure = "none" /\ results[i].sides[u].ran
         /\ \A c \in CommandsOf(i) : ~IsError(judged[i].commands[c].result)
         /\ mean.reference # "base" => Reported(results[i]) = DOMAIN mean.ratios
    /\ \A c \in DOMAIN mean.ratios : mean.ratios[c][1] > 0 /\ mean.ratios[c][2] > 0
    /\ mean.reference = "fastest" => \A c \in DOMAIN mean.ratios : mean.ratios[c][1] >= mean.ratios[c][2]
    /\ mean.reference = "baseline" => \E c \in DOMAIN mean.ratios : mean.ratios[c][1] = mean.ratios[c][2]
=============================================================================
