-------------------------------- MODULE Config ------------------------------
(***************************************************************************)
(* The suite file: what Load accepts (package config, after the schema),   *)
(* what the settings resolve to, and the places where the run expands a    *)
(* template or confines a path (package runner) and may refuse it, after   *)
(* it has built and started measuring.                                     *)
(*                                                                         *)
(* An optional setting is a set of at most one value.  A text is the       *)
(* sequence of the references in it.  A path also says whether its first   *)
(* reference starts it, whether text follows that reference without a      *)
(* separator, and the segments after it.  No path crosses a symbolic link, *)
(* and values are not quoted for a shell.                                  *)
(***************************************************************************)
EXTENDS SequencesExt

CONSTANTS
  Suites,      \* the documents, as they match the schema
  SuiteDir,    \* the suite's directory, a path
  Top,         \* the top of its repository; its own directory outside Git
  Sides        \* <<"head">>, or <<"base", "head">> in a comparison

(* No suite lies in the directory that himorime makes for itself.          *)
ASSUME ConfigAssumption ==
  /\ SuiteDir \in Seq(STRING) /\ Top \in Seq(STRING) /\ IsPrefix(Top, SuiteDir) /\ Top # <<>>
  /\ "tmp" \notin ToSet(SuiteDir)
  /\ Sides \in {<<"head">>, <<"base", "head">>}

VARIABLES
  raw,         \* the document
  suite,       \* the resolved suite
  issues,      \* why it is not accepted
  pc,
  at,          \* the benchmark being measured
  built,       \* the sides whose artifact exists
  prepared,    \* the sides whose workdir exists
  refused      \* what the run refuses, and where

vars == <<raw, suite, issues, pc, at, built, prepared, refused>>

-----------------------------------------------------------------------------
(* Optional values.                                                        *)

Written(levels) == {i \in DOMAIN levels : levels[i] # {}}

(* pickInt, pickDuration, firstString.                                     *)
First(levels) == UNION {levels[i] : i \in {j \in Written(levels) : \A k \in Written(levels) : j <= k}}

(* mergeEnv.                                                               *)
MergeEnv(base, overlay) ==
  [n \in DOMAIN base \cup DOMAIN overlay |-> IF n \in DOMAIN overlay THEN overlay[n] ELSE base[n]]

-----------------------------------------------------------------------------
(* Templates.                                                              *)

PathVariables == {"root", "head_root", "workdir"}
Malformed == {"unterminated", "unknown"}

(* filepath.Join of absolute and relative segments, and the directories it *)
(* goes through, from dir on.                                              *)
Enter(path, segment) ==
  IF segment # ".." THEN Append(path, segment)
  ELSE IF path = <<>> THEN <<>> ELSE Front(path)
Way(dir, segments) ==
  LET way[n \in 0..Len(segments)] == IF n = 0 THEN dir ELSE Enter(way[n - 1], segments[n])
  IN  way
Join(dir, segments) == Way(dir, segments)[Len(segments)]

Within(root, path) == IsPrefix(root, path)

Glued == <<"glued">>
(* The rest of a path after its variable, as the validator reads it.       *)
Rel(p) == (IF p.glued THEN Glued ELSE <<>>) \o p.segments

LeavesSuite(p) == ~Within(SuiteDir, Join(SuiteDir, Rel(p)))  \* mutant: confined to the suite's directory
(* leavesProject.                                                         *)
LeavesProject(p) == ~Within(Top, Join(SuiteDir, Rel(p)))

HasDotDot(p) == ".." \in ToSet(p.segments)

Misused(p, allowWorkdir) ==
  \E i \in DOMAIN p.refs :
    \/ p.refs[i] \notin PathVariables
    \/ i > 1 \/ ~p.first
    \/ p.refs[i] = "workdir" /\ ~allowWorkdir

(* checkPathTemplate.                                                      *)
CheckPath(p, allowWorkdir) ==
  IF ToSet(p.refs) \cap Malformed # {} THEN {"syntax"}
  ELSE IF Misused(p, allowWorkdir) THEN {"variable"}
  ELSE IF HasDotDot(p) /\ p.refs = <<"workdir">> THEN {"workdir"}
  ELSE IF HasDotDot(p) /\ LeavesProject(p) THEN {"outside"}
  ELSE {}

CheckTextOnce(text, scope, hasBuild) ==  \* mutant: the scope is not looked at
  LET refs == ToSet(text)
  IN  IF refs \cap Malformed # {} THEN {"syntax"}
      ELSE IF "artifact" \in refs /\ ~hasBuild THEN {"variable"} ELSE {}

(* checkTemplate.                                                          *)
CheckText(text, scope, hasBuild) ==
  LET refs == ToSet(text)
      unavailable ==
        CASE scope = "benchmark" -> IF hasBuild THEN {} ELSE {"artifact"}
          [] scope = "build" -> {"workdir"}
          [] scope = "versions" -> {"artifact", "workdir"}
  IN  IF refs \cap Malformed # {} THEN {"syntax"}
      ELSE IF refs \cap unavailable # {} THEN {"variable"} ELSE {}

CheckEnv(env, scope, hasBuild) ==
  UNION {CheckText(env[n], scope, hasBuild) : n \in DOMAIN env}

CheckCwd(cwd, allowWorkdir) == UNION {CheckPath(p, allowWorkdir) : p \in cwd}

(* resolveExec, what it checks.                                            *)
CheckExec(e, scope, hasBuild) ==
  CheckCwd(e.cwd, scope # "build") \cup CheckEnv(e.env, scope, hasBuild)
    \cup UNION {CheckText(e.argv[i], scope, hasBuild) : i \in DOMAIN e.argv}

-----------------------------------------------------------------------------
(* Metrics, work, budgets, tolerances.                                     *)

Group ==
  [latency |-> "latency", throughput |-> "throughput", cpu_total |-> "cpu",
   cpu_utilization |-> "cpu", peak_rss |-> "memory"]
Better ==
  [latency |-> "lower", throughput |-> "higher", cpu_total |-> "lower",
   cpu_utilization |-> "neutral", peak_rss |-> "lower"]

ByteUnits == {"bytes", "KiB"}
InBytes(unit) == IF unit \in ByteUnits THEN "bytes" ELSE unit

(* resolveWork.                                                            *)
WorkUnit(w) ==
  IF w.file # {} THEN "bytes"
  ELSE InBytes(CHOOSE u \in First(<<w.unit, {"operations"}>>) : TRUE)

CheckWork(w) ==
  IF w.value = (w.file # {}) THEN {"work"}
  ELSE CheckCwd(w.file, TRUE)
         \cup (IF w.unit = {} \/ w.unit = {WorkUnit(w)} THEN {} ELSE {"unit"})

(* resolveMetrics.                                                         *)
ResolveMetrics(d, b) ==
  [cpu |-> First(<<b.cpu, d.cpu, {FALSE}>>), memory |-> First(<<b.memory, d.memory, {FALSE}>>),
   unsupported |-> First(<<b.unsupported, d.unsupported, {"fail"}>>), work |-> b.work]

(* Metrics.Collects.                                                       *)
Collects(m, group) ==
  CASE group = "latency" -> TRUE
    [] group = "throughput" -> m.work # {}
    [] group = "cpu" -> m.cpu = {TRUE}
    [] group = "memory" -> m.memory = {TRUE}

(* ParseThreshold and checkDirection.                                      *)
Threshold(budget) ==
  /\ budget.limit > 0
  /\ CASE Better[budget.metric] = "lower" -> budget.op \in {"<", "<="}
       [] Better[budget.metric] = "higher" -> budget.op \in {">", ">="}
       [] OTHER -> TRUE

BudgetAnyUnit(budget, m) ==  \* mutant: a throughput in another unit than the work
  /\ budget.aggregation # "p100" /\ Threshold(budget) /\ Collects(m, Group[budget.metric])
(* resolveBudget.                                                          *)
BudgetHolds(budget, m) ==
  /\ budget.aggregation # "p100"
  /\ Threshold(budget)
  /\ Collects(m, Group[budget.metric])
  /\ budget.metric = "throughput" => InBytes(budget.unit) = WorkUnit(CHOOSE w \in m.work : TRUE)

Compared == {"latency", "cpu_total", "peak_rss"}
RegressionKeys ==
  ({"all"} \X {"confidence", "min_samples", "max_cv", "commands"})
    \cup (Compared \X {"statistic", "max_percent", "min_difference", "gate"})

DefaultRegression ==
  [k \in RegressionKeys |->
     CASE k[2] = "confidence" -> {95} [] k[2] = "min_samples" -> {10} [] k[2] = "max_cv" -> {50}
       [] k[2] = "commands" -> {{}} [] k[2] = "statistic" -> {"median"}
       [] k[2] = "max_percent" -> {10} [] k[2] = "min_difference" -> {0} [] k[2] = "gate" -> {TRUE}]

ApplyToDefault(base, r) ==  \* mutant: what defaults say of a metric is lost with the benchmark's own
  [k \in RegressionKeys |->
     IF k \in DOMAIN r THEN {r[k]}
     ELSE IF \E j \in DOMAIN r : j[1] = k[1] THEN DefaultRegression[k] ELSE base[k]]

(* applyRegression and applyMetricRegression; a raw regression gives the   *)
(* keys it writes.                                                         *)
ApplyRegression(base, r) == [k \in RegressionKeys |-> IF k \in DOMAIN r THEN {r[k]} ELSE base[k]]

Oversized == 99  \* a quantity beyond what ParseQuantity takes
CheckRegression(r) ==
  IF \E k \in DOMAIN r : k[2] = "min_difference" /\ r[k] = Oversized THEN {"quantity"} ELSE {}

(* checkRegressionMetrics.                                                 *)
CheckTolerances(r, m) ==
  IF \E k \in DOMAIN r : k[1] # "all" /\ ~Collects(m, Group[k[1]]) THEN {"metric"} ELSE {}

-----------------------------------------------------------------------------
(* A benchmark.                                                            *)

BenchmarkSettings == {"warmup", "runs", "min_runs", "max_runs", "min_time"}
CommandSettings == {"timeout", "cwd", "stdout", "stderr", "exit_codes"}

Standard ==
  [warmup |-> {1}, runs |-> {0}, min_runs |-> {10}, max_runs |-> {100}, min_time |-> {2},
   timeout |-> {60}, cwd |-> {}, stdout |-> {"discard"}, stderr |-> {"discard"}, exit_codes |-> {{0}}]

(* The keys a level writes: a function from some settings.                 *)
Setting(level, key) == IF key \in DOMAIN level THEN {level[key]} ELSE {}

EnvOf(d, b, own) == MergeEnv(MergeEnv(d.env, b.env), own.env)

ResolveHook(h, b, d) ==
  [argv |-> h.argv, env |-> EnvOf(d, b, h),
   cwd |-> First(<<h.cwd, Setting(b.settings, "cwd"), Setting(d.settings, "cwd")>>)]

ResolveCommand(c, b, d) ==
  [name |-> c.name, argv |-> c.argv, env |-> EnvOf(d, b, c),
   settings |-> [k \in CommandSettings |->
     First(<<Setting(c.settings, k), Setting(b.settings, k), Setting(d.settings, k), Standard[k]>>)]]

ResolveBenchmark(b, d) ==
  [settings |-> [k \in BenchmarkSettings |->
     First(<<Setting(b.settings, k), Setting(d.settings, k), Standard[k]>>)],
   hooks |-> [stage \in DOMAIN b.hooks |->
     [i \in DOMAIN b.hooks[stage] |-> ResolveHook(b.hooks[stage][i], b, d)]],
   stdin |-> b.stdin, terminal |-> b.terminal,
   commands |-> [i \in DOMAIN b.commands |-> ResolveCommand(b.commands[i], b, d)],
   metrics |-> ResolveMetrics(d.metrics, b.metrics),
   budgets |-> UNION {{<<b.commands[i].name, x>> : x \in
     {y \in b.commands[i].budgets : BudgetHolds(y, ResolveMetrics(d.metrics, b.metrics))}} :
       i \in DOMAIN b.commands},
   regression |-> ApplyRegression(ApplyRegression(DefaultRegression, d.regression), b.regression)]

(* checkTerminalStderr: at the first command without its own it looks at   *)
(* what applies to all, and at no command after it.                        *)
CheckTerminalStderr(b, d) ==
  LET own == [i \in DOMAIN b.commands |-> Setting(b.commands[i].settings, "stderr")]
      Set(option) == option \ {"discard"} # {}
      all == First(<<Setting(b.settings, "stderr"), Setting(d.settings, "stderr")>>)
      inherits == {i \in DOMAIN own : own[i] = {}}
      stops == inherits # {} /\ ("stderr" \in DOMAIN b.settings \/ Set(all))
  IN  IF \/ stops /\ Set(all)
         \/ \E i \in DOMAIN own : (stops => i < Min(inherits)) /\ Set(own[i])
      THEN {"stderr"} ELSE {}

CheckStdin(s, hasBuild) ==
  UNION {IF x.kind = "content" THEN CheckText(x.content, "benchmark", hasBuild)
         ELSE CheckPath(x.file, TRUE) : x \in s}

Names(b) == {b.commands[i].name : i \in DOMAIN b.commands}
AsExec(c) == [argv |-> c.argv, env |-> c.env, cwd |-> Setting(c.settings, "cwd")]
(* Setup, prepare_each and cleanup.                                        *)
Hooks(b) == UNION {ToSet(b.hooks[stage]) : stage \in DOMAIN b.hooks}

CheckRuns(settings) ==
  IF settings.runs = {0} /\ \E n \in settings.min_runs, x \in settings.max_runs : x < n
  THEN {"runs"} ELSE {}

(* resolveBenchmark, what it checks.                                       *)
CheckBenchmark(b, d, hasBuild) ==
  LET resolved == ResolveBenchmark(b, d)
  IN  UNION
       {CheckCwd(Setting(b.settings, "cwd"), TRUE), CheckEnv(b.env, "benchmark", hasBuild),
        CheckRuns(resolved.settings), CheckStdin(b.stdin, hasBuild),
        UNION {CheckExec(h, "benchmark", hasBuild) : h \in Hooks(b)},
        UNION {CheckExec(AsExec(b.commands[i]), "benchmark", hasBuild) : i \in DOMAIN b.commands},
        IF b.terminal THEN CheckTerminalStderr(b, d) ELSE {},
        IF b.baseline \subseteq Names(b) THEN {} ELSE {"baseline"},
        UNION {CheckWork(w) : w \in b.metrics.work},
        IF \A i \in DOMAIN b.commands : \A x \in b.commands[i].budgets :
             BudgetHolds(x, resolved.metrics) THEN {} ELSE {"budget"},
        CheckRegression(b.regression),
        IF <<"all", "commands">> \in DOMAIN b.regression
             /\ ~(b.regression[<<"all", "commands">>] \subseteq Names(b)) THEN {"commands"} ELSE {},
        CheckTolerances(b.regression, resolved.metrics)}

-----------------------------------------------------------------------------
(* The suite.                                                              *)

CheckOutputs(outputs) ==
  (IF \E i, j \in DOMAIN outputs : /\ i < j /\ outputs[i].path = outputs[j].path
        /\ (outputs[i].section = {} \/ outputs[j].section = {} \/ outputs[i].section = outputs[j].section)
   THEN {"outputs"} ELSE {})
  \cup (IF \E i \in DOMAIN outputs : outputs[i].section # {} /\ outputs[i].format # "markdown"
        THEN {"section"} ELSE {})

(* validator.resolve.                                                      *)
Issues(s) ==
  LET hasBuild == s.build # {} IN
  UNION {CheckCwd(Setting(s.defaults.settings, "cwd"), TRUE),
         CheckEnv(s.defaults.env, "benchmark", hasBuild), CheckRegression(s.defaults.regression),
         UNION {CheckExec(e, "build", hasBuild) : e \in s.build},
         UNION {CheckBenchmark(s.benchmarks[i], s.defaults, hasBuild) : i \in DOMAIN s.benchmarks},
         IF IsInjective([i \in DOMAIN s.benchmarks |-> s.benchmarks[i].name]) THEN {} ELSE {"name"},
         CheckOutputs(s.outputs),
         UNION {CheckText(s.versions[i], "versions", hasBuild) : i \in DOMAIN s.versions}}

Resolve(s) ==
  [build |-> s.build, versions |-> s.versions, outputs |-> s.outputs,
   benchmarks |-> [i \in DOMAIN s.benchmarks |-> ResolveBenchmark(s.benchmarks[i], s.defaults)]]

(* Parse, after the schema.                                                *)
Load ==
  /\ pc = "load"
  /\ issues' = Issues(raw)
  /\ IF issues' = {} THEN suite' = Resolve(raw) /\ pc' = "versions"
                     ELSE pc' = "rejected" /\ UNCHANGED suite
  /\ UNCHANGED <<raw, at, built, prepared, refused>>

-----------------------------------------------------------------------------
(* What the schema promises of a document.  That himorime's own directory  *)
(* has a random name, which no path spells, is not the schema's.           *)

References == PathVariables \cup Malformed \cup {"artifact", "exe", "env", "unset"}

Values(env) == {env[n] : n \in DOMAIN env}
TextsOfExec(e) == ToSet(e.argv) \cup Values(e.env)
TextsOfBenchmark(b) ==
  UNION ({Values(b.env), {x.content : x \in {y \in b.stdin : y.kind = "content"}}}
           \cup {TextsOfExec(e) : e \in Hooks(b) \cup ToSet(b.commands)})
TextsOf(s) ==
  UNION ({ToSet(s.versions), Values(s.defaults.env)} \cup {TextsOfExec(e) : e \in s.build}
           \cup {TextsOfBenchmark(s.benchmarks[i]) : i \in DOMAIN s.benchmarks})

CwdOf(level) == Setting(level.settings, "cwd")
PathsOfBenchmark(b) ==
  UNION {CwdOf(b), UNION {h.cwd : h \in Hooks(b)}, UNION {CwdOf(c) : c \in ToSet(b.commands)},
         {x.file : x \in {y \in b.stdin : y.kind # "content"}}, UNION {w.file : w \in b.metrics.work}}
PathsOf(s) ==
  UNION ({CwdOf(s.defaults)} \cup {e.cwd : e \in s.build}
           \cup {PathsOfBenchmark(s.benchmarks[i]) : i \in DOMAIN s.benchmarks})

Schema(s) ==
  /\ \A p \in PathsOf(s) :
       /\ p.refs \in Seq(STRING) /\ (p.glued => p.refs # <<>>)
       /\ p.segments \in Seq(STRING) /\ "tmp" \notin ToSet(p.segments)
  /\ \A text \in TextsOf(s) : ToSet(text) \subseteq References
  /\ s.benchmarks # <<>> /\ s.benchmarks \in Seq(ToSet(s.benchmarks))
  /\ <<"all", "commands">> \notin DOMAIN s.defaults.regression
  /\ \A i \in DOMAIN s.benchmarks :
       LET b == s.benchmarks[i] IN
       /\ DOMAIN b.hooks = {"setup", "prepare_each", "cleanup"}
       /\ b.commands \in Seq(ToSet(b.commands))
       /\ \A c \in ToSet(b.commands) : \A x \in c.budgets : x.metric \in DOMAIN Group

ASSUME SuitesAssumption == \A s \in Suites : Schema(s)

-----------------------------------------------------------------------------
(* The run.                                                                *)

Worktree == <<"tmp", "git", "tree">>
(* measureSuite: the top of a side's tree, and the suite's directory in it.*)
ProjectRoot(side) == IF side = "head" THEN Top ELSE Worktree
Root(side) ==
  IF side = "head" THEN SuiteDir ELSE Worktree \o SubSeq(SuiteDir, Len(Top) + 1, Len(SuiteDir))
WorkdirOf(side) == <<"tmp", side, "workdir">>

(* Vars: what is available, and the directories.                           *)
Vars(side, more) ==
  [side |-> side, available |-> {"root", "head_root", "exe", "env"} \cup more]
Directory(v, ref) ==
  CASE ref = "root" -> Root(v.side) [] ref = "head_root" -> SuiteDir
    [] ref = "workdir" -> WorkdirOf(v.side)

(* Vars.value: why a text cannot be expanded.                              *)
ExpandText(text, v) ==
  IF ToSet(text) \cap Malformed # {} THEN {"variable"}
  ELSE IF ToSet(text) \ (v.available \cup {"unset"}) # {} THEN {"variable"}
  ELSE IF "unset" \in ToSet(text) THEN {"environment"} ELSE {}

(* resolvePath: the path, expanded against base.                           *)
PathFrom(p, v) ==
  IF p.refs = <<>> THEN Join(Root(v.side), p.segments)
  ELSE LET dir == Directory(v, p.refs[1])
       IN  Join(IF p.glued THEN Append(Front(dir), "glued") ELSE dir, p.segments)

Roots(v) ==
  {Top, ProjectRoot(v.side)}
    \cup (IF "workdir" \in v.available THEN {WorkdirOf(v.side)} ELSE {})

(* resolvePath and confine.                                                *)
ExpandPath(p, v) ==
  IF ExpandText(p.refs, v) # {} THEN ExpandText(p.refs, v)
  ELSE IF \E r \in Roots(v) : Within(r, PathFrom(p, v)) THEN {} ELSE {"outside"}

(* spec and childEnv, in the working directory cwd.                        *)
RefusedExec(e, cwd, v) ==
  UNION ({ExpandPath(p, v) : p \in cwd} \cup {ExpandText(e.env[n], v) : n \in DOMAIN e.env}
           \cup {ExpandText(e.argv[i], v) : i \in DOMAIN e.argv})

Step(why, next) ==
  /\ refused' = why
  /\ pc' = IF why = {} THEN next ELSE "refused"

(* Version.                                                                *)
RunVersions ==
  /\ pc = "versions"
  /\ Step(UNION {ExpandText(suite.versions[i], Vars("head", {})) : i \in DOMAIN suite.versions}, "build")
  /\ UNCHANGED <<raw, suite, issues, at, built, prepared>>

(* Build.                                                                  *)
Build(side) ==
  /\ pc = "build" /\ side \notin built
  /\ Step(UNION {RefusedExec(e, e.cwd, Vars(side, {"artifact"})) : e \in suite.build},
          IF built \cup {side} = ToSet(Sides) THEN "prepare" ELSE "build")
  /\ built' = built \cup {side} /\ UNCHANGED <<raw, suite, issues, at, prepared>>

Benchmark == suite.benchmarks[at]
InBenchmark(side) ==
  Vars(side, {"workdir"} \cup (IF suite.build = {} THEN {} ELSE {"artifact"}))

RefusedHooks(stage, side) ==
  UNION {RefusedExec(h, h.cwd, InBenchmark(side)) : h \in ToSet(Benchmark.hooks[stage])}

(* prepareSide: the content, the setup hooks, the fixture.                 *)
PrepareSide(side) ==
  /\ pc = "prepare" /\ side \notin prepared
  /\ prepared' = prepared \cup {side}
  /\ Step(RefusedHooks("setup", side)
            \cup UNION {IF s.kind = "content" THEN ExpandText(s.content, InBenchmark(side))
                        ELSE ExpandPath(s.file, InBenchmark(side)) : s \in Benchmark.stdin},
          IF prepared' = ToSet(Sides) THEN "measure" ELSE "prepare")
  /\ UNCHANGED <<raw, suite, issues, at, built>>

(* runOnce, up to the start of the command, and work.                      *)
RunOnce(side, c) ==
  /\ pc = "measure"
  /\ Step(RefusedHooks("prepare_each", side)
            \cup RefusedExec(c, c.settings.cwd, InBenchmark(side))
            \cup UNION {UNION {ExpandPath(p, InBenchmark(side)) : p \in w.file} : w \in Benchmark.metrics.work},
          "measure")
  /\ UNCHANGED <<raw, suite, issues, at, built, prepared>>

(* teardown, and the next benchmark.                                       *)
Teardown ==
  /\ pc = "measure"
  /\ Step(UNION {RefusedHooks("cleanup", side) : side \in prepared},
          IF at < Len(suite.benchmarks) THEN "prepare" ELSE "done")
  /\ at' = at + 1 /\ prepared' = {}
  /\ UNCHANGED <<raw, suite, issues, built>>

Init ==
  /\ raw \in Suites /\ suite = <<>> /\ issues = {} /\ pc = "load" /\ at = 1
  /\ built = {} /\ prepared = {} /\ refused = {}

Next ==
  \/ Load \/ RunVersions \/ Teardown
  \/ \E side \in ToSet(Sides) : Build(side) \/ PrepareSide(side)
  \/ \E side \in ToSet(Sides) : pc = "measure" /\ \E c \in ToSet(Benchmark.commands) : RunOnce(side, c)

Spec == Init /\ [][Next]_vars

-----------------------------------------------------------------------------
(* Properties.                                                             *)

(* Whatever an accepted suite makes the run expand is available there, and *)
(* whatever path it names is inside the project or the workdir: the run    *)
(* refuses it for an environment variable that is not set and for nothing  *)
(* else, unless a path has text written against the variable that starts   *)
(* it, or climbs out of the project and comes back by name, which leads    *)
(* elsewhere from the base revision: there validation does accept a path   *)
(* the run rejects after building (load.go:108-110 says never).            *)
Available == "variable" \notin refused
OutAndBack(p) ==
  LET way == Way(SuiteDir, p.segments)
  IN  Within(Top, way[Len(p.segments)]) /\ \E n \in DOMAIN way : ~Within(Top, way[n])
AcceptedRuns ==
  /\ Available
  /\ "outside" \in refused => \E p \in PathsOf(raw) : p.glued \/ OutAndBack(p)

(* A path that is rejected because it leaves the project is one that the   *)
(* run would refuse as well, in the tree that every run measures: nothing  *)
(* usable is rejected.  Text written against the variable is excepted; the *)
(* validator takes it for a directory of its own.                          *)
RejectedLeave ==
  pc = "rejected" =>
    \A p \in PathsOf(raw) : ~p.glued /\ CheckPath(p, TRUE) = {"outside"} =>
      ExpandPath(p, Vars("head", {"workdir"})) = {"outside"}

(* The settings of an accepted benchmark fit each other.  Every budget     *)
(* written is among those to be judged, on a metric that is measured, for  *)
(* throughput in the unit of the work; its own tolerances are on metrics   *)
(* that are measured; baseline and compared commands are its commands; and *)
(* on a terminal no command keeps a stderr of its own.  Excepted are the   *)
(* commands that checkTerminalStderr does not look at: the benchmark says  *)
(* discard, and a command before them has no stderr of its own.            *)
UnitFits(unit, w) ==
  IF w.file # {} THEN unit \in ByteUnits
  ELSE \E u \in IF w.unit = {} THEN {"operations"} ELSE w.unit :
         u = unit \/ {u, unit} \subseteq ByteUnits
OverlookedStderr(b, j) ==
  /\ Setting(b.settings, "stderr") = {"discard"}
  /\ \E k \in DOMAIN b.commands : k < j /\ Setting(b.commands[k].settings, "stderr") = {}
SettingsFit ==
  suite # <<>> =>
    \A i \in DOMAIN raw.benchmarks :
      LET b == raw.benchmarks[i]
          r == suite.benchmarks[i]
          Measured(m) == \/ m = "latency"
                         \/ Group[m] = "throughput" /\ b.metrics.work # {}
                         \/ Group[m] = "cpu" /\ r.metrics.cpu = {TRUE}
                         \/ Group[m] = "memory" /\ r.metrics.memory = {TRUE}
      IN  /\ \A c \in ToSet(b.commands) : \A x \in c.budgets :
               /\ <<c.name, x>> \in r.budgets /\ Measured(x.metric)
               /\ x.metric = "throughput" => \E w \in b.metrics.work : UnitFits(x.unit, w)
          /\ \A k \in DOMAIN b.regression : k[1] \in Compared => Measured(k[1])
          /\ b.baseline \cup UNION r.regression[<<"all", "commands">>] \subseteq Names(b)
          /\ b.terminal =>
               \A j \in DOMAIN b.commands :
                 r.commands[j].settings["stderr"] = {"discard"} \/ OverlookedStderr(b, j)

(* The most specific level that writes a setting decides it, down to the   *)
(* standard value where no level does: every setting of a benchmark and of *)
(* its commands, what it measures, its tolerances one by one, the working  *)
(* directories of its hooks, and every variable of every environment.      *)
Decided(value, levels) ==
  \/ value = {} /\ \A i \in DOMAIN levels : levels[i] = {}
  \/ \E i \in DOMAIN levels :
       value = levels[i] /\ value # {} /\ \A j \in 1..(i - 1) : levels[j] = {}
EnvDecided(env, own, b, d) ==
  /\ DOMAIN env = DOMAIN own \cup DOMAIN b.env \cup DOMAIN d.env
  /\ \A n \in DOMAIN env :
       Decided({env[n]}, <<Setting(own, n), Setting(b.env, n), Setting(d.env, n)>>)
MostSpecificWins ==
  suite # <<>> =>
    \A i \in DOMAIN raw.benchmarks :
      LET b == raw.benchmarks[i]
          d == raw.defaults
          r == suite.benchmarks[i]
          At(level, k) == Setting(level.settings, k)
      IN  /\ \A k \in BenchmarkSettings :
               Decided(r.settings[k], <<At(b, k), At(d, k), Standard[k]>>)
          /\ \A j \in DOMAIN b.commands :
               LET c == b.commands[j] IN
               /\ \A k \in CommandSettings :
                    Decided(r.commands[j].settings[k], <<At(c, k), At(b, k), At(d, k), Standard[k]>>)
               /\ EnvDecided(r.commands[j].env, c.env, b, d)
          /\ \A stage \in DOMAIN b.hooks : \A j \in DOMAIN b.hooks[stage] :
               LET h == b.hooks[stage][j] IN
               /\ Decided(r.hooks[stage][j].cwd, <<h.cwd, At(b, "cwd"), At(d, "cwd")>>)
               /\ EnvDecided(r.hooks[stage][j].env, h.env, b, d)
          /\ Decided(r.metrics.cpu, <<b.metrics.cpu, d.metrics.cpu, {FALSE}>>)
          /\ Decided(r.metrics.memory, <<b.metrics.memory, d.metrics.memory, {FALSE}>>)
          /\ Decided(r.metrics.unsupported, <<b.metrics.unsupported, d.metrics.unsupported, {"fail"}>>)
          /\ \A k \in RegressionKeys :
               Decided(r.regression[k],
                       <<Setting(b.regression, k), Setting(d.regression, k), DefaultRegression[k]>>)
=============================================================================
