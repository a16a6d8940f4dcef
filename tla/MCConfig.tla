------------------------------ MODULE MCConfig ------------------------------
EXTENDS Config

Path(refs, glued, segments) ==
  [refs |-> refs, first |-> TRUE, glued |-> glued, segments |-> segments]

OutAgain == <<"..", "..", "repo", "bench">>
Paths ==
  {Path(r, FALSE, s) : r \in {<<>>, <<"root">>, <<"head_root">>, <<"workdir">>},
                       s \in {<<"x">>, <<"..", "x">>, <<"x", "..", "..", "..">>, OutAgain}}
  \cup {Path(r, TRUE, s) : r \in {<<"root">>, <<"workdir">>}, s \in {<<>>, <<"..", "x">>}}
  \cup {Path(<<"env">>, FALSE, <<>>), Path(<<"unknown">>, FALSE, <<>>),
        Path(<<"root", "workdir">>, FALSE, <<"x">>), [Path(<<"root">>, FALSE, <<>>) EXCEPT !.first = FALSE]}

Texts ==
  {<<>>, <<"artifact">>, <<"root", "workdir">>, <<"exe", "env">>, <<"unset">>, <<"head_root", "unterminated">>}

Nothing == [k \in {} |-> 0]
NoMetrics == [cpu |-> {}, memory |-> {}, unsupported |-> {}, work |-> {}]
Exec == [argv |-> <<<<>>>>, env |-> Nothing, cwd |-> {}]
Command(name) == [name |-> name, argv |-> <<<<>>>>, env |-> Nothing, settings |-> Nothing, budgets |-> {}]
Plain ==
  [name |-> "one", settings |-> Nothing, env |-> Nothing, hooks |-> [setup |-> <<>>, prepare_each |-> <<>>, cleanup |-> <<>>],
   stdin |-> {}, terminal |-> FALSE, baseline |-> {}, commands |-> <<Command("a"), Command("b")>>,
   metrics |-> NoMetrics, regression |-> Nothing]
NoDefaults == [settings |-> Nothing, env |-> Nothing, metrics |-> NoMetrics, regression |-> Nothing]
Suite(benchmark) ==
  [defaults |-> NoDefaults, build |-> {}, versions |-> <<>>, outputs |-> <<>>, benchmarks |-> <<benchmark>>]

(* One path, in each place that takes one; with or without a build.        *)
AtPath(p) ==
  LET cwd == "cwd" :> p IN
  {[Suite(Plain) EXCEPT !.defaults.settings = cwd, !.build = {Exec}],
   [Suite(Plain) EXCEPT !.build = {[Exec EXCEPT !.cwd = {p}]}]}
  \cup {Suite(b) : b \in
    {[Plain EXCEPT !.settings = cwd], [Plain EXCEPT !.commands[2].settings = cwd],
     [Plain EXCEPT !.hooks.setup = <<[Exec EXCEPT !.cwd = {p}]>>],
     [Plain EXCEPT !.stdin = {[kind |-> "file", file |-> p]}],
     [Plain EXCEPT !.metrics.work = {[value |-> FALSE, file |-> {p}, unit |-> {}]}]}}

(* One text, likewise, in a suite of two benchmarks.                       *)
AtText(text) ==
  LET env == "V" :> text
      exec == [Exec EXCEPT !.argv = <<<<>>, text>>]
      Two(b) == [Suite(b) EXCEPT !.benchmarks = <<[Plain EXCEPT !.name = "two"], b>>]
      inside == {Two(b) : b \in
        {[Plain EXCEPT !.env = env], [Plain EXCEPT !.commands[1].argv = <<text>>],
         [Plain EXCEPT !.commands[2].env = env], [Plain EXCEPT !.hooks.prepare_each = <<exec>>],
         [Plain EXCEPT !.hooks.cleanup = <<[Exec EXCEPT !.env = env]>>],
         [Plain EXCEPT !.stdin = {[kind |-> "content", content |-> text]}]}}
        \cup {[Two(Plain) EXCEPT !.defaults.env = env], [Two(Plain) EXCEPT !.versions = <<<<>>, text>>]}
  IN  inside \cup {[s EXCEPT !.build = {Exec}] : s \in inside} \cup {[Two(Plain) EXCEPT !.build = {exec}]}

(* A setting, a variable and a tolerance, written at any of their levels.  *)
Maybe(key, value) == {Nothing, key :> value}
Levels ==
  {[Suite([Plain EXCEPT !.commands[1].settings = c, !.settings = b @@ r, !.commands[1].env = ce,
                        !.env = be, !.regression = t @@ u, !.metrics.cpu = cpu])
      EXCEPT !.defaults.settings = d, !.defaults.env = de, !.defaults.regression = dt] :
     c \in Maybe("timeout", 1), b \in Maybe("timeout", 2), d \in Maybe("timeout", 3) \cup Maybe("runs", 5),
     r \in Maybe("min_runs", 101),
     ce \in Maybe("V", <<"env">>), be \in Maybe("V", <<"root">>), de \in Maybe("V", <<"exe">>),
     t \in Maybe(<<"cpu_total", "gate">>, FALSE), u \in Maybe(<<"all", "commands">>, {"b"}),
     dt \in Maybe(<<"cpu_total", "max_percent">>, 20) \cup Maybe(<<"latency", "min_difference">>, Oversized),
     cpu \in {{}, {TRUE}}}

(* Each setting at each of its levels, and hooks under all of theirs.      *)
Inside(name) == Path(<<>>, FALSE, <<name>>)
Example(k, i) ==
  CASE k = "timeout" -> i [] k \in {"stdout", "stderr"} -> <<"log", "discard", "log">>[i]
    [] k = "exit_codes" -> {i}
Inherited ==
  {[Suite([Plain EXCEPT !.settings = b]) EXCEPT !.defaults.settings = d] :
     b \in UNION {Maybe(k, 20) : k \in BenchmarkSettings}, d \in UNION {Maybe(k, 30) : k \in BenchmarkSettings}}
  \cup UNION {{[Suite([Plain EXCEPT !.commands[2].settings = c, !.settings = b]) EXCEPT !.defaults.settings = d] :
     c \in Maybe(k, Example(k, 1)), b \in Maybe(k, Example(k, 2)), d \in Maybe(k, Example(k, 3))} : k \in CommandSettings \ {"cwd"}}
  \cup {[Suite([Plain EXCEPT !.hooks.cleanup = <<Exec, [Exec EXCEPT !.cwd = h, !.env = he]>>,
                            !.commands[1].settings = c, !.settings = b, !.env = be])
      EXCEPT !.defaults.settings = d, !.defaults.env = de] :
     h \in {{}, {Inside("x")}}, c \in Maybe("cwd", Inside("w")), b \in Maybe("cwd", Inside("y")),
     d \in Maybe("cwd", Inside("z")),
     he \in Maybe("V", <<"env">>), be \in Maybe("V", <<"root">>), de \in Maybe("V", <<"exe">>)}
  \cup {[Suite([Plain EXCEPT !.metrics = [NoMetrics EXCEPT !.memory = m, !.unsupported = u]])
      EXCEPT !.defaults.metrics = [NoMetrics EXCEPT !.memory = dm, !.unsupported = du]] :
     m \in {{}, {FALSE}, {TRUE}}, dm \in {{}, {FALSE}, {TRUE}}, u \in {{}, {"fail"}, {"skip"}}, du \in {{}, {"fail"}, {"skip"}}}

(* A budget and the metrics of the benchmark and of the defaults.          *)
Budget(m, op, limit, unit) ==
  [metric |-> m, aggregation |-> "p95", op |-> op, limit |-> limit, unit |-> unit]
Budgets ==
  {Budget("latency", "<", 1, ""), Budget("latency", ">", 1, ""), Budget("latency", "<=", 0, ""),
   Budget("cpu_utilization", ">", 1, ""), Budget("peak_rss", "<", 1, ""),
   Budget("throughput", ">", 1, "KiB"), Budget("throughput", ">=", 1, "records"),
   [Budget("latency", "<", 1, "") EXCEPT !.aggregation = "p100"]}
Works ==
  {{}} \cup {{[value |-> v, file |-> f, unit |-> u]} : v \in BOOLEAN,
               f \in {{}, {Path(<<"workdir">>, FALSE, <<"x">>)}}, u \in {{}, {"records"}, {"KiB"}, {"bytes"}}}
Budgeted ==
  {[Suite([Plain EXCEPT !.commands[2].budgets = {x}, !.metrics = [NoMetrics EXCEPT !.cpu = cpu, !.work = w]])
      EXCEPT !.defaults.metrics = [NoMetrics EXCEPT !.cpu = dcpu, !.memory = mem]] :
     x \in Budgets, cpu \in {{}, {FALSE}, {TRUE}}, w \in Works, dcpu \in {{}, {TRUE}}, mem \in {{}, {TRUE}}}

(* Terminals with a stderr; names; outputs.                                *)
Stderr == {Nothing} \cup {"stderr" :> s : s \in {"discard", "log"}}
Streams ==
  {[Suite([Plain EXCEPT !.terminal = TRUE, !.settings = b, !.commands[1].settings = x, !.commands[2].settings = y])
      EXCEPT !.defaults.settings = d] : b \in Stderr, x \in Stderr, y \in Stderr, d \in Stderr}
Output == [path : {"r"}, format : {"markdown", "json"}, section : {{}, {"s"}, {"t"}}]
Others ==
  {[Suite([Plain EXCEPT !.baseline = n]) EXCEPT !.outputs = o,
      !.benchmarks = <<[Plain EXCEPT !.name = m], @[1]>>] :
     n \in {{}, {"a"}, {"c"}}, m \in {"one", "two"}, o \in {<<x>> : x \in Output} \cup (Output \X Output)}

MCSuites ==
  UNION {AtPath(p) : p \in Paths} \cup UNION {AtText(t) : t \in Texts}
    \cup Levels \cup Inherited \cup Budgeted \cup Streams \cup Others
MCTop == <<"home", "repo">>
MCSuiteDir == <<"home", "repo", "bench">>
MCSides == <<"base", "head">>
=============================================================================
