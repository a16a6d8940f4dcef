---------------------------- MODULE ConfigProofs ----------------------------
(***************************************************************************)
(* Proofs about Config: the settings of an accepted suite fit each other,  *)
(* the most specific level decides a setting, whatever the run expands is  *)
(* available where it expands it and inside the project, and what is       *)
(* rejected as leaving the project does leave it.                          *)
(***************************************************************************)
EXTENDS Config, SequenceTheorems, WellFoundedInduction, TLAPS

-----------------------------------------------------------------------------
(* Settings.                                                               *)

(* A set of numbers that is not empty has a smallest one.                  *)
LEMMA SmallestNumber ==
  ASSUME NEW T \in SUBSET Nat, T # {}
  PROVE  \E m \in T : \A k \in T : m <= k
<1> DEFINE R == OpToRel(<, Nat)
<1>1. IsWellFoundedOn(R, Nat)
  BY NatLessThanWellFounded
<1>2. \A k, m \in Nat : k < m => <<k, m>> \in R
  BY DEF OpToRel
<1> HIDE DEF R
<1>3. PICK m \in T : \A k \in T : <<k, m>> \notin R
  BY <1>1, WFMin
<1>4. \A k \in T : m <= k
  <2> SUFFICES ASSUME NEW k \in T, ~(m <= k) PROVE FALSE
    OBVIOUS
  <2>1. k \in Nat /\ m \in Nat /\ k < m
    OBVIOUS
  <2> QED
    BY <1>2, <1>3, <2>1
<1> QED
  BY <1>4

(* What First takes is what the first level that writes the setting says.  *)
LEMMA FirstDecides ==
  ASSUME NEW levels, NEW n \in Nat, DOMAIN levels = 1..n
  PROVE  Decided(First(levels), levels)
<1> DEFINE W == Written(levels)
           smallest == {j \in W : \A k \in W : j <= k}
<1>1. W \in SUBSET Nat /\ \A i \in 1..n : i \in W <=> levels[i] # {}
  BY DEF Written
<1>2. First(levels) = UNION {levels[i] : i \in smallest}
  BY DEF First
<1> HIDE DEF W
<1>3. CASE W = {}
  BY <1>1, <1>2, <1>3 DEF Decided
<1>4. CASE W # {}
  <2>1. PICK m \in W : \A k \in W : m <= k
    BY <1>1, <1>4, SmallestNumber
  <2>2. \A k \in W : k \in Nat /\ m \in Nat
    BY <1>1
  <2>3. smallest = {m}
    BY <2>1, <2>2
  <2>4. First(levels) = levels[m]
    BY <1>2, <2>3
  <2>5. m \in 1..n /\ levels[m] # {}
    <3>1. m \in 1..n
      BY <2>1 DEF W, Written
    <3> QED
      BY <1>1, <2>1, <3>1
  <2>6. \A j \in 1..(m - 1) : levels[j] = {}
    <3> SUFFICES ASSUME NEW j \in 1..(m - 1), levels[j] # {} PROVE FALSE
      OBVIOUS
    <3>1. j \in 1..n /\ j < m
      BY <2>5
    <3>2. j \in W
      BY <1>1, <3>1
    <3> QED
      BY <2>1, <2>2, <3>1, <3>2
  <2> QED
    BY <2>4, <2>5, <2>6 DEF Decided
<1> QED
  BY <1>3, <1>4

(* The same for the three and the four levels that there are.              *)
LEMMA ThreeLevels == \A a, b, c : Decided(First(<<a, b, c>>), <<a, b, c>>)
<1> TAKE a, b, c
<1> DEFINE levels == <<a, b, c>>
<1>1. DOMAIN levels = 1..3
  OBVIOUS
<1> HIDE DEF levels
<1>2. Decided(First(levels), levels)
  BY <1>1, FirstDecides
<1> QED
  BY <1>2 DEF levels

(* ... and for four.                                                       *)
LEMMA FourLevels == \A a, b, c, d : Decided(First(<<a, b, c, d>>), <<a, b, c, d>>)
<1> TAKE a, b, c, d
<1> DEFINE levels == <<a, b, c, d>>
<1>1. DOMAIN levels = 1..4
  OBVIOUS
<1> HIDE DEF levels
<1>2. Decided(First(levels), levels)
  BY <1>1, FirstDecides
<1> QED
  BY <1>2 DEF levels

(* First of two levels, spelled out.                                       *)
LEMMA TwoLevels == \A a, b : First(<<a, b>>) = IF a = {} THEN b ELSE a
<1> TAKE a, b
<1> DEFINE levels == <<a, b>>
<1>1. DOMAIN levels = 1..2 /\ levels[1] = a /\ levels[2] = b
  OBVIOUS
<1> HIDE DEF levels
<1>2. Decided(First(levels), levels)
  BY <1>1, FirstDecides
<1>3. First(levels) = IF a = {} THEN b ELSE a
  BY <1>1, <1>2 DEF Decided
<1> QED
  BY <1>3 DEF levels

(* ... and four.                                                           *)
LEMMA FirstOfFour ==
  \A a, b, c, d :
    First(<<a, b, c, d>>) = IF a # {} THEN a ELSE IF b # {} THEN b ELSE IF c # {} THEN c ELSE d
<1> TAKE a, b, c, d
<1> DEFINE levels == <<a, b, c, d>>
<1>1. DOMAIN levels = 1..4 /\ levels[1] = a /\ levels[2] = b /\ levels[3] = c /\ levels[4] = d
  OBVIOUS
<1> HIDE DEF levels
<1>2. Decided(First(levels), levels)
  BY <1>1, FirstDecides
<1>3. First(levels) = IF a # {} THEN a ELSE IF b # {} THEN b ELSE IF c # {} THEN c ELSE d
  BY <1>1, <1>2 DEF Decided
<1> QED
  BY <1>3 DEF levels

(* What is decided among three levels, spelled out.                        *)
LEMMA DecidedBy ==
  ASSUME NEW a, NEW b, NEW c, NEW value,
         value = IF a # {} THEN a ELSE IF b # {} THEN b ELSE c
  PROVE  Decided(value, <<a, b, c>>)
<1>1. CASE a # {}
  BY <1>1 DEF Decided
<1>2. CASE a = {} /\ b # {}
  BY <1>2 DEF Decided
<1>3. CASE a = {} /\ b = {} /\ c # {}
  BY <1>3 DEF Decided
<1>4. CASE a = {} /\ b = {} /\ c = {}
  BY <1>4 DEF Decided
<1> QED
  BY <1>1, <1>2, <1>3, <1>4

(* What the levels decide was written at one of them.                      *)
LEMMA FromALevel ==
  ASSUME NEW a, NEW b, NEW c, NEW x \in First(<<a, b, c>>)
  PROVE  x \in a \/ x \in b \/ x \in c
<1>1. DOMAIN <<a, b, c>> = 1..3
  OBVIOUS
<1> QED
  BY <1>1 DEF First, Written

(* The same of four levels, the last of which is the standard one.         *)
LEMMA FromAnyLevel ==
  ASSUME NEW a, NEW b, NEW c, NEW d, NEW x \in First(<<a, b, c, d>>)
  PROVE  x \in a \/ x \in b \/ x \in c \/ x \in d
<1>1. DOMAIN <<a, b, c, d>> = 1..4
  OBVIOUS
<1> QED
  BY <1>1 DEF First, Written

(* A variable of the environment has the value of the most specific level  *)
(* that writes it (mergeEnv).                                              *)
LEMMA EnvDecides ==
  \A d, b, own :
    /\ DOMAIN EnvOf(d, b, own) = DOMAIN d.env \cup DOMAIN b.env \cup DOMAIN own.env
    /\ \A n \in DOMAIN d.env \cup DOMAIN b.env \cup DOMAIN own.env :
         EnvOf(d, b, own)[n] = IF n \in DOMAIN own.env THEN own.env[n]
                               ELSE IF n \in DOMAIN b.env THEN b.env[n] ELSE d.env[n]
BY DEF EnvOf, MergeEnv

-----------------------------------------------------------------------------
(* The invariant.                                                          *)

(* The suite of a run is the document, resolved, and had no issues.        *)
Accepted ==
  /\ raw \in Suites
  /\ \/ pc \in {"load", "rejected"} /\ suite = <<>>
     \/ suite = Resolve(raw) /\ Issues(raw) = {}

(* Until it is over, the run is at one of the benchmarks.                  *)
AtBenchmark == pc \notin {"done", "refused"} => at \in DOMAIN raw.benchmarks

(* What is prepared is a side of the run.                                  *)
SidesKnown == prepared \subseteq {"base", "head"}

(* What the run of a document may be refused for.                          *)
Tolerated(s) ==
  {why \in {"environment", "outside"} :
     why = "outside" => \E p \in PathsOf(s) : p.glued \/ OutAndBack(p)}
Excused(s, why) == why \subseteq Tolerated(s)
Tolerable == refused \subseteq Tolerated(raw)

IInv == Accepted /\ AtBenchmark /\ SidesKnown /\ Tolerable

(* A resolved suite has the benchmarks of its document.                    *)
LEMMA Resolved ==
  ASSUME NEW s, Schema(s)
  PROVE  /\ 1 \in DOMAIN s.benchmarks
         /\ DOMAIN s.benchmarks = 1..Len(s.benchmarks) /\ Len(s.benchmarks) \in Nat
         /\ Len(Resolve(s).benchmarks) = Len(s.benchmarks)
         /\ \A i \in DOMAIN s.benchmarks :
              Resolve(s).benchmarks[i] = ResolveBenchmark(s.benchmarks[i], s.defaults)
<1> DEFINE n == Len(s.benchmarks)
           f == [i \in 1..n |-> ResolveBenchmark(s.benchmarks[i], s.defaults)]
           S == {f[i] : i \in 1..n}
<1>1. s.benchmarks \in Seq(ToSet(s.benchmarks)) /\ s.benchmarks # <<>>
  BY DEF Schema
<1> HIDE DEF S
<1>2. n \in Nat /\ DOMAIN s.benchmarks = 1..n /\ 1 \in 1..n
  <2> DEFINE t == s.benchmarks  T == ToSet(t)
  <2> HIDE DEF t, T
  <2>1. t \in Seq(T) /\ t # <<>>
    BY <1>1 DEF t, T
  <2>2. Len(t) \in Nat /\ DOMAIN t = 1..Len(t) /\ Len(t) # 0
    BY <2>1, LenProperties, EmptySeq
  <2> QED
    BY <2>2 DEF t
<1> HIDE DEF n
<1>3. f \in [1..n -> S]
  BY DEF S
<1>4. Len(f) = n
  <2> HIDE DEF f
  <2> QED
    BY <1>2, <1>3, SeqDef, LenProperties
<1> QED
  BY <1>2, <1>4 DEF Resolve, n

-----------------------------------------------------------------------------
(* What follows from having no issues.                                     *)

(* The benchmarks of a document without issues have none.                  *)
LEMMA NoIssueInBenchmark ==
  ASSUME NEW s, Issues(s) = {}, NEW i \in DOMAIN s.benchmarks
  PROVE  CheckBenchmark(s.benchmarks[i], s.defaults, s.build # {}) = {}
BY DEF Issues

(* Every budget of a benchmark without issues can be judged, on a metric   *)
(* that it measures.                                                       *)
LEMMA BudgetsHold ==
  ASSUME NEW b, NEW d, NEW hasBuild, CheckBenchmark(b, d, hasBuild) = {},
         NEW i \in DOMAIN b.commands, NEW x \in b.commands[i].budgets
  PROVE  BudgetHolds(x, ResolveMetrics(d.metrics, b.metrics))
<1> DEFINE resolved == ResolveBenchmark(b, d)
<1>1. resolved.metrics = ResolveMetrics(d.metrics, b.metrics)
  BY DEF ResolveBenchmark
<1> HIDE DEF resolved
<1>2. \A j \in DOMAIN b.commands : \A y \in b.commands[j].budgets : BudgetHolds(y, resolved.metrics)
  BY DEF CheckBenchmark, resolved
<1> QED
  BY <1>1, <1>2

(* The names a benchmark without issues refers to are of its commands, and *)
(* its tolerances are of metrics it measures.                              *)
LEMMA ReferencesHold ==
  ASSUME NEW b, NEW d, NEW hasBuild, CheckBenchmark(b, d, hasBuild) = {}
  PROVE  /\ b.baseline \subseteq Names(b)
         /\ <<"all", "commands">> \in DOMAIN b.regression
              => b.regression[<<"all", "commands">>] \subseteq Names(b)
         /\ \A k \in DOMAIN b.regression :
              k[1] = "all" \/ Collects(ResolveMetrics(d.metrics, b.metrics), Group[k[1]])
<1> DEFINE resolved == ResolveBenchmark(b, d)
<1>1. resolved.metrics = ResolveMetrics(d.metrics, b.metrics)
  BY DEF ResolveBenchmark
<1> HIDE DEF resolved
<1>2. CheckTolerances(b.regression, resolved.metrics) = {}
  BY DEF CheckBenchmark, resolved
<1>3. \A k \in DOMAIN b.regression : k[1] = "all" \/ Collects(resolved.metrics, Group[k[1]])
  BY <1>2 DEF CheckTolerances
<1>4. b.baseline \subseteq Names(b)
  BY DEF CheckBenchmark
<1>5. <<"all", "commands">> \in DOMAIN b.regression
        => b.regression[<<"all", "commands">>] \subseteq Names(b)
  BY DEF CheckBenchmark
<1> QED
  BY <1>1, <1>3, <1>4, <1>5

(* The commands a comparison looks at are those the benchmark writes.      *)
LEMMA ComparedCommands ==
  ASSUME NEW b, NEW d, <<"all", "commands">> \notin DOMAIN d.regression
  PROVE  ResolveBenchmark(b, d).regression[<<"all", "commands">>] =
           IF <<"all", "commands">> \in DOMAIN b.regression
           THEN {b.regression[<<"all", "commands">>]} ELSE {{}}
<1> DEFINE k == <<"all", "commands">>
<1>1. k \in RegressionKeys /\ k[2] = "commands"
  BY DEF RegressionKeys
<1>2. DefaultRegression[k] = {{}}
  BY <1>1 DEF DefaultRegression
<1>3. ResolveBenchmark(b, d).regression =
        ApplyRegression(ApplyRegression(DefaultRegression, d.regression), b.regression)
  BY DEF ResolveBenchmark
<1> HIDE DEF k
<1>4. ApplyRegression(DefaultRegression, d.regression)[k] =
        IF k \in DOMAIN d.regression THEN {d.regression[k]} ELSE DefaultRegression[k]
  BY <1>1 DEF ApplyRegression
<1>5. ResolveBenchmark(b, d).regression[k] =
        IF k \in DOMAIN b.regression THEN {b.regression[k]}
        ELSE ApplyRegression(DefaultRegression, d.regression)[k]
  BY <1>1, <1>3 DEF ApplyRegression
<1> QED
  BY <1>2, <1>4, <1>5 DEF k

(* A budget on the throughput is in the unit of the work.                  *)
LEMMA UnitsFit ==
  ASSUME NEW x, NEW m, BudgetHolds(x, m), x.metric = "throughput"
  PROVE  \E w \in m.work : UnitFits(x.unit, w)
<1> DEFINE w == CHOOSE v \in m.work : TRUE
           units == First(<<w.unit, {"operations"}>>)
           u == CHOOSE v \in units : TRUE
<1>1. m.work # {} /\ InBytes(x.unit) = WorkUnit(w)
  BY DEF BudgetHolds, Collects, Group
<1>2. w \in m.work
  BY <1>1
<1>3. CASE w.file # {}
  <2>1. InBytes(x.unit) = "bytes"
    BY <1>1, <1>3 DEF WorkUnit
  <2>2. x.unit \in ByteUnits
    BY <2>1 DEF InBytes, ByteUnits
  <2> QED
    BY <1>2, <1>3, <2>2 DEF UnitFits
<1>4. CASE ~(w.file # {})
  <2>1. InBytes(x.unit) = InBytes(u)
    BY <1>1, <1>4 DEF WorkUnit
  <2> HIDE DEF w
  <2>2. units = IF w.unit = {} THEN {"operations"} ELSE w.unit
    BY TwoLevels
  <2>6. units # {}
    BY <2>2
  <2> HIDE DEF units
  <2>3. u \in units
    BY <2>6
  <2> HIDE DEF u
  <2>4. u = x.unit \/ {u, x.unit} \subseteq ByteUnits
    BY <2>1 DEF InBytes, ByteUnits
  <2>5. UnitFits(x.unit, w)
    BY <1>4, <2>2, <2>3, <2>4 DEF UnitFits
  <2> QED
    BY <1>2, <2>5
<1> QED
  BY <1>3, <1>4

(* On a terminal no command of a benchmark without issues keeps a stderr,  *)
(* except those that checkTerminalStderr does not look at.                 *)
LEMMA StderrFits ==
  ASSUME NEW b, NEW d, b.terminal, CheckTerminalStderr(b, d) = {},
         DOMAIN b.commands \subseteq Nat, NEW j \in DOMAIN b.commands
  PROVE  \/ ResolveCommand(b.commands[j], b, d).settings["stderr"] = {"discard"}
         \/ OverlookedStderr(b, j)
<1> DEFINE own == [i \in DOMAIN b.commands |-> Setting(b.commands[i].settings, "stderr")]
           Set(option) == option \ {"discard"} # {}
           bs == Setting(b.settings, "stderr")
           ds == Setting(d.settings, "stderr")
           all == First(<<bs, ds>>)
           inherits == {i \in DOMAIN own : own[i] = {}}
           stops == inherits # {} /\ ("stderr" \in DOMAIN b.settings \/ Set(all))
           value == ResolveCommand(b.commands[j], b, d).settings["stderr"]
<1>1. /\ ~(stops /\ Set(all))
      /\ \A i \in DOMAIN own : (stops => i < Min(inherits)) => ~Set(own[i])
  BY DEF CheckTerminalStderr
<1>2. value = First(<<own[j], bs, ds, Standard["stderr"]>>)
  BY DEF ResolveCommand, CommandSettings
<1>3. Standard["stderr"] = {"discard"}
  BY DEF Standard
<1>4. all = IF bs = {} THEN ds ELSE bs
  BY TwoLevels
<1>6. \A option \in {own[j], bs, ds} : option # {} /\ ~Set(option) => option = {"discard"}
  OBVIOUS
<1>7. "stderr" \in DOMAIN b.settings <=> bs # {}
  BY DEF Setting
<1>8. DOMAIN own = DOMAIN b.commands /\ \A i \in DOMAIN own : own[i] = Setting(b.commands[i].settings, "stderr")
  OBVIOUS
<1> HIDE DEF own, bs, ds, all, value
<1>5. value = IF own[j] # {} THEN own[j] ELSE IF bs # {} THEN bs ELSE IF ds # {} THEN ds ELSE {"discard"}
  <2>1. First(<<own[j], bs, ds, {"discard"}>>) =
          IF own[j] # {} THEN own[j] ELSE IF bs # {} THEN bs ELSE IF ds # {} THEN ds ELSE {"discard"}
    BY FirstOfFour
  <2> QED
    BY <1>2, <1>3, <2>1
<1>9. CASE own[j] = {}
  <2>1. inherits # {}
    BY <1>8, <1>9
  <2>2. CASE bs # {}
    BY <1>1, <1>4, <1>5, <1>6, <1>7, <1>9, <2>1, <2>2 DEF value
  <2>3. CASE bs = {}
    <3>1. ~Set(ds)
      BY <1>1, <1>4, <2>1, <2>3
    <3> QED
      BY <1>5, <1>6, <1>9, <2>3, <3>1 DEF value
  <2> QED
    BY <2>2, <2>3
<1>10. CASE own[j] # {}
  <2>1. CASE stops => j < Min(inherits)
    BY <1>1, <1>5, <1>6, <1>8, <1>10, <2>1 DEF value
  <2>2. CASE stops /\ ~(j < Min(inherits))
    <3>1. bs = {"discard"}
      BY <1>1, <1>4, <1>6, <1>7, <2>2
    <3>2. inherits \in SUBSET Nat /\ inherits # {}
      BY <1>8, <2>2
    <3> DEFINE k == Min(inherits)
    <3>3. k \in inherits
      <4>1. \E m \in inherits : \A i \in inherits : m <= i
        BY <3>2, SmallestNumber
      <4> QED
        BY <4>1 DEF Min
    <3>4. k \in DOMAIN b.commands /\ own[k] = {}
      BY <1>8, <3>3
    <3> HIDE DEF k
    <3>5. k < j
      <4>1. k # j
        BY <1>10, <3>4
      <4>2. k \in Nat /\ j \in Nat /\ ~(j < k)
        BY <2>2, <3>4 DEF k
      <4> QED
        BY <4>1, <4>2
    <3>6. OverlookedStderr(b, j)
      BY <1>8, <3>1, <3>4, <3>5 DEF OverlookedStderr, bs
    <3> QED
      BY <3>6
  <2> QED
    BY <2>1, <2>2
<1> QED
  BY <1>9, <1>10

(* The settings of an accepted benchmark fit each other.                   *)
LEMMA AcceptedFits ==
  ASSUME Accepted
  PROVE  SettingsFit
<1> SUFFICES ASSUME suite # <<>>, NEW i \in DOMAIN raw.benchmarks
             PROVE  LET b == raw.benchmarks[i]
                        r == suite.benchmarks[i]
                        Measured(m) == \/ m = "latency"
                                       \/ Group[m] = "throughput" /\ b.metrics.work # {}
                                       \/ Group[m] = "cpu" /\ r.metrics.cpu = {TRUE}
                                       \/ Group[m] = "memory" /\ r.metrics.memory = {TRUE}
                    IN  /\ \A c \in ToSet(b.commands) : \A x \in c.budgets :
                             /\ <<c.name, x>> \in r.budgets /\ Measured(x.metric)
                             /\ x.metric = "throughput" => \E w \in b.metrics.work : UnitFits(x.unit, w)
                        /\ \A k \in DOMAIN b.regression : k[1] \in Compared => Measured(k[1])
                        /\ b.baseline \cup UNION r.regression[<<"all", "commands">>] \subseteq Names(b)
                        /\ b.terminal =>
                             \A j \in DOMAIN b.commands :
                               r.commands[j].settings["stderr"] = {"discard"} \/ OverlookedStderr(b, j)
  BY DEF SettingsFit
<1> DEFINE b == raw.benchmarks[i]
           d == raw.defaults
           m == ResolveMetrics(d.metrics, b.metrics)
<1>1. Schema(raw) /\ Issues(raw) = {} /\ suite = Resolve(raw)
  BY SuitesAssumption DEF Accepted
<1>2. suite.benchmarks[i] = ResolveBenchmark(b, d)
  BY <1>1, Resolved
<1>3. CheckBenchmark(b, d, raw.build # {}) = {}
  BY <1>1, NoIssueInBenchmark
<1>4. <<"all", "commands">> \notin DOMAIN d.regression
  BY <1>1 DEF Schema
<1>5. \A c \in ToSet(b.commands) : \A x \in c.budgets : x.metric \in DOMAIN Group
  BY <1>1 DEF Schema
<1>6. m.work = b.metrics.work
  BY DEF ResolveMetrics
<1>7. suite.benchmarks[i].metrics = m
  BY <1>2 DEF ResolveBenchmark
<1>8. \A name \in DOMAIN Group : Collects(m, Group[name]) =>
        \/ name = "latency"
        \/ Group[name] = "throughput" /\ b.metrics.work # {}
        \/ Group[name] = "cpu" /\ m.cpu = {TRUE}
        \/ Group[name] = "memory" /\ m.memory = {TRUE}
  <2> HIDE DEF b, m, d
  <2>1. \A name \in DOMAIN Group :
          /\ Group[name] \in {"latency", "throughput", "cpu", "memory"}
          /\ Group[name] = "latency" => name = "latency"
    BY DEF Group
  <2>2. /\ Collects(m, "throughput") => b.metrics.work # {}
        /\ Collects(m, "cpu") => m.cpu = {TRUE}
        /\ Collects(m, "memory") => m.memory = {TRUE}
    BY <1>6 DEF Collects
  <2> QED
    BY <2>1, <2>2
<1>9. \A j \in DOMAIN b.commands : \A x \in b.commands[j].budgets : BudgetHolds(x, m)
  BY <1>3, BudgetsHold
<1>10. ASSUME NEW c \in ToSet(b.commands), NEW x \in c.budgets
       PROVE  /\ <<c.name, x>> \in suite.benchmarks[i].budgets /\ Collects(m, Group[x.metric])
              /\ x.metric = "throughput" => \E w \in b.metrics.work : UnitFits(x.unit, w)
  <2>1. PICK j \in DOMAIN b.commands : c = b.commands[j]
    BY DEF ToSet
  <2>2. BudgetHolds(x, m)
    BY <2>1, <1>9
  <2>3. suite.benchmarks[i].budgets =
          UNION {{<<b.commands[k].name, y>> : y \in {z \in b.commands[k].budgets : BudgetHolds(z, m)}} :
                   k \in DOMAIN b.commands}
    BY <1>2 DEF ResolveBenchmark
  <2>4. <<c.name, x>> \in {<<b.commands[j].name, y>> : y \in {z \in b.commands[j].budgets : BudgetHolds(z, m)}}
    BY <2>1, <2>2
  <2>5. Collects(m, Group[x.metric])
    BY <2>2 DEF BudgetHolds
  <2> HIDE DEF b, m
  <2>6. x.metric = "throughput" => \E w \in b.metrics.work : UnitFits(x.unit, w)
    BY <1>6, <2>2, UnitsFit
  <2> QED
    BY <2>1, <2>3, <2>4, <2>5, <2>6
<1>11. /\ b.baseline \subseteq Names(b)
       /\ <<"all", "commands">> \in DOMAIN b.regression
            => b.regression[<<"all", "commands">>] \subseteq Names(b)
       /\ \A k \in DOMAIN b.regression : k[1] = "all" \/ Collects(m, Group[k[1]])
  BY <1>3, ReferencesHold
<1>12. UNION suite.benchmarks[i].regression[<<"all", "commands">>] \subseteq Names(b)
  <2> HIDE DEF b, d, m
  <2>1. suite.benchmarks[i].regression[<<"all", "commands">>] =
          IF <<"all", "commands">> \in DOMAIN b.regression
          THEN {b.regression[<<"all", "commands">>]} ELSE {{}}
    BY <1>2, <1>4, ComparedCommands
  <2> DEFINE k == <<"all", "commands">>
  <2> HIDE DEF k
  <2>2. suite.benchmarks[i].regression[k] = IF k \in DOMAIN b.regression THEN {b.regression[k]} ELSE {{}}
    BY <2>1 DEF k
  <2>3. k \in DOMAIN b.regression => b.regression[k] \subseteq Names(b)
    BY <1>11 DEF k
  <2> QED
    BY <2>2, <2>3 DEF k
<1>16. ASSUME b.terminal, NEW j \in DOMAIN b.commands
       PROVE  \/ suite.benchmarks[i].commands[j].settings["stderr"] = {"discard"}
              \/ OverlookedStderr(b, j)
  <2>1. CheckTerminalStderr(b, d) = {}
    BY <1>3, <1>16 DEF CheckBenchmark
  <2>2. DOMAIN b.commands \subseteq Nat
    <3>1. b.commands \in Seq(ToSet(b.commands))
      BY <1>1 DEF Schema
    <3> DEFINE t == b.commands  T == ToSet(t)
    <3> HIDE DEF t, T
    <3>2. t \in Seq(T)
      BY <3>1 DEF t, T
    <3>3. DOMAIN t = 1..Len(t) /\ Len(t) \in Nat
      BY <3>2, LenProperties
    <3> QED
      BY <3>3 DEF t
  <2>3. suite.benchmarks[i].commands[j] = ResolveCommand(b.commands[j], b, d)
    BY <1>2 DEF ResolveBenchmark
  <2> HIDE DEF b, d
  <2> QED
    BY <1>16, <2>1, <2>2, <2>3, StderrFits
<1>13. \A k \in Compared : k \in DOMAIN Group /\ k # "all"
  BY DEF Compared, Group
<1> HIDE DEF b, m, d
<1>14. \A c \in ToSet(b.commands) : \A x \in c.budgets :
         /\ <<c.name, x>> \in suite.benchmarks[i].budgets
         /\ x.metric = "throughput" => \E w \in b.metrics.work : UnitFits(x.unit, w)
         /\ \/ x.metric = "latency"
            \/ Group[x.metric] = "throughput" /\ b.metrics.work # {}
            \/ Group[x.metric] = "cpu" /\ m.cpu = {TRUE}
            \/ Group[x.metric] = "memory" /\ m.memory = {TRUE}
  BY <1>5, <1>8, <1>10
<1>15. \A k \in DOMAIN b.regression : k[1] \in Compared =>
         \/ k[1] = "latency"
         \/ Group[k[1]] = "throughput" /\ b.metrics.work # {}
         \/ Group[k[1]] = "cpu" /\ m.cpu = {TRUE}
         \/ Group[k[1]] = "memory" /\ m.memory = {TRUE}
  BY <1>8, <1>11, <1>13
<1> QED
  BY <1>7, <1>11, <1>12, <1>14, <1>15, <1>16 DEF b

(* A variable of an environment is that of the most specific level that    *)
(* writes it, and no variable is lost or made up.                          *)
LEMMA EnvIsDecided ==
  ASSUME NEW d, NEW b, NEW own
  PROVE  EnvDecided(EnvOf(d, b, own), own.env, b, d)
<1> DEFINE env == EnvOf(d, b, own)
<1>1. DOMAIN env = DOMAIN d.env \cup DOMAIN b.env \cup DOMAIN own.env
  BY DEF EnvOf, MergeEnv
<1>3. \A n \in DOMAIN d.env \cup DOMAIN b.env \cup DOMAIN own.env :
        env[n] = IF n \in DOMAIN own.env THEN own.env[n]
                 ELSE IF n \in DOMAIN b.env THEN b.env[n] ELSE d.env[n]
  BY DEF EnvOf, MergeEnv
<1> HIDE DEF env
<1>2. ASSUME NEW n \in DOMAIN env
      PROVE  Decided({env[n]}, <<Setting(own.env, n), Setting(b.env, n), Setting(d.env, n)>>)
  <2>1. {env[n]} = IF Setting(own.env, n) # {} THEN Setting(own.env, n)
                   ELSE IF Setting(b.env, n) # {} THEN Setting(b.env, n) ELSE Setting(d.env, n)
    BY <1>1, <1>3 DEF Setting
  <2> QED
    BY <2>1, DecidedBy
<1> QED
  BY <1>1, <1>2 DEF EnvDecided, env

(* A tolerance is that of the most specific level (applyRegression).       *)
LEMMA ToleranceDecides ==
  ASSUME NEW b, NEW d, NEW k \in RegressionKeys
  PROVE  Decided(ResolveBenchmark(b, d).regression[k],
                 <<Setting(b.regression, k), Setting(d.regression, k), DefaultRegression[k]>>)
<1> DEFINE value == ResolveBenchmark(b, d).regression[k]
<1>1. value = IF Setting(b.regression, k) # {} THEN Setting(b.regression, k)
              ELSE IF Setting(d.regression, k) # {} THEN Setting(d.regression, k)
              ELSE DefaultRegression[k]
  BY DEF ResolveBenchmark, ApplyRegression, Setting
<1> HIDE DEF value
<1>2. Decided(value, <<Setting(b.regression, k), Setting(d.regression, k), DefaultRegression[k]>>)
  BY <1>1, DecidedBy
<1> QED
  BY <1>2 DEF value

(* The most specific level that writes a setting of an accepted suite      *)
(* decides it.                                                             *)
LEMMA AcceptedIsSpecific ==
  ASSUME Accepted
  PROVE  MostSpecificWins
<1> SUFFICES ASSUME suite # <<>>, NEW i \in DOMAIN raw.benchmarks
             PROVE  LET b == raw.benchmarks[i]
                        d == raw.defaults
                        r == suite.benchmarks[i]
                        At(level, k) == Setting(level.settings, k)
                    IN  /\ \A k \in BenchmarkSettings :
                             Decided(r.settings[k], <<At(b, k), At(d, k), Standard[k]>>)
                        /\ \A j \in DOMAIN b.commands :
                             LET c == b.commands[j] IN
                             /\ \A k \in CommandSettings :
                                  Decided(r.commands[j].settings[k], <<At(c, k), At(b, k), At(d, k), Standard[k]>>)
                             /\ EnvDecided(r.commands[j].env, c.env, b, d)
                        /\ \A stage \in DOMAIN b.hooks : \A j \in DOMAIN b.hooks[stage] :
                             LET h == b.hooks[stage][j] IN
                             /\ Decided(r.hooks[stage][j].cwd, <<h.cwd, At(b, "cwd"), At(d, "cwd")>>)
                             /\ EnvDecided(r.hooks[stage][j].env, h.env, b, d)
                        /\ Decided(r.metrics.cpu, <<b.metrics.cpu, d.metrics.cpu, {FALSE}>>)
                        /\ Decided(r.metrics.memory, <<b.metrics.memory, d.metrics.memory, {FALSE}>>)
                        /\ Decided(r.metrics.unsupported, <<b.metrics.unsupported, d.metrics.unsupported, {"fail"}>>)
                        /\ \A k \in RegressionKeys :
                             Decided(r.regression[k],
                                     <<Setting(b.regression, k), Setting(d.regression, k), DefaultRegression[k]>>)
  BY DEF MostSpecificWins
<1> DEFINE b == raw.benchmarks[i]
           d == raw.defaults
           r == suite.benchmarks[i]
<1>1. r = ResolveBenchmark(b, d)
  BY SuitesAssumption, Resolved DEF Accepted
<1> HIDE DEF b, d, r
<1>2. ASSUME NEW k \in BenchmarkSettings
      PROVE  Decided(r.settings[k], <<Setting(b.settings, k), Setting(d.settings, k), Standard[k]>>)
  <2>1. r.settings[k] = First(<<Setting(b.settings, k), Setting(d.settings, k), Standard[k]>>)
    BY <1>1 DEF ResolveBenchmark
  <2> QED
    BY <2>1, ThreeLevels
<1>3. ASSUME NEW j \in DOMAIN b.commands
      PROVE  /\ \A k \in CommandSettings :
                  Decided(r.commands[j].settings[k],
                          <<Setting(b.commands[j].settings, k), Setting(b.settings, k), Setting(d.settings, k), Standard[k]>>)
             /\ EnvDecided(r.commands[j].env, b.commands[j].env, b, d)
  <2> DEFINE c == b.commands[j]
  <2>1. r.commands[j] = ResolveCommand(c, b, d)
    BY <1>1 DEF ResolveBenchmark
  <2> HIDE DEF c
  <2>2. r.commands[j].env = EnvOf(d, b, c)
    BY <2>1 DEF ResolveCommand
  <2>3. ASSUME NEW k \in CommandSettings
        PROVE  Decided(r.commands[j].settings[k],
                       <<Setting(c.settings, k), Setting(b.settings, k), Setting(d.settings, k), Standard[k]>>)
    <3>1. r.commands[j].settings[k] =
            First(<<Setting(c.settings, k), Setting(b.settings, k), Setting(d.settings, k), Standard[k]>>)
      BY <2>1 DEF ResolveCommand
    <3> QED
      BY <3>1, FourLevels
  <2> QED
    BY <2>2, <2>3, EnvIsDecided DEF c
<1>4. ASSUME NEW stage \in DOMAIN b.hooks, NEW j \in DOMAIN b.hooks[stage]
      PROVE  /\ Decided(r.hooks[stage][j].cwd,
                         <<b.hooks[stage][j].cwd, Setting(b.settings, "cwd"), Setting(d.settings, "cwd")>>)
             /\ EnvDecided(r.hooks[stage][j].env, b.hooks[stage][j].env, b, d)
  <2> DEFINE h == b.hooks[stage][j]
  <2>1. r.hooks[stage][j] = ResolveHook(h, b, d)
    BY <1>1 DEF ResolveBenchmark
  <2> HIDE DEF h
  <2>2. /\ r.hooks[stage][j].env = EnvOf(d, b, h)
        /\ r.hooks[stage][j].cwd = First(<<h.cwd, Setting(b.settings, "cwd"), Setting(d.settings, "cwd")>>)
    BY <2>1 DEF ResolveHook
  <2> QED
    BY <2>2, EnvIsDecided, ThreeLevels DEF h
<1>5. /\ Decided(r.metrics.cpu, <<b.metrics.cpu, d.metrics.cpu, {FALSE}>>)
      /\ Decided(r.metrics.memory, <<b.metrics.memory, d.metrics.memory, {FALSE}>>)
      /\ Decided(r.metrics.unsupported, <<b.metrics.unsupported, d.metrics.unsupported, {"fail"}>>)
  <2>1. /\ r.metrics.cpu = First(<<b.metrics.cpu, d.metrics.cpu, {FALSE}>>)
        /\ r.metrics.memory = First(<<b.metrics.memory, d.metrics.memory, {FALSE}>>)
        /\ r.metrics.unsupported = First(<<b.metrics.unsupported, d.metrics.unsupported, {"fail"}>>)
    BY <1>1 DEF ResolveBenchmark, ResolveMetrics
  <2> QED
    BY <2>1, ThreeLevels
<1>6. \A k \in RegressionKeys :
        Decided(r.regression[k], <<Setting(b.regression, k), Setting(d.regression, k), DefaultRegression[k]>>)
  BY <1>1, ToleranceDecides
<1> QED
  BY <1>2, <1>3, <1>4, <1>5, <1>6 DEF b, d, r

-----------------------------------------------------------------------------
(* The directories a path goes through.                                    *)

(* The steps that compute a value of S from the one before, N times.       *)
Steps(S, N) == [S \X (1..N) -> S]

(* What is computed step by step, from a base, is a function.              *)
LEMMA StepByStep ==
  ASSUME NEW S, NEW base \in S, NEW N \in Nat, NEW step \in Steps(S, N)
  PROVE  \E f \in [0..N -> S] :
           f[0] = base /\ \A n \in 1..N : f[n] = step[<<f[n - 1], n>>]
<1> DEFINE Computes(f, m) ==
             /\ f \in [0..m -> S] /\ f[0] = base
             /\ \A n \in 1..m : f[n] = step[<<f[n - 1], n>>]
           T == {m \in 0..N : ~\E f : Computes(f, m)}
<1>0. step \in [S \X (1..N) -> S]
  BY DEF Steps
<1>1. T = {}
  <2> SUFFICES ASSUME T # {} PROVE FALSE
    OBVIOUS
  <2>1. PICK m \in T : \A k \in T : m <= k
    <3>1. T \in SUBSET Nat
      OBVIOUS
    <3> HIDE DEF T
    <3> QED
      BY <3>1, SmallestNumber
  <2>2. m # 0
    <3> DEFINE f == [n \in 0..0 |-> base]
    <3>1. Computes(f, 0)
      OBVIOUS
    <3> QED
      BY <3>1
  <2>3. m - 1 \in 0..N /\ m - 1 \notin T /\ m \in 1..N
    <3>1. m \in 0..N
      OBVIOUS
    <3> HIDE DEF T
    <3>2. m - 1 \in 0..N /\ m \in 1..N /\ ~(m <= m - 1)
      BY <2>2, <3>1
    <3> QED
      BY <2>1, <3>2
  <2>4. PICK f : Computes(f, m - 1)
    BY <2>3
  <2> DEFINE g == [n \in 0..m |-> IF n = m THEN step[<<f[m - 1], m>>] ELSE f[n]]
  <2>5. f[m - 1] \in S /\ step[<<f[m - 1], m>>] \in S
    BY <1>0, <2>3, <2>4
  <2>6. g \in [0..m -> S] /\ g[0] = base
    BY <2>2, <2>3, <2>4, <2>5
  <2>7. ASSUME NEW n \in 1..m PROVE g[n] = step[<<g[n - 1], n>>]
    <3>1. CASE n = m
      <4>1. m \in 0..m /\ m - 1 \in 0..m /\ m - 1 # m
        BY <2>3
      <4>2. g[m] = step[<<f[m - 1], m>>] /\ g[m - 1] = f[m - 1]
        BY <4>1
      <4> HIDE DEF g
      <4> QED
        BY <3>1, <4>2
    <3>2. CASE n # m
      <4>1. n \in 1..(m - 1) /\ n - 1 \in 0..m /\ n - 1 # m /\ n \in 0..m
        BY <3>2, <2>3
      <4> QED
        BY <4>1, <2>4, <3>2
    <3> QED
      BY <3>1, <3>2
  <2>8. Computes(g, m)
    BY <2>6, <2>7
  <2> QED
    BY <2>1, <2>8
<1>2. PICK f : Computes(f, N)
  <2>1. N \in 0..N /\ N \notin T
    BY <1>1
  <2> HIDE DEF Computes
  <2> QED
    BY <2>1
<1> QED
  BY <1>2

(* The names of directories; the provers do not know that these are among  *)
(* the strings.                                                            *)
Segments == STRING \cup {"tmp", "git", "tree", "base", "head", "workdir"}
Path == Seq(Segments)

(* Entering a segment gives a path.                                        *)
LEMMA EnterIs ==
  ASSUME NEW path \in Path, NEW segment \in Segments
  PROVE  Enter(path, segment) \in Path
<1>1. Append(path, segment) \in Path
  BY AppendProperties DEF Path
<1>0. <<>> \in Path
  BY EmptySeq DEF Path
<1>2. path # <<>> => Front(path) \in Path
  BY DEF Front, Path
<1> QED
  BY <1>0, <1>1, <1>2 DEF Enter

(* The directories a path goes through, one segment after the other.       *)
LEMMA WaySteps ==
  ASSUME NEW dir \in Path, NEW segments \in Path
  PROVE  /\ Way(dir, segments) \in [0..Len(segments) -> Path]
         /\ Way(dir, segments)[0] = dir
         /\ \A n \in 1..Len(segments) :
              Way(dir, segments)[n] = Enter(Way(dir, segments)[n - 1], segments[n])
<1> DEFINE N == Len(segments)
           step == [x \in Path \X (1..N) |-> Enter(x[1], segments[x[2]])]
           Is(w) == w = [n \in 0..N |-> IF n = 0 THEN dir ELSE Enter(w[n - 1], segments[n])]
<1>0. N \in Nat /\ segments \in [1..N -> Segments]
  BY DEF Path
<1> HIDE DEF N
<1>1. step \in [Path \X (1..N) -> Path]
  <2> SUFFICES ASSUME NEW x \in Path \X (1..N) PROVE Enter(x[1], segments[x[2]]) \in Path
    OBVIOUS
  <2> QED
    BY <1>0, EnterIs
<1>2. PICK f \in [0..N -> Path] : f[0] = dir /\ \A n \in 1..N : f[n] = step[<<f[n - 1], n>>]
  <2>1. step \in Steps(Path, N)
    BY <1>1 DEF Steps
  <2> HIDE DEF step
  <2> QED
    BY <1>0, <2>1, StepByStep
<1>3. \A n \in 1..N : f[n] = Enter(f[n - 1], segments[n])
  <2> SUFFICES ASSUME NEW n \in 1..N PROVE f[n] = Enter(f[n - 1], segments[n])
    OBVIOUS
  <2>1. n - 1 \in 0..N
    BY <1>0
  <2>2. f[n - 1] \in Path
    BY <2>1
  <2>3. step[<<f[n - 1], n>>] = Enter(f[n - 1], segments[n])
    BY <2>2
  <2> QED
    BY <1>2, <2>3
<1> HIDE DEF step
<1>4. Is(f)
  <2>1. \A n \in 0..N : f[n] = IF n = 0 THEN dir ELSE Enter(f[n - 1], segments[n])
    <3> SUFFICES ASSUME NEW n \in 0..N
                 PROVE  f[n] = IF n = 0 THEN dir ELSE Enter(f[n - 1], segments[n])
      OBVIOUS
    <3>1. CASE n = 0
      BY <1>2, <3>1
    <3>2. CASE n \in 1..N
      BY <1>3, <3>2
    <3> QED
      BY <1>0, <3>1, <3>2
  <2> QED
    BY <2>1
<1> DEFINE w == CHOOSE g : Is(g)
<1>5. Is(w)
  <2> HIDE DEF Is
  <2> QED
    BY <1>4
<1>6. Way(dir, segments) = w
  BY DEF Way, N
<1> HIDE DEF w
<1>7. /\ w[0] = dir /\ \A n \in 1..N : w[n] = Enter(w[n - 1], segments[n])
      /\ w = [n \in 0..N |-> w[n]]
  <2>1. 0 \in 0..N /\ \A n \in 1..N : n \in 0..N /\ n # 0
    BY <1>0
  <2>2. w[0] = dir
    BY <1>5, <2>1
  <2>3. ASSUME NEW n \in 1..N PROVE w[n] = Enter(w[n - 1], segments[n])
    BY <1>5, <2>1
  <2>4. DOMAIN w = 0..N
    BY <1>5
  <2>5. w = [n \in 0..N |-> w[n]]
    BY <1>5, <2>4
  <2> QED
    BY <2>2, <2>3, <2>5
<1> HIDE DEF Is
<1> DEFINE T == {n \in 0..N : w[n] \notin Path}
<1>8. T = {}
  <2> SUFFICES ASSUME T # {} PROVE FALSE
    OBVIOUS
  <2>1. PICK m \in T : \A k \in T : m <= k
    <3>1. T \in SUBSET Nat
      OBVIOUS
    <3> HIDE DEF T
    <3> QED
      BY <3>1, SmallestNumber
  <2>2. m \in 1..N /\ m - 1 \in 0..N
    <3>1. m \in 0..N /\ m # 0
      BY <1>7
    <3> HIDE DEF T
    <3> QED
      BY <1>0, <3>1
  <2>3. w[m - 1] \in Path
    BY <2>1, <2>2
  <2>4. w[m] = Enter(w[m - 1], segments[m]) /\ segments[m] \in Segments
    BY <1>0, <1>7, <2>2
  <2>5. w[m] \in Path
    BY <2>3, <2>4, EnterIs
  <2> QED
    BY <2>5
<1>9. \A n \in 0..N : w[n] \in Path
  BY <1>8
<1> HIDE DEF T
<1>10. w \in [0..N -> Path]
  BY <1>7, <1>9
<1> QED
  BY <1>6, <1>7, <1>10 DEF N

(* What holds of the first directory and of every next one when of the one *)
(* before holds of all of them, here of two ways at once.                  *)
LEMMA AllAlong ==
  ASSUME NEW Holds, NEW N \in Nat, 0 \in Holds,
         \A n \in 1..N : n - 1 \in Holds => n \in Holds
  PROVE  \A n \in 0..N : n \in Holds
<1> DEFINE T == {n \in 0..N : n \notin Holds}
<1>1. T = {}
  <2> SUFFICES ASSUME T # {} PROVE FALSE
    OBVIOUS
  <2>1. PICK m \in T : \A k \in T : m <= k
    <3>1. T \in SUBSET Nat
      OBVIOUS
    <3> HIDE DEF T
    <3> QED
      BY <3>1, SmallestNumber
  <2>2. m \in 1..N /\ m - 1 \in 0..N
    OBVIOUS
  <2>3. m - 1 \in Holds
    BY <2>1, <2>2
  <2> QED
    BY <2>1, <2>2, <2>3
<1> QED
  BY <1>1

(* Within, element by element.                                             *)
LEMMA WithinIs ==
  ASSUME NEW root \in Path, NEW path \in Path
  PROVE  Within(root, path) <=>
           Len(root) <= Len(path) /\ \A i \in 1..Len(root) : path[i] = root[i]
<1> USE DEF Path
<1>1. ASSUME Len(root) <= Len(path)
      PROVE  SubSeq(root, 1, Len(root)) = SubSeq(path, 1, Len(root))
               <=> \A i \in 1..Len(root) : path[i] = root[i]
  <2> DEFINE r == SubSeq(root, 1, Len(root))
             q == SubSeq(path, 1, Len(root))
  <2>1. /\ r \in Seq(Segments) /\ Len(r) = Len(root) /\ \A i \in 1..Len(root) : r[i] = root[i]
        /\ q \in Seq(Segments) /\ Len(q) = Len(root) /\ \A i \in 1..Len(root) : q[i] = path[i]
    BY <1>1, SubSeqProperties
  <2> HIDE DEF r, q
  <2>2. (\A i \in 1..Len(root) : path[i] = root[i]) => r = q
    BY <2>1, SeqEqual
  <2>3. r = q => \A i \in 1..Len(root) : path[i] = root[i]
    BY <2>1
  <2> QED
    BY <2>2, <2>3 DEF r, q
<1> QED
  BY <1>1 DEF Within, IsPrefix

(* What the schema and the constants say of segments makes them paths.     *)
LEMMA ArePaths ==
  ASSUME NEW s \in Seq(STRING)
  PROVE  s \in Path
BY DEF Path, Segments

(* The directory around one.                                               *)
LEMMA FrontIs ==
  ASSUME NEW path \in Path, path # <<>>
  PROVE  /\ Len(path) >= 1 /\ Len(Front(path)) = Len(path) - 1
         /\ \A i \in 1..(Len(path) - 1) : Front(path)[i] = path[i]
<1> DEFINE m == 1
           n == Len(path) - 1
<1>1. Len(path) \in Nat /\ Len(path) >= 1
  BY EmptySeq DEF Path
<1>2. m \in Int /\ n \in Int /\ \A i \in m..n : path[i] \in Segments
  BY <1>1 DEF Path
<1>3. Front(path) = SubSeq(path, m, n)
  BY DEF Front
<1> HIDE DEF m, n
<1>4. /\ Len(SubSeq(path, m, n)) = IF m <= n THEN n - m + 1 ELSE 0
      /\ \A i \in 1..(n - m + 1) : SubSeq(path, m, n)[i] = path[m + i - 1]
  BY <1>2, SubSeqProperties
<1>5. m = 1 /\ n = Len(path) - 1
  BY DEF m, n
<1>6. Len(Front(path)) = Len(path) - 1
  BY <1>1, <1>3, <1>4, <1>5
<1>7. ASSUME NEW i \in 1..(Len(path) - 1) PROVE Front(path)[i] = path[i]
  <2>1. i \in 1..(n - m + 1) /\ m + i - 1 = i
    BY <1>1, <1>5
  <2> QED
    BY <1>3, <1>4, <2>1
<1> QED
  BY <1>1, <1>6, <1>7

(* Within a root: what enters a directory stays there, and what leaves one *)
(* that is not the root itself.                                            *)
LEMMA EnterStays ==
  ASSUME NEW root \in Path, NEW path \in Path, NEW segment \in Segments, Within(root, path),
         segment # ".." \/ Len(root) < Len(path)
  PROVE  Within(root, Enter(path, segment))
<1>1. Len(root) <= Len(path) /\ \A i \in 1..Len(root) : path[i] = root[i]
  BY WithinIs
<1>2. Enter(path, segment) \in Path /\ Len(root) \in Nat /\ Len(path) \in Nat
  BY EnterIs DEF Path
<1>3. CASE segment # ".."
  <2>1. Enter(path, segment) = Append(path, segment)
    BY <1>3 DEF Enter
  <2>2. /\ Len(Append(path, segment)) = Len(path) + 1
        /\ \A i \in 1..Len(path) : Append(path, segment)[i] = path[i]
    BY AppendProperties DEF Path
  <2>3. Len(root) <= Len(path) + 1 /\ \A i \in 1..Len(root) : i \in 1..Len(path)
    BY <1>1, <1>2
  <2> QED
    BY <1>1, <1>2, <2>1, <2>2, <2>3, WithinIs
<1>4. CASE segment = ".." /\ Len(root) < Len(path)
  <2>1. path # <<>>
    BY <1>2, <1>4 DEF Path
  <2>2. /\ Enter(path, segment) = Front(path) /\ Len(Front(path)) = Len(path) - 1
        /\ \A i \in 1..(Len(path) - 1) : Front(path)[i] = path[i]
    BY <1>4, <2>1, FrontIs DEF Enter
  <2>3. Len(root) <= Len(path) - 1 /\ \A i \in 1..Len(root) : i \in 1..(Len(path) - 1)
    BY <1>2, <1>4
  <2> QED
    BY <1>1, <1>2, <2>1, <2>2, <2>3, WithinIs
<1> QED
  BY <1>3, <1>4

(* A path without .. goes only deeper.                                     *)
LEMMA Deeper ==
  ASSUME NEW root \in Path, NEW dir \in Path, NEW segments \in Path, Within(root, dir),
         ".." \notin ToSet(segments)
  PROVE  \A n \in 0..Len(segments) : Within(root, Way(dir, segments)[n])
<1> DEFINE N == Len(segments)
           w == Way(dir, segments)
           Holds == {n \in 0..N : Within(root, w[n])}
<1>1. /\ N \in Nat /\ w \in [0..N -> Path] /\ w[0] = dir
      /\ \A n \in 1..N : w[n] = Enter(w[n - 1], segments[n]) /\ segments[n] \in Segments /\ segments[n] # ".."
  BY WaySteps DEF Path, ToSet
<1> HIDE DEF N, w
<1>2. 0 \in Holds
  BY <1>1
<1>3. ASSUME NEW n \in 1..N, n - 1 \in Holds PROVE n \in Holds
  <2>1. n \in 0..N /\ n - 1 \in 0..N /\ w[n - 1] \in Path /\ Within(root, w[n - 1])
    BY <1>1, <1>3
  <2>2. Within(root, w[n])
    BY <1>1, <2>1, EnterStays
  <2> QED
    BY <2>1, <2>2
<1> HIDE DEF Holds
<1>4. \A n \in 0..N : n \in Holds
  BY <1>1, <1>2, <1>3, AllAlong
<1> QED
  BY <1>4 DEF Holds, N, w

(* Two directories, of the project and of the base worktree, at the same   *)
(* depth.                                                                  *)
Mirrors(path, other) ==
  /\ Within(Top, path) /\ Within(Worktree, other)
  /\ Len(other) - Len(Worktree) = Len(path) - Len(Top)

(* The directories that are given, and the worktree's.                     *)
LEMMA Constants ==
  /\ SuiteDir \in Path /\ Top \in Path /\ Within(Top, SuiteDir) /\ Len(Top) >= 1
  /\ Worktree \in Path /\ Len(Worktree) = 3
<1>1. /\ SuiteDir \in Path /\ Top \in Path /\ Within(Top, SuiteDir) /\ Top # <<>>
  <2>1. SuiteDir \in Seq(STRING) /\ Top \in Seq(STRING) /\ IsPrefix(Top, SuiteDir) /\ Top # <<>>
    BY ConfigAssumption
  <2> QED
    BY <2>1, ArePaths DEF Within
<1>2. Len(Top) >= 1
  BY <1>1, EmptySeq DEF Path
<1>3. Worktree \in Path /\ Len(Worktree) = 3
  BY DEF Worktree, Path, Segments
<1> QED
  BY <1>1, <1>2, <1>3

(* The suite's directory in the base worktree is where its own is in the   *)
(* project.                                                                *)
LEMMA BaseRoot ==
  ASSUME NEW side, side # "head"
  PROVE  Root(side) \in Path /\ Mirrors(SuiteDir, Root(side))
<1> DEFINE rest == SubSeq(SuiteDir, Len(Top) + 1, Len(SuiteDir))
<1>1. /\ SuiteDir \in Path /\ Top \in Path /\ Within(Top, SuiteDir) /\ Len(Top) <= Len(SuiteDir)
      /\ Len(Top) \in Nat /\ Len(SuiteDir) \in Nat
  BY Constants, WithinIs DEF Path
<1>2. Worktree \in Path /\ Len(Worktree) = 3
  BY Constants
<1>3. rest \in Seq(Segments) /\ Len(rest) = Len(SuiteDir) - Len(Top)
  <2>1. \A i \in (Len(Top) + 1)..Len(SuiteDir) : SuiteDir[i] \in Segments
    BY <1>1 DEF Path
  <2>2. Len(Top) + 1 \in Int /\ Len(SuiteDir) \in Int
    BY <1>1
  <2>3. rest \in Seq(Segments)
    BY <2>1, <2>2, SubSeqProperties
  <2>4. Len(rest) = IF Len(Top) + 1 <= Len(SuiteDir) THEN Len(SuiteDir) - (Len(Top) + 1) + 1 ELSE 0
    BY <2>1, <2>2, SubSeqProperties
  <2> QED
    BY <1>1, <2>3, <2>4
<1>4. Root(side) = Worktree \o rest
  BY DEF Root
<1> HIDE DEF rest
<1>5. /\ Worktree \o rest \in Seq(Segments) /\ Len(Worktree \o rest) = 3 + Len(rest)
      /\ \A i \in 1..3 : (Worktree \o rest)[i] = Worktree[i]
  <2>1. Worktree \in Seq(Segments) /\ rest \in Seq(Segments)
    BY <1>2, <1>3 DEF Path
  <2>2. /\ Worktree \o rest \in Seq(Segments)
        /\ Len(Worktree \o rest) = Len(Worktree) + Len(rest)
        /\ \A i \in 1..(Len(Worktree) + Len(rest)) :
             (Worktree \o rest)[i] = IF i <= Len(Worktree) THEN Worktree[i] ELSE rest[i - Len(Worktree)]
    BY <2>1, ConcatProperties
  <2>3. Len(rest) \in Nat
    BY <2>1
  <2> QED
    BY <1>2, <2>2, <2>3
<1>6. Within(Worktree, Worktree \o rest)
  <2>1. 3 <= Len(Worktree \o rest)
    BY <1>1, <1>3, <1>5
  <2>2. Worktree \o rest \in Path
    BY <1>5 DEF Path
  <2> QED
    BY <1>2, <1>5, <2>1, <2>2, WithinIs
<1> QED
  BY <1>1, <1>2, <1>3, <1>4, <1>5, <1>6 DEF Mirrors, Path

(* One more segment, as long as the project is not left.                   *)
LEMMA EnterMirrors ==
  ASSUME NEW path \in Path, NEW other \in Path, Mirrors(path, other), NEW segment \in Segments,
         Within(Top, Enter(path, segment))
  PROVE  Mirrors(Enter(path, segment), Enter(other, segment))
<1>1. /\ Top \in Path /\ Worktree \in Path /\ Len(Worktree) = 3 /\ Len(Top) \in Nat /\ Len(Top) >= 1
      /\ Len(path) \in Nat /\ Len(other) \in Nat
  BY Constants DEF Path
<1>2. /\ Within(Top, path) /\ Within(Worktree, other) /\ Len(other) - 3 = Len(path) - Len(Top)
      /\ Len(Top) <= Len(path)
  BY <1>1, WithinIs DEF Mirrors
<1>3. CASE segment # ".."
  <2>1. /\ Enter(path, segment) = Append(path, segment)
        /\ Enter(other, segment) = Append(other, segment)
    BY <1>3 DEF Enter
  <2>2. Len(Append(path, segment)) = Len(path) + 1 /\ Len(Append(other, segment)) = Len(other) + 1
    BY AppendProperties DEF Path
  <2>3. Within(Worktree, Enter(other, segment))
    BY <1>1, <1>2, <1>3, EnterStays
  <2> QED
    BY <1>1, <1>2, <2>1, <2>2, <2>3 DEF Mirrors
<1>4. CASE segment = ".."
  <2>1. path # <<>> /\ other # <<>> /\ Len(path) >= 1 /\ Len(other) >= 1
    BY <1>1, <1>2 DEF Path
  <2>2. Enter(path, segment) = Front(path) /\ Enter(other, segment) = Front(other)
    BY <1>4, <2>1 DEF Enter
  <2>3. Len(Front(path)) = Len(path) - 1 /\ Front(path) \in Path
    BY <2>1, <2>2, FrontIs, EnterIs
  <2>4. Len(Front(other)) = Len(other) - 1
    BY <2>1, FrontIs
  <2>5. Len(Top) <= Len(path) - 1
    BY <1>1, <2>2, <2>3, WithinIs
  <2>6. Within(Worktree, Enter(other, segment))
    <3>1. Len(Worktree) < Len(other)
      BY <1>1, <1>2, <2>5
    <3> QED
      BY <1>1, <1>2, <3>1, EnterStays
  <2> QED
    BY <1>1, <1>2, <2>2, <2>3, <2>4, <2>6 DEF Mirrors
<1> QED
  BY <1>3, <1>4

(* So a path that never leaves the project on its way is inside the base   *)
(* worktree when it starts from the suite's directory there.               *)
LEMMA SameWay ==
  ASSUME NEW side, side # "head", NEW segments \in Path,
         \A n \in 0..Len(segments) : Within(Top, Way(SuiteDir, segments)[n])
  PROVE  Within(Worktree, Join(Root(side), segments))
<1> DEFINE N == Len(segments)
           w == Way(SuiteDir, segments)
           o == Way(Root(side), segments)
           Holds == {n \in 0..N : Mirrors(w[n], o[n])}
<1>1. SuiteDir \in Path /\ Root(side) \in Path /\ Mirrors(SuiteDir, Root(side))
  BY Constants, BaseRoot
<1>2. /\ w \in [0..N -> Path] /\ w[0] = SuiteDir
      /\ \A n \in 1..N : w[n] = Enter(w[n - 1], segments[n])
  BY <1>1, WaySteps
<1>3. /\ o \in [0..N -> Path] /\ o[0] = Root(side)
      /\ \A n \in 1..N : o[n] = Enter(o[n - 1], segments[n])
  BY <1>1, WaySteps
<1>4. N \in Nat /\ (\A n \in 1..N : segments[n] \in Segments) /\ \A n \in 0..N : Within(Top, w[n])
  BY DEF Path
<1>5. Join(Root(side), segments) = o[N]
  BY DEF Join
<1> HIDE DEF N, w, o
<1>6. 0 \in Holds
  BY <1>1, <1>2, <1>3, <1>4
<1>7. ASSUME NEW n \in 1..N, n - 1 \in Holds PROVE n \in Holds
  <2>1. n \in 0..N /\ n - 1 \in 0..N /\ Mirrors(w[n - 1], o[n - 1])
    BY <1>4, <1>7
  <2>2. w[n - 1] \in Path /\ o[n - 1] \in Path
    BY <1>2, <1>3, <2>1
  <2>3. Within(Top, Enter(w[n - 1], segments[n]))
    BY <1>2, <1>4, <2>1
  <2>4. Mirrors(Enter(w[n - 1], segments[n]), Enter(o[n - 1], segments[n]))
    BY <1>4, <2>1, <2>2, <2>3, EnterMirrors
  <2> QED
    BY <1>2, <1>3, <2>1, <2>4
<1> HIDE DEF Holds
<1>8. N \in Holds
  <2>1. \A n \in 0..N : n \in Holds
    BY <1>4, <1>6, <1>7, AllAlong
  <2> QED
    BY <1>4, <2>1
<1> QED
  BY <1>5, <1>8 DEF Holds, Mirrors

(* The variable that starts a path the validator passes.                   *)
LEMMA StartOf ==
  ASSUME NEW allowWorkdir \in BOOLEAN, NEW p, p.refs \in Seq(STRING), ~Misused(p, allowWorkdir)
  PROVE  \/ p.refs = <<>>
         \/ p.refs = <<p.refs[1]>> /\ p.refs[1] \in PathVariables
              /\ (p.refs[1] = "workdir" => allowWorkdir)
<1>1. \A i \in DOMAIN p.refs :
        i <= 1 /\ p.refs[i] \in PathVariables /\ (p.refs[i] = "workdir" => allowWorkdir)
  BY DEF Misused
<1>2. DOMAIN p.refs = 1..Len(p.refs) /\ Len(p.refs) \in Nat
  OBVIOUS
<1>3. Len(p.refs) <= 1
  BY <1>1, <1>2
<1> DEFINE refs == p.refs
<1>4. Len(refs) = 0 => refs = <<>>
  <2>1. refs \in Seq(STRING)
    OBVIOUS
  <2> HIDE DEF refs
  <2> QED
    BY <2>1, EmptySeq
<1>5. Len(refs) = 1 => refs = <<refs[1]>> /\ 1 \in DOMAIN refs
  <2>1. refs \in Seq(STRING)
    OBVIOUS
  <2> HIDE DEF refs
  <2> QED
    BY <2>1
<1>6. Len(refs) = 0 \/ Len(refs) = 1
  <2> DEFINE n == Len(refs)
  <2>1. n \in Nat /\ n <= 1
    BY <1>2, <1>3
  <2> HIDE DEF n
  <2>2. n = 0 \/ n = 1
    BY <2>1
  <2> QED
    BY <2>2 DEF n
<1> QED
  BY <1>1, <1>4, <1>5, <1>6

(* What the schema says of a path.                                         *)
LEMMA PathIs ==
  ASSUME NEW s, Schema(s), NEW p \in PathsOf(s)
  PROVE  /\ p.refs \in Seq(STRING) /\ (p.glued => p.refs # <<>>)
         /\ p.segments \in Path /\ "tmp" \notin ToSet(p.segments)
         /\ ~p.glued => Rel(p) = p.segments
<1>1. /\ p.refs \in Seq(STRING) /\ (p.glued => p.refs # <<>>)
      /\ p.segments \in Seq(STRING) /\ "tmp" \notin ToSet(p.segments)
  <2>1. \A q \in PathsOf(s) :
          /\ q.refs \in Seq(STRING) /\ (q.glued => q.refs # <<>>)
          /\ q.segments \in Seq(STRING) /\ "tmp" \notin ToSet(q.segments)
    BY DEF Schema
  <2> QED
    BY <2>1
<1>2. <<>> \o p.segments = p.segments
  BY <1>1, ConcatEmptySeq
<1> QED
  BY <1>1, <1>2, ArePaths DEF Rel

(* A path the validator passes stays in the project all along.             *)
LEMMA PassedStays ==
  ASSUME NEW allowWorkdir \in BOOLEAN, NEW s, Schema(s), NEW p \in PathsOf(s),
         CheckPath(p, allowWorkdir) = {}, ~p.glued, ~OutAndBack(p)
  PROVE  /\ \A n \in 0..Len(p.segments) : Within(Top, Way(SuiteDir, p.segments)[n])
         /\ p.refs = <<"workdir">> => ".." \notin ToSet(p.segments)
<1>1. p.segments \in Path /\ Rel(p) = p.segments
  BY PathIs
<1>2. SuiteDir \in Path /\ Top \in Path /\ Within(Top, SuiteDir)
  BY Constants
<1>3. CASE HasDotDot(p)
  <2>1. p.refs # <<"workdir">> /\ ~LeavesProject(p)
    BY <1>3 DEF CheckPath
  <2>2. Within(Top, Way(SuiteDir, p.segments)[Len(p.segments)])
    BY <1>1, <2>1 DEF LeavesProject, Join
  <2>3. \A n \in DOMAIN Way(SuiteDir, p.segments) : Within(Top, Way(SuiteDir, p.segments)[n])
    BY <2>2 DEF OutAndBack
  <2>4. DOMAIN Way(SuiteDir, p.segments) = 0..Len(p.segments)
    BY <1>1, <1>2, WaySteps
  <2> QED
    BY <2>1, <2>3, <2>4
<1>4. CASE ~HasDotDot(p)
  <2>1. ".." \notin ToSet(p.segments)
    BY <1>4 DEF HasDotDot
  <2> QED
    BY <1>1, <1>2, <2>1, Deeper
<1> QED
  BY <1>3, <1>4

(* It resolves to a directory of its side.                                 *)
LEMMA PassedInside ==
  ASSUME NEW allowWorkdir \in BOOLEAN, NEW s, Schema(s), NEW p \in PathsOf(s),
         CheckPath(p, allowWorkdir) = {}, ~p.glued, ~OutAndBack(p),
         NEW v, v.side \in {"base", "head"}, allowWorkdir => "workdir" \in v.available
  PROVE  "outside" \notin ExpandPath(p, v)
<1>1. /\ p.refs \in Seq(STRING) /\ p.segments \in Path
      /\ \A n \in 0..Len(p.segments) : Within(Top, Way(SuiteDir, p.segments)[n])
      /\ p.refs = <<"workdir">> => ".." \notin ToSet(p.segments)
  BY PathIs, PassedStays
<1>2. \/ p.refs = <<>>
      \/ p.refs = <<p.refs[1]>> /\ p.refs[1] \in PathVariables
           /\ (p.refs[1] = "workdir" => allowWorkdir)
  <2>1. ~Misused(p, allowWorkdir)
    BY DEF CheckPath
  <2> QED
    BY <1>1, <2>1, StartOf
<1>3. Len(p.segments) \in 0..Len(p.segments)
  BY <1>1 DEF Path
<1>4. Within(Top, Join(SuiteDir, p.segments))
  BY <1>1, <1>3 DEF Join
<1>5. \E r \in {Top, ProjectRoot(v.side)} : Within(r, Join(Root(v.side), p.segments))
  <2>1. CASE v.side = "head"
    BY <1>4, <2>1 DEF Root
  <2>2. CASE v.side # "head"
    BY <1>1, <2>2, SameWay DEF ProjectRoot
  <2> QED
    BY <2>1, <2>2
<1>6. \E r \in Roots(v) : Within(r, PathFrom(p, v))
  <2>1. CASE p.refs = <<>>
    BY <1>5, <2>1 DEF PathFrom, Roots
  <2>2. CASE p.refs # <<>> /\ p.refs[1] = "root"
    BY <1>5, <2>2 DEF PathFrom, Roots, Directory
  <2>3. CASE p.refs # <<>> /\ p.refs[1] = "head_root"
    BY <1>4, <2>3 DEF PathFrom, Roots, Directory
  <2>4. CASE p.refs # <<>> /\ p.refs[1] = "workdir"
    <3> DEFINE dir == WorkdirOf(v.side)
    <3>1. ".." \notin ToSet(p.segments) /\ dir \in Roots(v)
      BY <1>1, <1>2, <2>4 DEF Roots
    <3>2. dir \in Path
      <4>1. v.side \in Segments
        BY DEF Segments
      <4> QED
        BY <4>1 DEF WorkdirOf, Path, Segments
    <3>3. PathFrom(p, v) = Join(dir, p.segments)
      BY <2>4 DEF PathFrom, Directory
    <3> HIDE DEF dir
    <3>4. Within(dir, dir)
      BY <3>2, WithinIs DEF Path
    <3>5. \A n \in 0..Len(p.segments) : Within(dir, Way(dir, p.segments)[n])
      BY <1>1, <3>1, <3>2, <3>4, Deeper
    <3> QED
      BY <1>3, <3>1, <3>3, <3>5 DEF Join
  <2> QED
    BY <1>2, <2>1, <2>2, <2>3, <2>4 DEF PathVariables
<1> QED
  BY <1>6 DEF ExpandPath, ExpandText

(* A name that is neither in a directory nor in a path that is joined to   *)
(* it is not in what they are joined to.                                   *)
LEMMA NameAbsent ==
  ASSUME NEW name, NEW dir \in Path, NEW segments \in Path,
         name \notin ToSet(dir), name \notin ToSet(segments)
  PROVE  Join(dir, segments) \in Path /\ name \notin ToSet(Join(dir, segments))
<1> DEFINE N == Len(segments)
           w == Way(dir, segments)
           Holds == {n \in 0..N : name \notin ToSet(w[n])}
<1>1. /\ w \in [0..N -> Path] /\ w[0] = dir
      /\ \A n \in 1..N : w[n] = Enter(w[n - 1], segments[n])
  BY WaySteps
<1>2. N \in Nat /\ \A n \in 1..N : segments[n] \in Segments /\ segments[n] # name
  BY DEF Path, ToSet
<1>3. Join(dir, segments) = w[N]
  BY DEF Join
<1> HIDE DEF N, w
<1>4. 0 \in Holds
  BY <1>1, <1>2
<1>5. ASSUME NEW n \in 1..N, n - 1 \in Holds PROVE n \in Holds
  <2> DEFINE path == w[n - 1]
  <2>1. n \in 0..N /\ path \in Path /\ w[n] = Enter(path, segments[n]) /\ name \notin ToSet(path)
    BY <1>1, <1>2, <1>5
  <2>2. segments[n] \in Segments /\ segments[n] # name
    BY <1>2
  <2> HIDE DEF path
  <2>3. Len(path) \in Nat /\ \A i \in 1..Len(path) : path[i] # name
    BY <2>1 DEF ToSet, Path
  <2>4. name \notin ToSet(Append(path, segments[n]))
    <3>1. /\ Append(path, segments[n]) \in Path /\ Len(Append(path, segments[n])) = Len(path) + 1
          /\ \A i \in 1..Len(path) : Append(path, segments[n])[i] = path[i]
          /\ Append(path, segments[n])[Len(path) + 1] = segments[n]
      BY <2>1, <2>2, AppendProperties DEF Path
    <3>2. \A i \in 1..(Len(path) + 1) : i \in 1..Len(path) \/ i = Len(path) + 1
      BY <2>3
    <3>3. DOMAIN Append(path, segments[n]) = 1..(Len(path) + 1)
      BY <3>1 DEF Path
    <3> QED
      BY <2>2, <2>3, <3>1, <3>2, <3>3 DEF ToSet
  <2>5. path # <<>> => name \notin ToSet(Front(path))
    <3> SUFFICES ASSUME path # <<>> PROVE name \notin ToSet(Front(path))
      OBVIOUS
    <3>1. Front(path) = Enter(path, "..")
      BY DEF Enter
    <3>2. /\ Len(Front(path)) = Len(path) - 1
          /\ \A i \in 1..(Len(path) - 1) : Front(path)[i] = path[i]
      BY <2>1, FrontIs
    <3>3. Front(path) = SubSeq(path, 1, Len(path) - 1)
      BY DEF Front
    <3>4. DOMAIN Front(path) = 1..(Len(path) - 1)
      BY <2>1, <2>3, <3>2, <3>3 DEF Path
    <3> QED
      BY <2>3, <3>2, <3>4 DEF ToSet
  <2>6. name \notin ToSet(<<>>)
    BY DEF ToSet
  <2> QED
    BY <2>1, <2>4, <2>5, <2>6 DEF Enter
<1> HIDE DEF Holds
<1>6. N \in Holds
  <2>1. \A n \in 0..N : n \in Holds
    BY <1>2, <1>4, <1>5, AllAlong
  <2> QED
    BY <1>2, <2>1
<1> QED
  BY <1>1, <1>2, <1>3, <1>6 DEF Holds

(* A path that leaves the project is refused in the user's own tree.       *)
LEMMA LeavingRefused ==
  ASSUME NEW s, Schema(s), NEW p \in PathsOf(s), ~p.glued, CheckPath(p, TRUE) = {"outside"}
  PROVE  ExpandPath(p, Vars("head", {"workdir"})) = {"outside"}
<1> DEFINE v == Vars("head", {"workdir"})
           at_ == Join(SuiteDir, p.segments)
<1>1. /\ p.refs \in Seq(STRING) /\ p.segments \in Path /\ "tmp" \notin ToSet(p.segments)
      /\ Rel(p) = p.segments
  BY PathIs
<1>2. /\ ToSet(p.refs) \cap Malformed = {} /\ ~Misused(p, TRUE)
      /\ HasDotDot(p) /\ p.refs # <<"workdir">> /\ LeavesProject(p)
  BY DEF CheckPath
<1>3. p.refs = <<>> \/ p.refs = <<"root">> \/ p.refs = <<"head_root">>
  <2>1. \/ p.refs = <<>>
        \/ p.refs = <<p.refs[1]>> /\ p.refs[1] \in PathVariables
             /\ (p.refs[1] = "workdir" => TRUE)
    BY <1>1, <1>2, StartOf
  <2> QED
    BY <1>2, <2>1 DEF PathVariables
<1>4. v.side = "head" /\ {"root", "head_root", "workdir"} \subseteq v.available
  BY DEF Vars
<1> HIDE DEF v
<1>5. PathFrom(p, v) = at_
  <2>1. Root("head") = SuiteDir
    BY DEF Root
  <2> QED
    BY <1>3, <1>4, <2>1 DEF PathFrom, Directory
<1>6. ExpandText(p.refs, v) = {}
  <2>1. ToSet(p.refs) \subseteq {"root", "head_root"}
    BY <1>3 DEF ToSet
  <2> QED
    BY <1>2, <1>4, <2>1 DEF ExpandText
<1>7. /\ SuiteDir \in Path /\ Top \in Path /\ Within(Top, SuiteDir) /\ "tmp" \notin ToSet(SuiteDir)
  BY Constants, ConfigAssumption
<1>8. at_ \in Path /\ "tmp" \notin ToSet(at_)
  BY <1>1, <1>7, NameAbsent
<1>9. ~Within(Top, at_)
  BY <1>1, <1>2 DEF LeavesProject
<1> HIDE DEF at_
<1>10. ~Within(SuiteDir, at_)
  BY <1>7, <1>8, <1>9, WithinIs DEF Path
<1>11. ~Within(WorkdirOf("head"), at_)
  <2>1. WorkdirOf("head") \in Path /\ Len(WorkdirOf("head")) = 3 /\ WorkdirOf("head")[1] = "tmp"
    BY DEF WorkdirOf, Path, Segments
  <2> SUFFICES ASSUME Within(WorkdirOf("head"), at_) PROVE FALSE
    OBVIOUS
  <2>2. 3 <= Len(at_) /\ at_[1] = "tmp"
    BY <1>8, <2>1, WithinIs
  <2> QED
    BY <1>8, <2>2 DEF ToSet, Path
<1>12. Roots(v) \subseteq {Top, SuiteDir, WorkdirOf("head")}
  BY <1>4 DEF Roots, Root, ProjectRoot
<1> QED
  BY <1>5, <1>6, <1>9, <1>10, <1>11, <1>12 DEF ExpandPath, v

-----------------------------------------------------------------------------
(* What the run expands is available.                                      *)

(* The variables v gives where the validator read a text or a path.        *)
Fits(v, scope, hasBuild) ==
  /\ v.side \in {"base", "head"} /\ {"root", "head_root", "exe", "env"} \subseteq v.available
  /\ scope = "build" => "artifact" \in v.available
  /\ scope = "benchmark" => /\ "workdir" \in v.available
                            /\ hasBuild => "artifact" \in v.available

Good(text, scope, hasBuild) ==
  ToSet(text) \subseteq References /\ CheckText(text, scope, hasBuild) = {}

Expands(text, v) == ExpandText(text, v) \subseteq {"environment"}

(* A text the validator passes has only variables that are available.      *)
LEMMA TextAvailable ==
  ASSUME NEW scope \in {"benchmark", "build", "versions"}, NEW hasBuild \in BOOLEAN,
         NEW text, Good(text, scope, hasBuild), NEW v, Fits(v, scope, hasBuild)
  PROVE  Expands(text, v)
<1> DEFINE refs == ToSet(text)
           unavailable ==
             CASE scope = "benchmark" -> IF hasBuild THEN {} ELSE {"artifact"}
               [] scope = "build" -> {"workdir"}
               [] scope = "versions" -> {"artifact", "workdir"}
<1>1. refs \subseteq References /\ refs \cap Malformed = {} /\ refs \cap unavailable = {}
  BY DEF Good, CheckText
<1> HIDE DEF refs
<1>2. \A r \in refs : r \in {"root", "head_root", "workdir", "artifact", "exe", "env", "unset"}
  BY <1>1 DEF References, PathVariables
<1>3. refs \ (v.available \cup {"unset"}) = {}
  <2> SUFFICES ASSUME NEW r \in refs, r # "unset" PROVE r \in v.available
    OBVIOUS
  <2>1. CASE r \in {"root", "head_root", "exe", "env"}
    BY <2>1 DEF Fits
  <2>2. CASE r = "workdir"
    BY <2>2, <1>1 DEF Fits
  <2>3. CASE r = "artifact"
    BY <2>3, <1>1 DEF Fits
  <2> QED
    BY <1>2, <2>1, <2>2, <2>3
<1> QED
  BY <1>1, <1>3 DEF Expands, ExpandText, refs

Sees(v) == v.side \in {"base", "head"} /\ {"root", "head_root"} \subseteq v.available

(* A path the validator passes likewise, and it is inside.                 *)
LEMMA PathAvailable ==
  ASSUME NEW s, Schema(s), NEW p \in PathsOf(s), NEW v,
         Sees(v), CheckPath(p, FALSE) = {} \/ (CheckPath(p, TRUE) = {} /\ "workdir" \in v.available)
  PROVE  Excused(s, ExpandPath(p, v))
<1> SUFFICES ASSUME NEW allowWorkdir \in BOOLEAN, CheckPath(p, allowWorkdir) = {},
                    allowWorkdir => "workdir" \in v.available
             PROVE  Excused(s, ExpandPath(p, v))
  OBVIOUS
<1>0. v.side \in {"base", "head"} /\ {"root", "head_root"} \subseteq v.available
  BY DEF Sees
<1> DEFINE refs == ToSet(p.refs)
<1>1. refs \cap Malformed = {} /\ ~Misused(p, allowWorkdir)
  BY DEF CheckPath
<1>2. \A i \in DOMAIN p.refs : p.refs[i] \in PathVariables /\ (p.refs[i] = "workdir" => allowWorkdir)
  BY <1>1 DEF Misused
<1>3. \A r \in refs : r \in v.available
  BY <1>0, <1>2 DEF PathVariables, ToSet
<1> HIDE DEF refs
<1>4. "variable" \notin ExpandText(p.refs, v)
  BY <1>1, <1>3 DEF ExpandText, refs
<1>5. ExpandText(p.refs, v) \subseteq {"variable", "environment"}
  BY DEF ExpandText
<1>6. ExpandPath(p, v) \subseteq {"environment", "outside"}
  BY <1>4, <1>5 DEF ExpandPath
<1>7. p.glued \/ OutAndBack(p) \/ "outside" \notin ExpandPath(p, v)
  BY <1>0, PassedInside
<1> QED
  BY <1>6, <1>7 DEF Tolerated, Excused

(* An environment variable that is not set is no fault of the validator.   *)
LEMMA EnvironmentTolerated ==
  ASSUME NEW s
  PROVE  "environment" \in Tolerated(s)
BY DEF Tolerated

(* What a command is started with.                                         *)
LEMMA ExecAvailable ==
  ASSUME NEW s, NEW e, NEW cwd, NEW v,
         \A i \in DOMAIN e.argv : Expands(e.argv[i], v),
         \A n \in DOMAIN e.env : Expands(e.env[n], v),
         \A p \in cwd : Excused(s, ExpandPath(p, v))
  PROVE  Excused(s, RefusedExec(e, cwd, v))
<1>1. "environment" \in Tolerated(s)
  BY EnvironmentTolerated
<1>2. /\ \A n \in DOMAIN e.env : ExpandText(e.env[n], v) \subseteq Tolerated(s)
      /\ \A i \in DOMAIN e.argv : ExpandText(e.argv[i], v) \subseteq Tolerated(s)
  BY <1>1 DEF Expands
<1> QED
  BY <1>2 DEF RefusedExec, Excused

(* The merged environment is available when each level of it is.           *)
LEMMA EnvAvailable ==
  ASSUME NEW d, NEW b, NEW own, NEW v,
         \A n \in DOMAIN d.env : Expands(d.env[n], v),
         \A n \in DOMAIN b.env : Expands(b.env[n], v),
         \A n \in DOMAIN own.env : Expands(own.env[n], v)
  PROVE  \A n \in DOMAIN EnvOf(d, b, own) : Expands(EnvOf(d, b, own)[n], v)
<1> SUFFICES ASSUME NEW n \in DOMAIN EnvOf(d, b, own)
             PROVE  Expands(EnvOf(d, b, own)[n], v)
  OBVIOUS
<1>1. n \in DOMAIN d.env \cup DOMAIN b.env \cup DOMAIN own.env
  <2>1. DOMAIN EnvOf(d, b, own) = DOMAIN d.env \cup DOMAIN b.env \cup DOMAIN own.env
    BY DEF EnvOf, MergeEnv
  <2> QED
    BY <2>1
<1>2. EnvOf(d, b, own)[n] = IF n \in DOMAIN own.env THEN own.env[n]
                            ELSE IF n \in DOMAIN b.env THEN b.env[n] ELSE d.env[n]
  BY <1>1, EnvDecides
<1>3. CASE n \in DOMAIN own.env
  BY <1>2, <1>3
<1>4. CASE n \notin DOMAIN own.env /\ n \in DOMAIN b.env
  BY <1>2, <1>4
<1>5. CASE n \notin DOMAIN own.env /\ n \notin DOMAIN b.env
  BY <1>1, <1>2, <1>5
<1> QED
  BY <1>3, <1>4, <1>5

(* A text of the document is made of references.                           *)
LEMMA SchemaTexts ==
  ASSUME NEW s, Schema(s)
  PROVE  /\ \A i \in DOMAIN s.versions : ToSet(s.versions[i]) \subseteq References
         /\ \A n \in DOMAIN s.defaults.env : ToSet(s.defaults.env[n]) \subseteq References
         /\ \A e \in s.build : \A text \in TextsOfExec(e) : ToSet(text) \subseteq References
         /\ \A i \in DOMAIN s.benchmarks :
              LET b == s.benchmarks[i] IN
              /\ \A n \in DOMAIN b.env : ToSet(b.env[n]) \subseteq References
              /\ \A e \in Hooks(b) \cup ToSet(b.commands) : \A text \in TextsOfExec(e) :
                   ToSet(text) \subseteq References
              /\ \A x \in b.stdin : x.kind = "content" => ToSet(x.content) \subseteq References
<1>1. \A text \in TextsOf(s) : ToSet(text) \subseteq References
  BY DEF Schema
<1>2. \A i \in DOMAIN s.versions : s.versions[i] \in TextsOf(s)
  BY DEF TextsOf, ToSet
<1>3. \A n \in DOMAIN s.defaults.env : s.defaults.env[n] \in TextsOf(s)
  BY DEF TextsOf, Values
<1>4. \A e \in s.build : \A text \in TextsOfExec(e) : text \in TextsOf(s)
  BY DEF TextsOf
<1>5. ASSUME NEW i \in DOMAIN s.benchmarks
      PROVE  /\ \A n \in DOMAIN s.benchmarks[i].env : s.benchmarks[i].env[n] \in TextsOf(s)
             /\ \A e \in Hooks(s.benchmarks[i]) \cup ToSet(s.benchmarks[i].commands) :
                  \A text \in TextsOfExec(e) : text \in TextsOf(s)
             /\ \A x \in s.benchmarks[i].stdin : x.kind = "content" => x.content \in TextsOf(s)
  <2> DEFINE b == s.benchmarks[i]
  <2>1. \A text \in TextsOfBenchmark(b) : text \in TextsOf(s)
    BY DEF TextsOf
  <2> HIDE DEF b
  <2>2. \A n \in DOMAIN b.env : b.env[n] \in TextsOfBenchmark(b)
    BY DEF Values, TextsOfBenchmark
  <2>3. \A e \in Hooks(b) \cup ToSet(b.commands) :
          \A text \in TextsOfExec(e) : text \in TextsOfBenchmark(b)
    BY DEF TextsOfBenchmark
  <2>4. ASSUME NEW x \in b.stdin, x.kind = "content"
        PROVE  x.content \in TextsOfBenchmark(b)
    <3>1. x.content \in {z.content : z \in {y \in b.stdin : y.kind = "content"}}
      BY <2>4
    <3> QED
      BY <3>1 DEF TextsOfBenchmark
  <2> QED
    BY <2>1, <2>2, <2>3, <2>4 DEF b
<1> QED
  BY <1>1, <1>2, <1>3, <1>4, <1>5

(* The paths of the document, where it has them.                           *)
LEMMA DocumentPaths ==
  ASSUME NEW s
  PROVE  /\ \A p \in Setting(s.defaults.settings, "cwd") : p \in PathsOf(s)
         /\ \A e \in s.build : \A p \in e.cwd : p \in PathsOf(s)
         /\ \A i \in DOMAIN s.benchmarks :
              LET b == s.benchmarks[i] IN
              /\ \A p \in Setting(b.settings, "cwd") : p \in PathsOf(s)
              /\ \A h \in Hooks(b) : \A p \in h.cwd : p \in PathsOf(s)
              /\ \A c \in ToSet(b.commands) : \A p \in Setting(c.settings, "cwd") : p \in PathsOf(s)
              /\ \A x \in b.stdin : x.kind # "content" => x.file \in PathsOf(s)
              /\ \A w \in b.metrics.work : \A p \in w.file : p \in PathsOf(s)
<1>1. ASSUME NEW b
      PROVE  /\ \A p \in Setting(b.settings, "cwd") : p \in PathsOfBenchmark(b)
             /\ \A h \in Hooks(b) : \A p \in h.cwd : p \in PathsOfBenchmark(b)
             /\ \A c \in ToSet(b.commands) : \A p \in Setting(c.settings, "cwd") : p \in PathsOfBenchmark(b)
             /\ \A x \in b.stdin : x.kind # "content" => x.file \in PathsOfBenchmark(b)
             /\ \A w \in b.metrics.work : \A p \in w.file : p \in PathsOfBenchmark(b)
  <2>1. \A p \in Setting(b.settings, "cwd") : p \in PathsOfBenchmark(b)
    BY DEF PathsOfBenchmark, CwdOf
  <2>2. \A h \in Hooks(b) : \A p \in h.cwd : p \in PathsOfBenchmark(b)
    BY DEF PathsOfBenchmark
  <2>3. \A c \in ToSet(b.commands) : \A p \in Setting(c.settings, "cwd") : p \in PathsOfBenchmark(b)
    BY DEF PathsOfBenchmark, CwdOf
  <2>4. \A x \in b.stdin : x.kind # "content" => x.file \in PathsOfBenchmark(b)
    BY DEF PathsOfBenchmark
  <2>5. \A w \in b.metrics.work : \A p \in w.file : p \in PathsOfBenchmark(b)
    BY DEF PathsOfBenchmark
  <2> QED
    BY <2>1, <2>2, <2>3, <2>4, <2>5
<1>3. \A p \in Setting(s.defaults.settings, "cwd") : p \in PathsOf(s)
  BY DEF PathsOf, CwdOf
<1>4. \A e \in s.build : \A p \in e.cwd : p \in PathsOf(s)
  BY DEF PathsOf
<1>5. ASSUME NEW i \in DOMAIN s.benchmarks, NEW p \in PathsOfBenchmark(s.benchmarks[i])
      PROVE  p \in PathsOf(s)
  BY DEF PathsOf
<1>6. ASSUME NEW i \in DOMAIN s.benchmarks
      PROVE  LET b == s.benchmarks[i] IN
             /\ \A p \in Setting(b.settings, "cwd") : p \in PathsOf(s)
             /\ \A h \in Hooks(b) : \A p \in h.cwd : p \in PathsOf(s)
             /\ \A c \in ToSet(b.commands) : \A p \in Setting(c.settings, "cwd") : p \in PathsOf(s)
             /\ \A x \in b.stdin : x.kind # "content" => x.file \in PathsOf(s)
             /\ \A w \in b.metrics.work : \A p \in w.file : p \in PathsOf(s)
  <2> DEFINE b == s.benchmarks[i]
  <2>1. \A p \in PathsOfBenchmark(b) : p \in PathsOf(s)
    BY <1>5
  <2> HIDE DEF b
  <2>2. /\ \A p \in Setting(b.settings, "cwd") : p \in PathsOf(s)
        /\ \A h \in Hooks(b) : \A p \in h.cwd : p \in PathsOf(s)
        /\ \A c \in ToSet(b.commands) : \A p \in Setting(c.settings, "cwd") : p \in PathsOf(s)
        /\ \A x \in b.stdin : x.kind # "content" => x.file \in PathsOf(s)
        /\ \A w \in b.metrics.work : \A p \in w.file : p \in PathsOf(s)
    BY <1>1, <2>1
  <2> QED
    BY <2>2 DEF b
<1> QED
  BY <1>3, <1>4, <1>6

(* What the defaults, the build and the version commands of a document     *)
(* without issues are made of.                                             *)
LEMMA SuiteChecked ==
  ASSUME NEW s, Schema(s), Issues(s) = {}
  PROVE  /\ \A n \in DOMAIN s.defaults.env : Good(s.defaults.env[n], "benchmark", s.build # {})
         /\ \A p \in Setting(s.defaults.settings, "cwd") : CheckPath(p, TRUE) = {}
         /\ \A i \in DOMAIN s.versions : Good(s.versions[i], "versions", s.build # {})
         /\ \A e \in s.build : CheckExec(e, "build", s.build # {}) = {}
<1> DEFINE hasBuild == s.build # {}
<1>1. CheckCwd(Setting(s.defaults.settings, "cwd"), TRUE) = {}
  BY DEF Issues
<1>2. CheckEnv(s.defaults.env, "benchmark", hasBuild) = {}
  BY DEF Issues
<1>3. \A i \in DOMAIN s.versions : CheckText(s.versions[i], "versions", hasBuild) = {}
  BY DEF Issues
<1>4. \A e \in s.build : CheckExec(e, "build", hasBuild) = {}
  BY DEF Issues
<1> HIDE DEF hasBuild
<1>5. \A n \in DOMAIN s.defaults.env : CheckText(s.defaults.env[n], "benchmark", hasBuild) = {}
  BY <1>2 DEF CheckEnv
<1>6. \A p \in Setting(s.defaults.settings, "cwd") : CheckPath(p, TRUE) = {}
  BY <1>1 DEF CheckCwd
<1>7. /\ \A n \in DOMAIN s.defaults.env : Good(s.defaults.env[n], "benchmark", hasBuild)
      /\ \A i \in DOMAIN s.versions : Good(s.versions[i], "versions", hasBuild)
  BY <1>3, <1>5, SchemaTexts DEF Good
<1> QED
  BY <1>4, <1>6, <1>7 DEF hasBuild

(* What a command that has no issue is made of.                            *)
LEMMA ExecChecked ==
  ASSUME NEW e, NEW scope, NEW hasBuild, CheckExec(e, scope, hasBuild) = {},
         \A text \in TextsOfExec(e) : ToSet(text) \subseteq References
  PROVE  /\ \A i \in DOMAIN e.argv : Good(e.argv[i], scope, hasBuild)
         /\ \A n \in DOMAIN e.env : Good(e.env[n], scope, hasBuild)
         /\ \A p \in e.cwd : CheckPath(p, scope # "build") = {}
<1>1. /\ CheckCwd(e.cwd, scope # "build") = {} /\ CheckEnv(e.env, scope, hasBuild) = {}
      /\ \A i \in DOMAIN e.argv : CheckText(e.argv[i], scope, hasBuild) = {}
  BY DEF CheckExec
<1>2. \A i \in DOMAIN e.argv : e.argv[i] \in TextsOfExec(e)
  BY DEF TextsOfExec, ToSet
<1>3. \A n \in DOMAIN e.env : e.env[n] \in TextsOfExec(e)
  BY DEF TextsOfExec, Values
<1>4. \A n \in DOMAIN e.env : CheckText(e.env[n], scope, hasBuild) = {}
  BY <1>1 DEF CheckEnv
<1>5. \A p \in e.cwd : CheckPath(p, scope # "build") = {}
  BY <1>1 DEF CheckCwd
<1>6. \A i \in DOMAIN e.argv : Good(e.argv[i], scope, hasBuild)
  BY <1>1, <1>2 DEF Good
<1>7. \A n \in DOMAIN e.env : Good(e.env[n], scope, hasBuild)
  BY <1>3, <1>4 DEF Good
<1> QED
  BY <1>5, <1>6, <1>7

(* What a benchmark of a document without issues is made of.               *)
LEMMA BenchmarkChecked ==
  ASSUME NEW s, Schema(s), Issues(s) = {}, NEW i \in DOMAIN s.benchmarks
  PROVE  LET b == s.benchmarks[i]
             hasBuild == s.build # {}
         IN  /\ \A n \in DOMAIN b.env : Good(b.env[n], "benchmark", hasBuild)
             /\ \A p \in Setting(b.settings, "cwd") : CheckPath(p, TRUE) = {}
             /\ \A h \in Hooks(b) : CheckExec(h, "benchmark", hasBuild) = {}
             /\ \A j \in DOMAIN b.commands : CheckExec(AsExec(b.commands[j]), "benchmark", hasBuild) = {}
             /\ \A w \in b.metrics.work : \A p \in w.file : CheckPath(p, TRUE) = {}
             /\ \A x \in b.stdin : IF x.kind = "content" THEN Good(x.content, "benchmark", hasBuild)
                                   ELSE CheckPath(x.file, TRUE) = {}
<1> DEFINE b == s.benchmarks[i]
           hasBuild == s.build # {}
<1>1. CheckBenchmark(b, s.defaults, hasBuild) = {}
  BY NoIssueInBenchmark
<1>2. /\ \A n \in DOMAIN b.env : ToSet(b.env[n]) \subseteq References
      /\ \A x \in b.stdin : x.kind = "content" => ToSet(x.content) \subseteq References
  BY SchemaTexts
<1> HIDE DEF b, hasBuild
<1>3. CheckCwd(Setting(b.settings, "cwd"), TRUE) = {} /\ CheckEnv(b.env, "benchmark", hasBuild) = {}
  BY <1>1 DEF CheckBenchmark
<1>4. CheckStdin(b.stdin, hasBuild) = {}
  BY <1>1 DEF CheckBenchmark
<1>5. \A h \in Hooks(b) : CheckExec(h, "benchmark", hasBuild) = {}
  BY <1>1 DEF CheckBenchmark
<1>6. \A j \in DOMAIN b.commands : CheckExec(AsExec(b.commands[j]), "benchmark", hasBuild) = {}
  BY <1>1 DEF CheckBenchmark
<1>7. \A w \in b.metrics.work : CheckWork(w) = {}
  BY <1>1 DEF CheckBenchmark
<1>8. \A w \in b.metrics.work : \A p \in w.file : CheckPath(p, TRUE) = {}
  <2> SUFFICES ASSUME NEW w \in b.metrics.work PROVE \A p \in w.file : CheckPath(p, TRUE) = {}
    OBVIOUS
  <2>1. CheckCwd(w.file, TRUE) = {}
    BY <1>7 DEF CheckWork
  <2> QED
    BY <2>1 DEF CheckCwd
<1>9. \A n \in DOMAIN b.env : Good(b.env[n], "benchmark", hasBuild)
  BY <1>2, <1>3 DEF CheckEnv, Good
<1>10. \A p \in Setting(b.settings, "cwd") : CheckPath(p, TRUE) = {}
  BY <1>3 DEF CheckCwd
<1>11. \A x \in b.stdin : IF x.kind = "content" THEN Good(x.content, "benchmark", hasBuild)
                          ELSE CheckPath(x.file, TRUE) = {}
  <2> SUFFICES ASSUME NEW x \in b.stdin
               PROVE  IF x.kind = "content" THEN Good(x.content, "benchmark", hasBuild)
                      ELSE CheckPath(x.file, TRUE) = {}
    OBVIOUS
  <2>1. (IF x.kind = "content" THEN CheckText(x.content, "benchmark", hasBuild)
         ELSE CheckPath(x.file, TRUE)) = {}
    BY <1>4 DEF CheckStdin
  <2> QED
    BY <1>2, <2>1 DEF Good
<1> QED
  BY <1>5, <1>6, <1>8, <1>9, <1>10, <1>11 DEF b, hasBuild

(* A hook, resolved in its benchmark.                                      *)
LEMMA HookAvailable ==
  ASSUME NEW s, Schema(s), Issues(s) = {}, NEW i \in DOMAIN s.benchmarks,
         NEW h \in Hooks(s.benchmarks[i]), NEW v, Fits(v, "benchmark", s.build # {})
  PROVE  LET r == ResolveHook(h, s.benchmarks[i], s.defaults)
         IN  Excused(s, RefusedExec(r, r.cwd, v))
<1> DEFINE b == s.benchmarks[i]
           d == s.defaults
           r == ResolveHook(h, b, d)
           hasBuild == s.build # {}
<1>0. \A p : p \in h.cwd \/ p \in Setting(b.settings, "cwd") \/ p \in Setting(d.settings, "cwd")
              => p \in PathsOf(s)
  BY DocumentPaths
<1>1. CheckExec(h, "benchmark", hasBuild) = {}
  BY BenchmarkChecked
<1>2. \A text \in TextsOfExec(h) : ToSet(text) \subseteq References
  BY SchemaTexts
<1>3. /\ \A n \in DOMAIN b.env : Good(b.env[n], "benchmark", hasBuild)
      /\ \A p \in Setting(b.settings, "cwd") : CheckPath(p, TRUE) = {}
  BY BenchmarkChecked
<1>4. /\ \A n \in DOMAIN d.env : Good(d.env[n], "benchmark", hasBuild)
      /\ \A p \in Setting(d.settings, "cwd") : CheckPath(p, TRUE) = {}
  BY SuiteChecked
<1>5. hasBuild \in BOOLEAN /\ Fits(v, "benchmark", hasBuild)
  OBVIOUS
<1>6. /\ r.argv = h.argv /\ r.env = EnvOf(d, b, h)
      /\ r.cwd = First(<<h.cwd, Setting(b.settings, "cwd"), Setting(d.settings, "cwd")>>)
  BY DEF ResolveHook
<1> HIDE DEF b, d, r, hasBuild
<1>7. /\ \A k \in DOMAIN h.argv : Good(h.argv[k], "benchmark", hasBuild)
      /\ \A n \in DOMAIN h.env : Good(h.env[n], "benchmark", hasBuild)
      /\ \A p \in h.cwd : CheckPath(p, TRUE) = {}
  <2>1. ("benchmark" # "build") = TRUE
    OBVIOUS
  <2> QED
    BY <1>1, <1>2, <2>1, ExecChecked
<1>8. \A text : Good(text, "benchmark", hasBuild) => Expands(text, v)
  BY <1>5, TextAvailable
<1>9. \A n \in DOMAIN r.env : Expands(r.env[n], v)
  <2>1. \A n \in DOMAIN EnvOf(d, b, h) : Expands(EnvOf(d, b, h)[n], v)
    BY <1>3, <1>4, <1>7, <1>8, EnvAvailable
  <2> QED
    BY <1>6, <2>1
<1>10. ASSUME NEW p \in r.cwd PROVE Excused(s, ExpandPath(p, v))
  <2>1. p \in h.cwd \/ p \in Setting(b.settings, "cwd") \/ p \in Setting(d.settings, "cwd")
    BY <1>6, FromALevel
  <2>2. CheckPath(p, TRUE) = {} /\ p \in PathsOf(s)
    BY <1>0, <1>3, <1>4, <1>7, <2>1
  <2>3. Sees(v) /\ "workdir" \in v.available
    BY <1>5 DEF Fits, Sees
  <2> QED
    BY <2>2, <2>3, PathAvailable
<1>11. \A k \in DOMAIN r.argv : Expands(r.argv[k], v)
  BY <1>6, <1>7, <1>8
<1>12. Excused(s, RefusedExec(r, r.cwd, v))
  BY <1>9, <1>10, <1>11, ExecAvailable
<1> QED
  BY <1>12 DEF r, b, d

(* A command, resolved in its benchmark.                                   *)
LEMMA CommandAvailable ==
  ASSUME NEW s, Schema(s), Issues(s) = {}, NEW i \in DOMAIN s.benchmarks,
         NEW c \in ToSet(s.benchmarks[i].commands), NEW v, Fits(v, "benchmark", s.build # {})
  PROVE  LET r == ResolveCommand(c, s.benchmarks[i], s.defaults)
         IN  Excused(s, RefusedExec(r, r.settings.cwd, v))
<1> DEFINE b == s.benchmarks[i]
           d == s.defaults
           r == ResolveCommand(c, b, d)
           e == AsExec(c)
           hasBuild == s.build # {}
<1>0. \A p : p \in e.cwd \/ p \in Setting(b.settings, "cwd") \/ p \in Setting(d.settings, "cwd")
              => p \in PathsOf(s)
  <2>1. e.cwd = Setting(c.settings, "cwd")
    BY DEF AsExec
  <2> QED
    BY <2>1, DocumentPaths
<1>1. CheckExec(e, "benchmark", hasBuild) = {}
  <2>1. PICK j \in DOMAIN b.commands : c = b.commands[j]
    BY DEF ToSet
  <2> QED
    BY <2>1, BenchmarkChecked
<1>2. \A text \in TextsOfExec(e) : ToSet(text) \subseteq References
  <2>1. TextsOfExec(e) = TextsOfExec(c)
    BY DEF TextsOfExec, AsExec
  <2>2. \A text \in TextsOfExec(c) : ToSet(text) \subseteq References
    BY SchemaTexts
  <2> QED
    BY <2>1, <2>2
<1>3. /\ \A n \in DOMAIN b.env : Good(b.env[n], "benchmark", hasBuild)
      /\ \A p \in Setting(b.settings, "cwd") : CheckPath(p, TRUE) = {}
  BY BenchmarkChecked
<1>4. /\ \A n \in DOMAIN d.env : Good(d.env[n], "benchmark", hasBuild)
      /\ \A p \in Setting(d.settings, "cwd") : CheckPath(p, TRUE) = {}
  BY SuiteChecked
<1>5. hasBuild \in BOOLEAN /\ Fits(v, "benchmark", hasBuild)
  OBVIOUS
<1>6. /\ r.argv = c.argv /\ r.env = EnvOf(d, b, c)
      /\ r.settings.cwd = First(<<Setting(c.settings, "cwd"), Setting(b.settings, "cwd"),
                                  Setting(d.settings, "cwd"), Standard["cwd"]>>)
  BY DEF ResolveCommand, CommandSettings
<1>7. Standard["cwd"] = {}
  BY DEF Standard
<1>8. e.argv = c.argv /\ e.env = c.env /\ e.cwd = Setting(c.settings, "cwd")
  BY DEF AsExec
<1> HIDE DEF b, d, r, e, hasBuild
<1>9. /\ \A k \in DOMAIN e.argv : Good(e.argv[k], "benchmark", hasBuild)
      /\ \A n \in DOMAIN e.env : Good(e.env[n], "benchmark", hasBuild)
      /\ \A p \in e.cwd : CheckPath(p, TRUE) = {}
  <2>1. ("benchmark" # "build") = TRUE
    OBVIOUS
  <2> QED
    BY <1>1, <1>2, <2>1, ExecChecked
<1>10. \A text : Good(text, "benchmark", hasBuild) => Expands(text, v)
  BY <1>5, TextAvailable
<1>11. \A n \in DOMAIN r.env : Expands(r.env[n], v)
  <2>1. \A n \in DOMAIN c.env : Expands(c.env[n], v)
    BY <1>8, <1>9, <1>10
  <2>2. \A n \in DOMAIN EnvOf(d, b, c) : Expands(EnvOf(d, b, c)[n], v)
    BY <1>3, <1>4, <1>10, <2>1, EnvAvailable
  <2> QED
    BY <1>6, <2>2
<1>12. ASSUME NEW p \in r.settings.cwd PROVE Excused(s, ExpandPath(p, v))
  <2>1. p \in e.cwd \/ p \in Setting(b.settings, "cwd") \/ p \in Setting(d.settings, "cwd")
    BY <1>6, <1>7, <1>8, FromAnyLevel
  <2>2. CheckPath(p, TRUE) = {} /\ p \in PathsOf(s)
    BY <1>0, <1>3, <1>4, <1>9, <2>1
  <2>3. Sees(v) /\ "workdir" \in v.available
    BY <1>5 DEF Fits, Sees
  <2> QED
    BY <2>2, <2>3, PathAvailable
<1>13. \A k \in DOMAIN r.argv : Expands(r.argv[k], v)
  BY <1>6, <1>8, <1>9, <1>10
<1>14. Excused(s, RefusedExec(r, r.settings.cwd, v))
  BY <1>11, <1>12, <1>13, ExecAvailable
<1> QED
  BY <1>14 DEF r, b, d

-----------------------------------------------------------------------------
(* The steps.                                                              *)

(* In the state of a run, the benchmark it is at is resolved from the      *)
(* document and its variables are those the validator counted on.          *)
LEMMA InRun ==
  ASSUME IInv, pc \notin {"load", "rejected", "done", "refused"}
  PROVE  /\ Schema(raw) /\ Issues(raw) = {} /\ suite = Resolve(raw)
         /\ at \in DOMAIN raw.benchmarks
         /\ suite.build = raw.build /\ suite.versions = raw.versions
         /\ Benchmark = ResolveBenchmark(raw.benchmarks[at], raw.defaults)
         /\ \A side \in {"base", "head"} : Fits(InBenchmark(side), "benchmark", raw.build # {})
<1>1. Schema(raw) /\ Issues(raw) = {} /\ suite = Resolve(raw) /\ at \in DOMAIN raw.benchmarks
  BY SuitesAssumption DEF IInv, Accepted, AtBenchmark
<1>2. suite.build = raw.build /\ suite.versions = raw.versions
  BY <1>1 DEF Resolve
<1>3. Benchmark = ResolveBenchmark(raw.benchmarks[at], raw.defaults)
  BY <1>1, Resolved DEF Benchmark
<1>4. ASSUME NEW side \in {"base", "head"}
      PROVE  Fits(InBenchmark(side), "benchmark", raw.build # {})
  <2>1. /\ InBenchmark(side).side = side
        /\ InBenchmark(side).available =
             {"root", "head_root", "exe", "env"}
               \cup ({"workdir"} \cup (IF raw.build = {} THEN {} ELSE {"artifact"}))
    BY <1>2 DEF InBenchmark, Vars
  <2> QED
    BY <2>1 DEF Fits
<1> QED
  BY <1>1, <1>2, <1>3, <1>4

(* The hooks of a stage.                                                   *)
LEMMA HooksAvailable ==
  ASSUME IInv, pc \notin {"load", "rejected", "done", "refused"},
         NEW stage \in {"setup", "prepare_each", "cleanup"}, NEW side \in {"base", "head"}
  PROVE  Excused(raw, RefusedHooks(stage, side))
<1> DEFINE b == raw.benchmarks[at]
           d == raw.defaults
           v == InBenchmark(side)
<1>1. /\ Schema(raw) /\ Issues(raw) = {} /\ at \in DOMAIN raw.benchmarks
      /\ Benchmark = ResolveBenchmark(b, d) /\ Fits(v, "benchmark", raw.build # {})
  BY InRun
<1>2. DOMAIN b.hooks = {"setup", "prepare_each", "cleanup"}
  BY <1>1 DEF Schema
<1>3. Benchmark.hooks[stage] = [k \in DOMAIN b.hooks[stage] |-> ResolveHook(b.hooks[stage][k], b, d)]
  BY <1>1, <1>2 DEF ResolveBenchmark
<1> HIDE DEF v
<1>4. ASSUME NEW h \in ToSet(Benchmark.hooks[stage])
      PROVE  Excused(raw, RefusedExec(h, h.cwd, v))
  <2>1. PICK k \in DOMAIN b.hooks[stage] : h = ResolveHook(b.hooks[stage][k], b, d)
    BY <1>3 DEF ToSet
  <2>2. b.hooks[stage][k] \in Hooks(b)
    BY <1>2 DEF Hooks, ToSet
  <2> QED
    BY <1>1, <2>1, <2>2, HookAvailable
<1> QED
  BY <1>4 DEF RefusedHooks, Excused, v

(* A step that is refused for nothing but what it expands.                 *)
LEMMA StepAvailable ==
  ASSUME NEW why, NEW next, Step(why, next), Excused(raw, why), raw' = raw
  PROVE  Tolerable' /\ pc' \in {next, "refused"}
<1>1. refused' = why /\ pc' \in {next, "refused"} /\ why \subseteq Tolerated(raw)
  BY DEF Step, Excused
<1>2. Tolerated(raw)' = Tolerated(raw)
  BY DEF Tolerated
<1> QED
  BY <1>1, <1>2 DEF Tolerable

(* The document is loaded.                                                 *)
LEMMA LoadStep ==
  ASSUME IInv, Load
  PROVE  IInv'
<1>1. raw' = raw /\ at' = at /\ refused' = refused /\ prepared' = prepared /\ pc = "load"
  BY DEF Load
<1>2. CASE issues' = {}
  <2>1. suite' = Resolve(raw) /\ pc' = "versions" /\ Issues(raw) = {}
    BY <1>2 DEF Load
  <2> QED
    BY <1>1, <2>1 DEF IInv, Accepted, AtBenchmark, SidesKnown, Tolerable, Tolerated
<1>3. CASE issues' # {}
  <2>1. suite' = suite /\ pc' = "rejected"
    BY <1>3 DEF Load
  <2> QED
    BY <1>1, <2>1 DEF IInv, Accepted, AtBenchmark, SidesKnown, Tolerable, Tolerated
<1> QED
  BY <1>2, <1>3

(* The version commands are run.                                           *)
LEMMA VersionsStep ==
  ASSUME IInv, RunVersions
  PROVE  IInv'
<1> DEFINE v == Vars("head", {})
           why == UNION {ExpandText(suite.versions[i], v) : i \in DOMAIN suite.versions}
<1>1. /\ pc = "versions" /\ Step(why, "build")
      /\ raw' = raw /\ suite' = suite /\ at' = at /\ prepared' = prepared
  BY DEF RunVersions
<1>2. /\ Schema(raw) /\ Issues(raw) = {} /\ suite = Resolve(raw) /\ at \in DOMAIN raw.benchmarks
      /\ suite.versions = raw.versions
  BY <1>1, InRun
<1>3. Fits(v, "versions", raw.build # {})
  BY DEF Fits, Vars
<1>4. \A i \in DOMAIN suite.versions : Good(suite.versions[i], "versions", raw.build # {})
  BY <1>2, SuiteChecked
<1> HIDE DEF v
<1>5. \A i \in DOMAIN suite.versions : Expands(suite.versions[i], v)
  BY <1>3, <1>4, TextAvailable
<1>6. Excused(raw, why)
  BY <1>5, EnvironmentTolerated DEF Expands, Excused
<1> HIDE DEF why
<1>7. Tolerable' /\ pc' \in {"build", "refused"}
  BY <1>1, <1>6, StepAvailable
<1> QED
  BY <1>1, <1>2, <1>7 DEF IInv, Accepted, AtBenchmark, SidesKnown

(* A side is built.                                                        *)
LEMMA BuildStep ==
  ASSUME IInv, NEW side \in {"base", "head"}, Build(side)
  PROVE  IInv'
<1> DEFINE v == Vars(side, {"artifact"})
           why == UNION {RefusedExec(e, e.cwd, v) : e \in suite.build}
           next == IF built \cup {side} = ToSet(Sides) THEN "prepare" ELSE "build"
<1>1. /\ pc = "build" /\ Step(why, next)
      /\ raw' = raw /\ suite' = suite /\ at' = at /\ prepared' = prepared
  BY DEF Build
<1>2. /\ Schema(raw) /\ Issues(raw) = {} /\ suite = Resolve(raw) /\ at \in DOMAIN raw.benchmarks
      /\ suite.build = raw.build
  BY <1>1, InRun
<1>3. Fits(v, "build", raw.build # {}) /\ Sees(v)
  BY DEF Fits, Vars, Sees
<1> HIDE DEF v
<1>4. ASSUME NEW e \in suite.build
      PROVE  Excused(raw, RefusedExec(e, e.cwd, v))
  <2> DEFINE hasBuild == raw.build # {}
  <2>1. CheckExec(e, "build", hasBuild) = {} /\ hasBuild \in BOOLEAN
    BY <1>2, SuiteChecked
  <2>2. \A text \in TextsOfExec(e) : ToSet(text) \subseteq References
    BY <1>2, SchemaTexts
  <2>3. Fits(v, "build", hasBuild)
    BY <1>3
  <2> HIDE DEF hasBuild
  <2>4. /\ \A k \in DOMAIN e.argv : Good(e.argv[k], "build", hasBuild)
        /\ \A n \in DOMAIN e.env : Good(e.env[n], "build", hasBuild)
        /\ \A p \in e.cwd : CheckPath(p, FALSE) = {}
    <3>1. ("build" # "build") = FALSE
      OBVIOUS
    <3> QED
      BY <2>1, <2>2, <3>1, ExecChecked
  <2>5. /\ \A k \in DOMAIN e.argv : Expands(e.argv[k], v)
        /\ \A n \in DOMAIN e.env : Expands(e.env[n], v)
    BY <2>1, <2>3, <2>4, TextAvailable
  <2>6. ASSUME NEW p \in e.cwd PROVE Excused(raw, ExpandPath(p, v))
    <3>1. p \in PathsOf(raw)
      BY <1>2, DocumentPaths
    <3>2. CheckPath(p, FALSE) = {}
      BY <2>4
    <3>3. Schema(raw) /\ Sees(v)
      BY <1>2, <1>3
    <3> QED
      BY <3>1, <3>2, <3>3, PathAvailable
  <2> QED
    BY <2>5, <2>6, ExecAvailable
<1>5. Excused(raw, why)
  BY <1>4 DEF Excused
<1> HIDE DEF why
<1>6. Tolerable' /\ pc' \in {next, "refused"}
  BY <1>1, <1>5, StepAvailable
<1> QED
  BY <1>1, <1>2, <1>6 DEF IInv, Accepted, AtBenchmark, SidesKnown

(* A side is prepared.                                                     *)
LEMMA PrepareStep ==
  ASSUME IInv, NEW side \in {"base", "head"}, PrepareSide(side)
  PROVE  IInv'
<1> DEFINE b == raw.benchmarks[at]
           v == InBenchmark(side)
           fixture(x) == IF x.kind = "content" THEN ExpandText(x.content, v) ELSE ExpandPath(x.file, v)
           why == RefusedHooks("setup", side) \cup UNION {fixture(x) : x \in Benchmark.stdin}
           next == IF prepared' = ToSet(Sides) THEN "measure" ELSE "prepare"
<1>1. /\ pc = "prepare" /\ Step(why, next)
      /\ raw' = raw /\ suite' = suite /\ at' = at /\ prepared' = prepared \cup {side}
  BY DEF PrepareSide
<1>2. /\ Schema(raw) /\ Issues(raw) = {} /\ suite = Resolve(raw) /\ at \in DOMAIN raw.benchmarks
      /\ Benchmark = ResolveBenchmark(b, raw.defaults) /\ Fits(v, "benchmark", raw.build # {})
  BY <1>1, InRun
<1>3. Excused(raw, RefusedHooks("setup", side))
  BY <1>1, HooksAvailable
<1>4. Benchmark.stdin = b.stdin
  BY <1>2 DEF ResolveBenchmark
<1>5. \A x \in b.stdin : IF x.kind = "content" THEN Good(x.content, "benchmark", raw.build # {})
                         ELSE CheckPath(x.file, TRUE) = {}
  BY <1>2, BenchmarkChecked
<1>9. \A x \in b.stdin : x.kind # "content" => x.file \in PathsOf(raw)
  BY <1>2, DocumentPaths
<1> HIDE DEF b, v
<1>6. ASSUME NEW x \in b.stdin PROVE Excused(raw, fixture(x))
  <2>1. CASE x.kind = "content"
    <3>1. Expands(x.content, v)
      BY <1>2, <1>5, <2>1, TextAvailable
    <3> QED
      BY <2>1, <3>1, EnvironmentTolerated DEF Expands, Excused
  <2>2. CASE x.kind # "content"
    <3>1. Sees(v) /\ "workdir" \in v.available
      BY <1>2 DEF Fits, Sees
    <3>2. Excused(raw, ExpandPath(x.file, v))
      BY <1>2, <1>5, <1>9, <2>2, <3>1, PathAvailable
    <3> QED
      BY <2>2, <3>2
  <2> QED
    BY <2>1, <2>2
<1> HIDE DEF fixture
<1>7. Excused(raw, why)
  BY <1>3, <1>4, <1>6 DEF Excused
<1> HIDE DEF why
<1>8. Tolerable' /\ pc' \in {next, "refused"}
  BY <1>1, <1>7, StepAvailable
<1> QED
  BY <1>1, <1>2, <1>8 DEF IInv, Accepted, AtBenchmark, SidesKnown

(* A command is run once.                                                  *)
LEMMA RunOnceStep ==
  ASSUME IInv, NEW side \in {"base", "head"}, NEW c, pc = "measure" => c \in ToSet(Benchmark.commands), RunOnce(side, c)
  PROVE  IInv'
<1> DEFINE b == raw.benchmarks[at]
           d == raw.defaults
           v == InBenchmark(side)
           files == UNION {UNION {ExpandPath(p, v) : p \in w.file} : w \in Benchmark.metrics.work}
           why == RefusedHooks("prepare_each", side) \cup RefusedExec(c, c.settings.cwd, v) \cup files
<1>1. /\ pc = "measure" /\ Step(why, "measure")
      /\ raw' = raw /\ suite' = suite /\ at' = at /\ prepared' = prepared
  BY DEF RunOnce
<1>2. /\ Schema(raw) /\ Issues(raw) = {} /\ suite = Resolve(raw) /\ at \in DOMAIN raw.benchmarks
      /\ Benchmark = ResolveBenchmark(b, d) /\ Fits(v, "benchmark", raw.build # {})
  BY <1>1, InRun
<1>3. Excused(raw, RefusedHooks("prepare_each", side))
  BY <1>1, HooksAvailable
<1>4. Benchmark.metrics.work = b.metrics.work
  BY <1>2 DEF ResolveBenchmark, ResolveMetrics
<1>5. \A w \in b.metrics.work : \A p \in w.file : CheckPath(p, TRUE) = {}
  BY <1>2, BenchmarkChecked
<1>6. Benchmark.commands = [k \in DOMAIN b.commands |-> ResolveCommand(b.commands[k], b, d)]
  BY <1>2 DEF ResolveBenchmark
<1> HIDE DEF v
<1>7. Excused(raw, RefusedExec(c, c.settings.cwd, v))
  <2>1. PICK k \in DOMAIN b.commands : c = ResolveCommand(b.commands[k], b, d)
    BY <1>1, <1>6 DEF ToSet
  <2>2. b.commands[k] \in ToSet(b.commands)
    BY DEF ToSet
  <2> QED
    BY <1>2, <2>1, <2>2, CommandAvailable
<1>11. \A w \in b.metrics.work : \A p \in w.file : p \in PathsOf(raw)
  BY <1>2, DocumentPaths
<1> HIDE DEF b, d
<1>8. Excused(raw, files)
  <2>1. Sees(v) /\ "workdir" \in v.available
    BY <1>2 DEF Fits, Sees
  <2>2. \A w \in b.metrics.work : \A p \in w.file : Excused(raw, ExpandPath(p, v))
    BY <1>2, <1>5, <1>11, <2>1, PathAvailable
  <2> QED
    BY <1>4, <2>2 DEF Excused
<1> HIDE DEF files
<1>9. Excused(raw, why)
  BY <1>3, <1>7, <1>8 DEF Excused
<1> HIDE DEF why
<1>10. Tolerable' /\ pc' \in {"measure", "refused"}
  BY <1>1, <1>9, StepAvailable
<1> QED
  BY <1>1, <1>2, <1>10 DEF IInv, Accepted, AtBenchmark, SidesKnown

(* A benchmark is torn down, and the next one is begun.                    *)
LEMMA TeardownStep ==
  ASSUME IInv, Teardown
  PROVE  IInv'
<1> DEFINE why == UNION {RefusedHooks("cleanup", side) : side \in prepared}
           next == IF at < Len(suite.benchmarks) THEN "prepare" ELSE "done"
<1>1. /\ pc = "measure" /\ Step(why, next)
      /\ raw' = raw /\ suite' = suite /\ at' = at + 1 /\ prepared' = {}
  BY DEF Teardown
<1>2. /\ Schema(raw) /\ Issues(raw) = {} /\ suite = Resolve(raw) /\ at \in DOMAIN raw.benchmarks
  BY <1>1, InRun
<1>3. \A side \in {"base", "head"} : Excused(raw, RefusedHooks("cleanup", side))
  BY <1>1, HooksAvailable
<1>4. Excused(raw, why)
  BY <1>3 DEF IInv, SidesKnown, Excused
<1> HIDE DEF why, next
<1>5. Tolerable' /\ pc' \in {next, "refused"}
  BY <1>1, <1>4, StepAvailable
<1>6. /\ DOMAIN raw.benchmarks = 1..Len(raw.benchmarks) /\ Len(raw.benchmarks) \in Nat
      /\ Len(suite.benchmarks) = Len(raw.benchmarks)
  BY <1>2, Resolved
<1>7. pc' \notin {"done", "refused"} => at + 1 \in DOMAIN raw.benchmarks
  BY <1>2, <1>5, <1>6 DEF next
<1>8. AtBenchmark'
  BY <1>1, <1>7 DEF AtBenchmark
<1> QED
  BY <1>1, <1>2, <1>5, <1>8 DEF IInv, Accepted, SidesKnown

-----------------------------------------------------------------------------
(* Theorems.                                                               *)

(* A suite that is run is its document, resolved, without issues; the run  *)
(* is at one of its benchmarks; and it refused nothing but what it may.    *)
THEOREM ConfigInvariant == Spec => []IInv
<1>1. Init => IInv
  <2> SUFFICES ASSUME Init PROVE IInv
    OBVIOUS
  <2>1. raw \in Suites /\ suite = <<>> /\ pc = "load" /\ at = 1 /\ refused = {}
    BY DEF Init
  <2>2. 1 \in DOMAIN raw.benchmarks
    BY <2>1, SuitesAssumption, Resolved
  <2> QED
    BY <2>1, <2>2 DEF IInv, Accepted, AtBenchmark, SidesKnown, Tolerable, Init
<1>2. IInv /\ [Next]_vars => IInv'
  <2> SUFFICES ASSUME IInv, [Next]_vars PROVE IInv'
    OBVIOUS
  <2>1. CASE Load
    BY <2>1, LoadStep
  <2>2. CASE RunVersions
    BY <2>2, VersionsStep
  <2>3. CASE Teardown
    BY <2>3, TeardownStep
  <2>0. \A side \in ToSet(Sides) : side \in {"base", "head"}
    BY ConfigAssumption DEF ToSet
  <2>4. ASSUME NEW side \in ToSet(Sides), Build(side) PROVE IInv'
    BY <2>0, <2>4, BuildStep
  <2>5. ASSUME NEW side \in ToSet(Sides), PrepareSide(side) PROVE IInv'
    BY <2>0, <2>5, PrepareStep
  <2>6. ASSUME NEW side \in ToSet(Sides), pc = "measure",
               NEW c \in ToSet(Benchmark.commands), RunOnce(side, c)
        PROVE  IInv'
    BY <2>0, <2>6, RunOnceStep
  <2>7. CASE UNCHANGED vars
    BY <2>7 DEF vars, IInv, Accepted, AtBenchmark, SidesKnown, Tolerable, Tolerated
  <2> QED
    BY <2>1, <2>2, <2>3, <2>4, <2>5, <2>6, <2>7 DEF Next
<1> QED
  BY <1>1, <1>2, PTL DEF Spec

(* Whatever an accepted suite makes the run expand is available where it   *)
(* expands it.                                                             *)
THEOREM VariablesAvailable == Spec => []Available
<1>1. IInv => Available
  BY DEF IInv, Tolerable, Tolerated, Available
<1> QED
  BY <1>1, ConfigInvariant, PTL

(* Nor does the run of an accepted suite refuse a path as outside, unless  *)
(* text is written against its variable or it comes back from outside.     *)
THEOREM AcceptedHolds == Spec => []AcceptedRuns
<1>1. IInv => AcceptedRuns
  BY DEF IInv, Tolerable, Tolerated, Available, AcceptedRuns
<1> QED
  BY <1>1, ConfigInvariant, PTL

(* What is rejected as leaving the project, the run refuses as well.       *)
THEOREM RejectedHolds == Spec => []RejectedLeave
<1>1. IInv => RejectedLeave
  <2> SUFFICES ASSUME IInv, NEW p \in PathsOf(raw), ~p.glued, CheckPath(p, TRUE) = {"outside"}
               PROVE  ExpandPath(p, Vars("head", {"workdir"})) = {"outside"}
    BY DEF RejectedLeave
  <2>1. Schema(raw)
    BY SuitesAssumption DEF IInv, Accepted
  <2> QED
    BY <2>1, LeavingRefused
<1> QED
  BY <1>1, ConfigInvariant, PTL

(* The budgets, tolerances, names and streams of an accepted suite fit     *)
(* what it measures and runs, but for the stderr that is overlooked.       *)
THEOREM SettingsFitHolds == Spec => []SettingsFit
<1>1. IInv => SettingsFit
  BY AcceptedFits DEF IInv
<1> QED
  BY <1>1, ConfigInvariant, PTL

(* The most specific level that writes a setting decides it, in every      *)
(* accepted suite, whichever levels and settings those are.                *)
THEOREM SpecificHolds == Spec => []MostSpecificWins
<1>1. IInv => MostSpecificWins
  BY AcceptedIsSpecific DEF IInv
<1> QED
  BY <1>1, ConfigInvariant, PTL
=============================================================================
