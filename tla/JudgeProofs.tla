----------------------------- MODULE JudgeProofs ----------------------------
(***************************************************************************)
(* Proofs about Judge: a status of 0 says that everything was assessed,    *)
(* any other has its ground in what was measured, and the status, the      *)
(* result of the suite and the annotations agree, and a geometric mean is  *)
(* over what completed, for every suite and whatever its commands record.  *)
(***************************************************************************)
EXTENDS Judge, SequenceTheorems, FiniteSetTheorems, WellFoundedInduction, TLAPS

-----------------------------------------------------------------------------
(* The severity of results, and the worst of them.                         *)

(* The seven results are ranked from 1 to 7.                               *)
LEMMA SeverityOf ==
  /\ ToSet(Results) = {"pass", "improved", "inconclusive", "over_budget", "regression",
                       "metric_error", "error"}
  /\ Severity("pass") = 1 /\ Severity("improved") = 2 /\ Severity("inconclusive") = 3
  /\ Severity("over_budget") = 4 /\ Severity("regression") = 5
  /\ Severity("metric_error") = 6 /\ Severity("error") = 7
<1> DEFINE R == Results
<1>1. /\ DOMAIN R = 1..7 /\ Len(R) = 7
      /\ R[1] = "pass" /\ R[2] = "improved" /\ R[3] = "inconclusive" /\ R[4] = "over_budget"
      /\ R[5] = "regression" /\ R[6] = "metric_error" /\ R[7] = "error"
  BY DEF Results
<1>2. ToSet(R) = {R[1], R[2], R[3], R[4], R[5], R[6], R[7]}
  <2> HIDE DEF R
  <2> QED
    BY <1>1 DEF ToSet
<1> HIDE DEF R
<1>3. ASSUME NEW i \in 1..7 PROVE Severity(R[i]) = i
  <2>1. \A j \in 1..7 : R[j] = R[i] => j = i
    BY <1>1
  <2>2. Contains(R, R[i])
    BY <1>1 DEF Contains
  <2>3. Severity(R[i]) = CHOOSE j \in 1..7 : R[j] = R[i]
    BY <2>2 DEF Severity, R
  <2> QED
    BY <2>1, <2>3
<1>4. ToSet(R) = {"pass", "improved", "inconclusive", "over_budget", "regression",
                  "metric_error", "error"}
  BY <1>1, <1>2
<1> QED
  BY <1>1, <1>3, <1>4 DEF R

AllResults ==
  {"pass", "improved", "inconclusive", "over_budget", "regression", "metric_error", "error"}

(* A severity is a number, and tells the results apart.                    *)
LEMMA SeverityOrders ==
  /\ \A r \in AllResults : Severity(r) \in 1..7
  /\ \A q, r \in AllResults : Severity(q) = Severity(r) => q = r
BY SeverityOf DEF AllResults

(* The worst of some results is one of them, or "pass", and none is worse. *)
LEMMA WorstOf ==
  ASSUME NEW rs \in SUBSET AllResults
  PROVE  /\ Worst(rs) \in rs \cup {"pass"} /\ Worst(rs) \in AllResults
         /\ \A q \in rs : Severity(q) <= Severity(Worst(rs))
<1> DEFINE all == rs \cup {"pass"}
           Maximal(r) == \A q \in rs : Severity(q) <= Severity(r)
<1>1. all \subseteq AllResults /\ "pass" \in all
  BY DEF AllResults
<1>2. \E r \in all : Maximal(r)
  <2>1. CASE "error" \in all
    BY <1>1, <2>1, SeverityOf DEF AllResults
  <2>2. CASE "error" \notin all /\ "metric_error" \in all
    BY <1>1, <2>2, SeverityOf DEF AllResults
  <2>3. CASE {"error", "metric_error"} \cap all = {} /\ "regression" \in all
    BY <1>1, <2>3, SeverityOf DEF AllResults
  <2>4. CASE {"error", "metric_error", "regression"} \cap all = {} /\ "over_budget" \in all
    BY <1>1, <2>4, SeverityOf DEF AllResults
  <2>5. CASE {"error", "metric_error", "regression", "over_budget"} \cap all = {} /\ "inconclusive" \in all
    BY <1>1, <2>5, SeverityOf DEF AllResults
  <2>6. CASE {"error", "metric_error", "regression", "over_budget", "inconclusive"} \cap all = {}
               /\ "improved" \in all
    BY <1>1, <2>6, SeverityOf DEF AllResults
  <2>7. CASE {"error", "metric_error", "regression", "over_budget", "inconclusive", "improved"} \cap all = {}
    BY <1>1, <2>7, SeverityOf DEF AllResults
  <2> QED
    BY <2>1, <2>2, <2>3, <2>4, <2>5, <2>6, <2>7
<1>3. Worst(rs) = CHOOSE r \in all : Maximal(r)
  BY DEF Worst
<1> HIDE DEF Maximal
<1>4. Worst(rs) \in all /\ Maximal(Worst(rs))
  <2> HIDE DEF all
  <2> QED
    BY <1>2, <1>3
<1> QED
  BY <1>1, <1>4 DEF Maximal

-----------------------------------------------------------------------------
(* Sequences that grow.                                                    *)

IsSeq(s) == s \in Seq(ToSet(s))

(* A sequence has the domain of its length.                                *)
LEMMA SeqDomain ==
  ASSUME NEW s, IsSeq(s)
  PROVE  Len(s) \in Nat /\ DOMAIN s = 1..Len(s)
<1> DEFINE S == ToSet(s)
<1>1. s \in Seq(S)
  BY DEF IsSeq
<1> HIDE DEF S
<1> QED
  BY <1>1, LenProperties

(* What is appended comes last, and the rest stays where it was.           *)
LEMMA AppendGrows ==
  ASSUME NEW s, IsSeq(s), NEW e
  PROVE  /\ IsSeq(Append(s, e)) /\ Len(Append(s, e)) = Len(s) + 1
         /\ DOMAIN Append(s, e) = DOMAIN s \cup {Len(s) + 1}
         /\ Append(s, e)[Len(s) + 1] = e
         /\ \A i \in DOMAIN s : Append(s, e)[i] = s[i]
<1> DEFINE S == ToSet(s) \cup {e}
           t == Append(s, e)
<1>1. s \in Seq(S) /\ e \in S
  <2>1. s \in Seq(ToSet(s))
    BY DEF IsSeq
  <2>2. ToSet(s) \subseteq S
    OBVIOUS
  <2> HIDE DEF S
  <2> QED
    BY <2>1, <2>2 DEF S
<1> HIDE DEF S
<1>2. /\ t \in Seq(S) /\ Len(t) = Len(s) + 1
      /\ \A i \in 1..Len(s) : t[i] = s[i]
      /\ t[Len(s) + 1] = e
  BY <1>1, AppendProperties
<1>3. Len(s) \in Nat /\ DOMAIN s = 1..Len(s)
  BY SeqDomain
<1> HIDE DEF t
<1>4. DOMAIN t = 1..(Len(s) + 1)
  BY <1>2, LenProperties
<1>5. t \in Seq(ToSet(t))
  BY <1>2, SeqOfRange DEF ToSet, Range
<1>6. DOMAIN t = DOMAIN s \cup {Len(s) + 1}
  BY <1>3, <1>4
<1> QED
  BY <1>2, <1>3, <1>5, <1>6 DEF t, IsSeq

-----------------------------------------------------------------------------
(* What the runner delivers.                                               *)

Kinds == {"none", "metric_error", "error"}

(* The units of a benchmark are the sides its commands are measured on.    *)
Units(case) == {u \in ToSet(case.commands) \X {"head", "base"} : u[2] \in UnitsOf(case, u[1])}

(* What a benchmark may deliver: a failure, and the sides it measured.     *)
LEMMA MeasuredSides ==
  ASSUME NEW case, NEW br \in Measured(case)
  PROVE  /\ br.failure \in Kinds
         /\ br.sides \in [Units(case) -> Measurements] \/ (br.failure = "error" /\ DOMAIN br.sides = {})
         /\ br.failure = "none" => /\ DOMAIN br.sides = Units(case)
                                   /\ \A u \in DOMAIN br.sides : Complete(br.sides[u])
<1> DEFINE units == Units(case)
           whole == [failure : {"none"}, sides : [units -> {m \in Measurements : Complete(m)}]]
           unstarted == [failure : {"error"}, sides : {<<>>}]
           broken == [failure : {"error", "metric_error"}, sides : {[u \in units |-> m] : m \in Measurements}]
<1>1. br \in whole \cup unstarted \cup broken
  BY DEF Measured, Units
<1> HIDE DEF units
<1>2. CASE br \in whole
  BY <1>2 DEF units, Kinds
<1>3. CASE br \in unstarted
  BY <1>3 DEF Kinds
<1>4. CASE br \in broken
  <2>1. br.failure \in {"error", "metric_error"} /\ br.sides \in {[u \in units |-> m] : m \in Measurements}
    BY <1>4
  <2>2. br.sides \in [units -> Measurements]
    BY <2>1
  <2> QED
    BY <2>1, <2>2 DEF units, Kinds
<1> HIDE DEF whole, unstarted, broken
<1> QED
  BY <1>1, <1>2, <1>3, <1>4

(* A command that is reported was measured on the sides it is judged on,   *)
(* and on no other; the head is one of them.                               *)
LEMMA ReportedSides ==
  ASSUME NEW case, NEW br \in Measured(case), NEW c \in Reported(br)
  PROVE  /\ c \in ToSet(case.commands)
         /\ \A s : <<c, s>> \in DOMAIN br.sides <=> s \in SidesOf(ModeOf(case, c))
         /\ "head" \in SidesOf(ModeOf(case, c))
<1>1. PICK u \in DOMAIN br.sides : c = u[1]
  BY DEF Reported
<1>2. DOMAIN br.sides = Units(case)
  BY <1>1, MeasuredSides
<1>3. /\ c \in ToSet(case.commands) /\ UnitsOf(case, c) # {}
      /\ \A s : <<c, s>> \in DOMAIN br.sides <=> s \in {"head", "base"} /\ s \in UnitsOf(case, c)
  BY <1>1, <1>2 DEF Units
<1>4. UnitsOf(case, c) = SidesOf(ModeOf(case, c))
  BY <1>3 DEF UnitsOf, ModeOf, SidesOf
<1>5. SidesOf(ModeOf(case, c)) \subseteq {"head", "base"} /\ "head" \in SidesOf(ModeOf(case, c))
  BY DEF SidesOf
<1> QED
  BY <1>3, <1>4, <1>5

(* A unit is a reported command and one of its sides.                      *)
LEMMA UnitReported ==
  ASSUME NEW case, NEW br \in Measured(case), NEW u \in DOMAIN br.sides
  PROVE  /\ u = <<u[1], u[2]>> /\ u[1] \in Reported(br) /\ u[2] \in SidesOf(ModeOf(case, u[1]))
         /\ br.sides[u] \in Measurements
<1>1. br.sides \in [Units(case) -> Measurements]
  BY MeasuredSides
<1>2. u = <<u[1], u[2]>> /\ br.sides[u] \in Measurements
  BY <1>1 DEF Units
<1>3. u[1] \in Reported(br)
  BY DEF Reported
<1> QED
  BY <1>2, <1>3, ReportedSides

(* What a measurement records.                                             *)
LEMMA MeasurementType ==
  ASSUME NEW m \in Measurements
  PROVE  /\ m.failure \in Kinds /\ m.ran \in BOOLEAN
         /\ m.latency \in Nat /\ m.rss \in Nat /\ m.floor \in Nat
BY JudgeAssumption DEF Kinds

(* The failures of a reported command are those of its benchmark and of    *)
(* its sides.                                                              *)
LEMMA ReportedFailures ==
  ASSUME NEW case, NEW br \in Measured(case), NEW c \in Reported(br)
  PROVE  /\ FailuresOf(case, br, c) \subseteq {"metric_error", "error"}
         /\ br.failure # "none" => br.failure \in FailuresOf(case, br, c)
         /\ \A s \in SidesOf(ModeOf(case, c)) :
              br.sides[<<c, s>>].failure # "none" =>
                br.sides[<<c, s>>].failure \in FailuresOf(case, br, c)
         /\ \A f \in FailuresOf(case, br, c) :
              \/ br.failure = f
              \/ \E s \in SidesOf(ModeOf(case, c)) :
                   <<c, s>> \in DOMAIN br.sides /\ br.sides[<<c, s>>].failure = f
<1> DEFINE S == SidesOf(ModeOf(case, c))
           of(s) == IF <<c, s>> \in DOMAIN br.sides THEN br.sides[<<c, s>>].failure ELSE "error"
           F == ({br.failure} \cup {of(s) : s \in S}) \ {"none"}
<1>1. FailuresOf(case, br, c) = F
  BY DEF FailuresOf
<1>2. \A s \in S : <<c, s>> \in DOMAIN br.sides
  BY ReportedSides
<1>3. \A s \in S : of(s) = br.sides[<<c, s>>].failure
  BY <1>2
<1>4. \A s \in S : of(s) \in Kinds
  BY <1>2, <1>3, UnitReported, MeasurementType
<1>5. br.failure \in Kinds
  BY MeasuredSides
<1> HIDE DEF S, of
<1>6. F \subseteq {"metric_error", "error"}
  BY <1>4, <1>5 DEF Kinds
<1>7. br.failure # "none" => br.failure \in F
  OBVIOUS
<1>8. \A s \in S : br.sides[<<c, s>>].failure # "none" => br.sides[<<c, s>>].failure \in F
  BY <1>3
<1>9. \A f \in F : br.failure = f \/ \E s \in S : <<c, s>> \in DOMAIN br.sides /\ br.sides[<<c, s>>].failure = f
  BY <1>2, <1>3
<1> HIDE DEF F
<1> QED
  BY <1>1, <1>6, <1>7, <1>8, <1>9 DEF S

-----------------------------------------------------------------------------
(* The judgement of a command.                                             *)

(* What the result of a command is the worst of.                           *)
Causes(case, br, c, comparisons) ==
  FailuresOf(case, br, c) \cup {BudgetResult(s) : s \in Range(BudgetsOf(case, br, c))}
    \cup Gated(case, comparisons)

(* A benchmark of the report is the judgement of what was delivered.       *)
IsJudged(case, br, j) ==
  /\ DOMAIN j.commands = Reported(br)
  /\ \A c \in Reported(br) :
       /\ j.commands[c].comparisons \in Comparisons(case, br, c)
       /\ j.commands[c] = JudgeCommand(case, br, c, j.commands[c].comparisons)
  /\ j.result = Worst(({br.failure} \ {"none"}) \cup {j.commands[c].result : c \in Reported(br)})

(* A comparison has only the verdicts there are.                           *)
LEMMA VerdictsTyped ==
  ASSUME NEW case, NEW br, NEW c, NEW comparisons \in Comparisons(case, br, c)
  PROVE  \A m \in DOMAIN comparisons : comparisons[m] \in Verdicts
<1> DEFINE b == br.sides[<<c, "base">>]
           h == br.sides[<<c, "head">>]
           verdicts == {v \in [Independent(case) -> Verdicts] :
                          \A m \in DOMAIN v : v[m] \in VerdictsOf(case, b, h, m)}
           all(v) == IF case.throughput
                     THEN [m \in DOMAIN v \cup {"throughput"} |->
                             IF m = "throughput" THEN Throughput(case, b, h, v["latency"]) ELSE v[m]]
                     ELSE v
<1>1. comparisons = <<>> \/ \E v \in verdicts : comparisons = all(v)
  BY DEF Comparisons
<1>2. CASE comparisons = <<>>
  BY <1>2
<1>3. ASSUME NEW v \in verdicts, comparisons = all(v)
      PROVE  \A m \in DOMAIN comparisons : comparisons[m] \in Verdicts
  <2>1. v \in [Independent(case) -> Verdicts]
    OBVIOUS
  <2>2. "latency" \in Independent(case)
    BY DEF Independent, Collects
  <2>3. v["latency"] \in Verdicts /\ "skipped" \in Verdicts
    BY <2>1, <2>2 DEF Verdicts
  <2>4. Throughput(case, b, h, v["latency"]) \in Verdicts
    BY <2>3 DEF Throughput
  <2> HIDE DEF b, h, verdicts
  <2>5. CASE case.throughput
    BY <1>3, <2>1, <2>4, <2>5
  <2>6. CASE ~case.throughput
    BY <1>3, <2>1, <2>6
  <2> QED
    BY <2>5, <2>6
<1> HIDE DEF verdicts, all
<1> QED
  BY <1>1, <1>2, <1>3

(* The result of a command is one of its causes, or "pass", and no cause   *)
(* is worse.                                                               *)
LEMMA CommandResult ==
  ASSUME NEW case, NEW br \in Measured(case), NEW j, IsJudged(case, br, j), NEW c \in Reported(br)
  PROVE  LET cmd == j.commands[c]
             causes == Causes(case, br, c, cmd.comparisons)
         IN  /\ cmd.budgets = BudgetsOf(case, br, c)
             /\ \A m \in DOMAIN cmd.comparisons : cmd.comparisons[m] \in Verdicts
             /\ cmd.result \in AllResults /\ cmd.result \in causes \cup {"pass"}
             /\ causes \subseteq AllResults
             /\ \A q \in causes : Severity(q) <= Severity(cmd.result)
<1> DEFINE cmd == j.commands[c]
           causes == Causes(case, br, c, cmd.comparisons)
<1>1. cmd.comparisons \in Comparisons(case, br, c) /\ cmd = JudgeCommand(case, br, c, cmd.comparisons)
  BY DEF IsJudged
<1>2. \A m \in DOMAIN cmd.comparisons : cmd.comparisons[m] \in Verdicts
  BY <1>1, VerdictsTyped
<1> HIDE DEF cmd
<1>3. cmd.budgets = BudgetsOf(case, br, c) /\ cmd.result = Worst(causes)
  BY <1>1 DEF JudgeCommand, Causes
<1>4. FailuresOf(case, br, c) \subseteq AllResults
  BY ReportedFailures DEF AllResults
<1>5. Gated(case, cmd.comparisons) \subseteq AllResults
  BY <1>2 DEF Gated, Verdicts, AllResults
<1>6. \A s : BudgetResult(s) \in AllResults
  BY DEF BudgetResult, AllResults
<1>7. causes \subseteq AllResults
  BY <1>4, <1>5, <1>6 DEF Causes
<1> HIDE DEF causes
<1> QED
  BY <1>2, <1>3, <1>7, WorstOf DEF cmd, causes

(* A command that did not fail found every budget of it met or waived, and *)
(* no gated regression.                                                    *)
LEMMA CommandPassed ==
  ASSUME NEW case, NEW br \in Measured(case), NEW j, IsJudged(case, br, j), NEW c \in Reported(br),
         j.commands[c].result \in {"pass", "improved", "inconclusive"}
  PROVE  /\ FailuresOf(case, br, c) = {}
         /\ \A bud \in case.budgets : bud.command = c =>
              BudgetStatus(case, br.sides[<<c, "head">>], bud) \in {"pass", "skipped"}
         /\ "regression" \notin Gated(case, j.commands[c].comparisons)
         /\ j.commands[c].result # "inconclusive" => "inconclusive" \notin Gated(case, j.commands[c].comparisons)
<1> DEFINE cmd == j.commands[c]
           causes == Causes(case, br, c, cmd.comparisons)
           h == br.sides[<<c, "head">>]
<1>1. /\ causes \subseteq AllResults
      /\ \A q \in causes : Severity(q) <= Severity(cmd.result)
  BY CommandResult
<1>2. /\ FailuresOf(case, br, c) \subseteq causes
      /\ \A s \in Range(BudgetsOf(case, br, c)) : BudgetResult(s) \in causes
      /\ Gated(case, cmd.comparisons) \subseteq causes
  BY DEF Causes
<1>3. FailuresOf(case, br, c) \subseteq {"metric_error", "error"}
  BY ReportedFailures
<1>4. cmd.result \in {"pass", "improved", "inconclusive"}
  OBVIOUS
<1> HIDE DEF cmd, causes
<1>5. Severity(cmd.result) <= 3 /\ (cmd.result # "inconclusive" => Severity(cmd.result) <= 2)
  BY <1>4, SeverityOf
<1>6. {"over_budget", "regression", "metric_error", "error"} \cap causes = {}
  <2>1. \A q \in causes : Severity(q) <= 3
    <3>1. \A q \in causes : Severity(q) \in 1..7 /\ Severity(q) <= Severity(cmd.result)
      BY <1>1, SeverityOrders
    <3>2. Severity(cmd.result) \in 1..7
      BY <1>4, SeverityOf
    <3> QED
      BY <3>1, <3>2, <1>5
  <2> QED
    BY <2>1, SeverityOf
<1>7. cmd.result # "inconclusive" => "inconclusive" \notin causes
  BY <1>1, <1>4, <1>5, SeverityOf
<1>8. ASSUME NEW bud \in case.budgets, bud.command = c
      PROVE  BudgetStatus(case, h, bud) \in {"pass", "skipped"}
  <2> DEFINE s == BudgetStatus(case, h, bud)
  <2>1. s \in Range(BudgetsOf(case, br, c))
    BY <1>8 DEF BudgetsOf, Range
  <2>2. s \in {"pass", "fail", "skipped", "no_data", "at_floor"}
    BY DEF BudgetStatus
  <2> HIDE DEF s
  <2>3. BudgetResult(s) \notin {"over_budget", "metric_error"}
    BY <1>2, <1>6, <2>1
  <2>4. s \in {"pass", "skipped"}
    BY <2>2, <2>3 DEF BudgetResult
  <2> QED
    BY <2>4 DEF s
<1> QED
  BY <1>2, <1>3, <1>6, <1>7, <1>8 DEF cmd

(* A budget is on the head of a command that is reported.                  *)
LEMMA BudgetHead ==
  ASSUME NEW case, NEW br \in Measured(case), NEW c \in Reported(br)
  PROVE  <<c, "head">> \in DOMAIN br.sides /\ br.sides[<<c, "head">>] \in Measurements
<1>1. <<c, "head">> \in DOMAIN br.sides
  BY ReportedSides
<1> QED
  BY <1>1, UnitReported

(* A gated metric of a command has this verdict.                           *)
HasVerdict(case, comparisons, r) ==
  \E m \in case.gates \cap DOMAIN comparisons : comparisons[m] = r

(* A command that failed has a cause of that severity: a budget that is    *)
(* exceeded, a gated verdict, or a failure.                                *)
LEMMA CommandCause ==
  ASSUME NEW case, NEW br \in Measured(case), NEW j, IsJudged(case, br, j), NEW c \in Reported(br)
  PROVE  LET cmd == j.commands[c]
             h == br.sides[<<c, "head">>]
             statuses(r) == \E bud \in case.budgets :
                              bud.command = c /\ BudgetResult(BudgetStatus(case, h, bud)) = r
         IN  /\ cmd.result = "over_budget" => statuses("over_budget")
             /\ cmd.result \in {"regression", "inconclusive"} =>
                  HasVerdict(case, cmd.comparisons, cmd.result)
             /\ cmd.result = "metric_error" =>
                  \/ "metric_error" \in FailuresOf(case, br, c)
                  \/ "error" \notin FailuresOf(case, br, c) /\ statuses("metric_error")
             /\ cmd.result = "error" => "error" \in FailuresOf(case, br, c)
<1> DEFINE cmd == j.commands[c]
           h == br.sides[<<c, "head">>]
           causes == Causes(case, br, c, cmd.comparisons)
           statuses(r) == \E bud \in case.budgets :
                            bud.command = c /\ BudgetResult(BudgetStatus(case, h, bud)) = r
<1>1. /\ cmd.result \in causes \cup {"pass"} /\ causes \subseteq AllResults /\ cmd.result \in AllResults
      /\ \A q \in causes : Severity(q) <= Severity(cmd.result)
      /\ \A m \in DOMAIN cmd.comparisons : cmd.comparisons[m] \in Verdicts
  BY CommandResult
<1>2. FailuresOf(case, br, c) \subseteq {"metric_error", "error"}
  BY ReportedFailures
<1>3. ASSUME NEW r \in {BudgetResult(s) : s \in Range(BudgetsOf(case, br, c))} PROVE statuses(r)
  <2>1. PICK s \in Range(BudgetsOf(case, br, c)) : r = BudgetResult(s)
    BY <1>3
  <2>2. PICK bud \in case.budgets : bud.command = c /\ s = BudgetStatus(case, h, bud)
    BY <2>1 DEF BudgetsOf, Range
  <2> QED
    BY <2>1, <2>2
<1>4. \A s : BudgetResult(s) \in {"over_budget", "metric_error", "pass"}
  BY DEF BudgetResult
<1>5. ASSUME NEW r \in Gated(case, cmd.comparisons)
      PROVE  /\ r \in Verdicts
             /\ HasVerdict(case, cmd.comparisons, r)
  BY <1>1, <1>5 DEF Gated, HasVerdict
<1>6. "error" \in FailuresOf(case, br, c) => cmd.result # "metric_error"
  <2>1. "error" \in FailuresOf(case, br, c) => "error" \in causes
    BY DEF Causes
  <2>2. "error" \in causes => 7 <= Severity(cmd.result)
    BY <1>1, SeverityOf
  <2> QED
    BY <2>1, <2>2, SeverityOf
<1>7. cmd.result # "pass" =>
        \/ cmd.result \in FailuresOf(case, br, c)
        \/ cmd.result \in {"over_budget", "metric_error", "pass"} /\ statuses(cmd.result)
        \/ cmd.result \in Verdicts /\ HasVerdict(case, cmd.comparisons, cmd.result)
  BY <1>1, <1>3, <1>4, <1>5 DEF Causes
<1> HIDE DEF cmd, h, causes, statuses
<1>8. Verdicts = {"pass", "improved", "regression", "inconclusive", "skipped"}
  BY DEF Verdicts
<1>9. /\ cmd.result = "over_budget" => statuses("over_budget")
      /\ cmd.result \in {"regression", "inconclusive"} =>
           HasVerdict(case, cmd.comparisons, cmd.result)
      /\ cmd.result = "metric_error" =>
           \/ "metric_error" \in FailuresOf(case, br, c)
           \/ "error" \notin FailuresOf(case, br, c) /\ statuses("metric_error")
      /\ cmd.result = "error" => "error" \in FailuresOf(case, br, c)
  BY <1>2, <1>6, <1>7, <1>8
<1> QED
  BY <1>9 DEF cmd, h, statuses

(* The statuses of a budget: a limit that is exceeded, one that holds      *)
(* whatever the floor hides, and one that is left open.                    *)
LEMMA BudgetStatusOf ==
  ASSUME NEW case, NEW bud, BudgetOK(case, bud), NEW m \in Measurements
  PROVE  LET status == BudgetStatus(case, m, bud)
         IN  /\ status \in {"pass", "fail", "skipped", "no_data", "at_floor"}
             /\ status = "fail" => ~Allows(bud, ValueOf(m, bud.metric))
             /\ status = "pass" => \A v \in RealValues(m, bud.metric) : Allows(bud, v)
             /\ status = "skipped" => bud.metric = "peak_rss" /\ m.skipped
             /\ status = "at_floor" => {Allows(bud, v) : v \in RealValues(m, bud.metric)} = BOOLEAN
             /\ status = "no_data" => ~m.ran \/ m.failure = "metric_error"
<1> DEFINE status == BudgetStatus(case, m, bud)
           metric == bud.metric
           st == Status(case, m, metric)
<1>1. /\ m.latency \in Nat /\ m.rss \in Nat /\ m.floor \in Nat
  BY MeasurementType
<1>2. /\ metric \in {"latency", "peak_rss"} /\ bud.limit \in Nat \ {0} /\ bud.upper \in BOOLEAN
      /\ metric = "peak_rss" => case.memory /\ bud.upper
  BY DEF BudgetOK
<1>3. /\ st \in {"unsupported", "measured", "failed"}
      /\ st = "unsupported" => metric = "peak_rss" /\ m.skipped
      /\ st = "failed" => ~m.ran \/ m.failure = "metric_error"
  BY <1>2 DEF Status, Collects
<1>4. /\ status \in {"pass", "fail", "skipped", "no_data", "at_floor"}
      /\ status = "skipped" => st = "unsupported"
      /\ status = "no_data" => st = "failed"
      /\ status = "fail" => ~Allows(bud, ValueOf(m, metric))
      /\ status = "pass" => \/ ~AtFloor(m, metric) /\ Allows(bud, ValueOf(m, metric))
                            \/ AtFloor(m, metric) /\ bud.upper /\ Allows(bud, m.floor)
      /\ status = "at_floor" => AtFloor(m, metric) /\ ~(bud.upper /\ Allows(bud, m.floor))
  BY <1>3 DEF BudgetStatus
<1>5. status = "pass" => \A v \in RealValues(m, metric) : Allows(bud, v)
  BY <1>1, <1>2, <1>4 DEF RealValues, Allows
<1>6. ASSUME status = "at_floor" PROVE {Allows(bud, v) : v \in RealValues(m, metric)} = BOOLEAN
  <2>1. metric = "peak_rss" /\ AtFloor(m, metric) /\ bud.upper /\ ~Allows(bud, m.floor)
    BY <1>2, <1>4, <1>6 DEF AtFloor
  <2>2. RealValues(m, metric) = 0..m.floor
    BY <2>1 DEF RealValues
  <2>3. 0 \in 0..m.floor /\ m.floor \in 0..m.floor
    BY <1>1
  <2>4. /\ \A v \in 0..m.floor : Allows(bud, v) = (v <= bud.limit)
        /\ Allows(bud, 0) = (0 <= bud.limit) /\ Allows(bud, m.floor) = (m.floor <= bud.limit)
    BY <2>1 DEF Allows
  <2>5. 0 <= bud.limit /\ ~(m.floor <= bud.limit)
    BY <1>1, <1>2, <2>1 DEF Allows
  <2>6. Allows(bud, 0) = TRUE /\ Allows(bud, m.floor) = FALSE
    <3>1. (0 <= bud.limit) = TRUE /\ (m.floor <= bud.limit) = FALSE
      BY <1>1, <1>2, <2>5
    <3> QED
      BY <2>4, <3>1, Zenon
  <2>7. \A v \in 0..m.floor : Allows(bud, v) \in BOOLEAN
    <3>1. \A v, l : (v <= l) \in BOOLEAN
      OBVIOUS
    <3> QED
      BY <2>4, <3>1, Zenon
  <2> DEFINE al(v) == Allows(bud, v)
             R == RealValues(m, metric)
  <2>8. 0 \in R /\ m.floor \in R /\ al(0) = TRUE /\ al(m.floor) = FALSE /\ \A v \in R : al(v) \in BOOLEAN
    BY <2>2, <2>3, <2>6, <2>7
  <2> HIDE DEF al, R
  <2>9. {al(v) : v \in R} = BOOLEAN
    BY <2>8
  <2> QED
    BY <2>9 DEF al, R
<1> QED
  BY <1>3, <1>4, <1>5, <1>6

(* Without a failure, only a floor can leave a budget of a command open:   *)
(* a benchmark that did not fail has all its data.                         *)
LEMMA OpenBudget ==
  ASSUME NEW case \in ToSet(Cases), NEW br \in Measured(case), NEW j, IsJudged(case, br, j),
         NEW c \in Reported(br), j.commands[c].result = "metric_error",
         "metric_error" \notin FailuresOf(case, br, c)
  PROVE  \E bud \in case.budgets :
           bud.command = c /\ BudgetStatus(case, br.sides[<<c, "head">>], bud) = "at_floor"
<1> DEFINE h == br.sides[<<c, "head">>]
           F == FailuresOf(case, br, c)
<1>1. /\ "error" \notin F
      /\ \E bud \in case.budgets :
           bud.command = c /\ BudgetResult(BudgetStatus(case, h, bud)) = "metric_error"
  BY CommandCause
<1>2. PICK bud \in case.budgets :
        bud.command = c /\ BudgetResult(BudgetStatus(case, h, bud)) = "metric_error"
  BY <1>1
<1>3. BudgetStatus(case, h, bud) \in {"no_data", "at_floor"}
  BY <1>2 DEF BudgetResult
<1>4. <<c, "head">> \in DOMAIN br.sides /\ h \in Measurements /\ BudgetOK(case, bud)
  BY BudgetHead, JudgeAssumption
<1>5. br.failure = "none" /\ h.failure = "none"
  <2>1. F = {}
    BY <1>1, ReportedFailures
  <2>2. br.failure = "none"
    BY <2>1, ReportedFailures
  <2>3. "head" \in SidesOf(ModeOf(case, c))
    BY ReportedSides
  <2> QED
    BY <2>1, <2>2, <2>3, ReportedFailures
<1>6. h.ran
  BY <1>4, <1>5, MeasuredSides DEF Complete
<1> HIDE DEF h
<1>7. BudgetStatus(case, h, bud) = "at_floor"
  BY <1>3, <1>4, <1>5, <1>6, BudgetStatusOf
<1> QED
  BY <1>2, <1>7 DEF h

(* What a command that failed has for its ground in what was measured.     *)
LEMMA CommandGround ==
  ASSUME NEW case \in ToSet(Cases), NEW br \in Measured(case), NEW j, IsJudged(case, br, j),
         NEW c \in Reported(br)
  PROVE  LET result == j.commands[c].result
             head(bud) == br.sides[<<bud.command, "head">>]
         IN  /\ result = "over_budget" =>
                  \E bud \in case.budgets : ~Allows(bud, ValueOf(head(bud), bud.metric))
             /\ result = "metric_error" =>
                  \/ br.failure = "metric_error"
                  \/ \E u \in DOMAIN br.sides : br.sides[u].failure = "metric_error"
                  \/ \E bud \in case.budgets :
                       {Allows(bud, v) : v \in RealValues(head(bud), bud.metric)} = BOOLEAN
             /\ result = "error" =>
                  \/ br.failure = "error"
                  \/ \E u \in DOMAIN br.sides : br.sides[u].failure = "error"
<1> DEFINE result == j.commands[c].result
           h == br.sides[<<c, "head">>]
           F == FailuresOf(case, br, c)
           failed(r) == br.failure = r \/ \E u \in DOMAIN br.sides : br.sides[u].failure = r
<1>1. <<c, "head">> \in DOMAIN br.sides /\ h \in Measurements
  BY BudgetHead
<1>2. \A bud \in case.budgets : BudgetOK(case, bud)
  BY JudgeAssumption
<1>3. ASSUME NEW r \in F PROVE failed(r)
  <2> HIDE DEF result, h, failed
  <2>0. \A f \in FailuresOf(case, br, c) :
          \/ br.failure = f
          \/ \E s \in SidesOf(ModeOf(case, c)) :
               <<c, s>> \in DOMAIN br.sides /\ br.sides[<<c, s>>].failure = f
    BY ReportedFailures
  <2>1. \/ br.failure = r
        \/ \E s \in SidesOf(ModeOf(case, c)) :
             <<c, s>> \in DOMAIN br.sides /\ br.sides[<<c, s>>].failure = r
    BY <1>3, <2>0
  <2> USE DEF failed
  <2>2. ASSUME NEW s \in SidesOf(ModeOf(case, c)),
               <<c, s>> \in DOMAIN br.sides, br.sides[<<c, s>>].failure = r
        PROVE  \E u \in DOMAIN br.sides : br.sides[u].failure = r
    BY <2>2
  <2> QED
    BY <2>1, <2>2
<1>7. /\ result = "error" => "error" \in F
      /\ result = "over_budget" =>
           \E bud \in case.budgets :
             bud.command = c /\ BudgetResult(BudgetStatus(case, h, bud)) = "over_budget"
  BY CommandCause
<1>4. ASSUME result = "over_budget"
      PROVE  \E bud \in case.budgets :
               ~Allows(bud, ValueOf(br.sides[<<bud.command, "head">>], bud.metric))
  <2>1. PICK bud \in case.budgets :
          bud.command = c /\ BudgetResult(BudgetStatus(case, h, bud)) = "over_budget"
    BY <1>4, <1>7
  <2>2. BudgetStatus(case, h, bud) = "fail"
    BY <2>1 DEF BudgetResult
  <2> HIDE DEF h
  <2>3. ~Allows(bud, ValueOf(h, bud.metric))
    BY <1>1, <1>2, <2>2, BudgetStatusOf
  <2> QED
    BY <2>1, <2>3 DEF h
<1>5. ASSUME result = "metric_error"
      PROVE  \/ failed("metric_error")
             \/ \E bud \in case.budgets :
                  {Allows(bud, v) : v \in RealValues(br.sides[<<bud.command, "head">>], bud.metric)}
                    = BOOLEAN
  <2>1. CASE "metric_error" \in F
    BY <1>3, <2>1
  <2>2. CASE "metric_error" \notin F
    <3>1. PICK bud \in case.budgets : bud.command = c /\ BudgetStatus(case, h, bud) = "at_floor"
      BY <1>5, <2>2, OpenBudget
    <3> HIDE DEF h
    <3>2. {Allows(bud, v) : v \in RealValues(h, bud.metric)} = BOOLEAN
      BY <1>1, <1>2, <3>1, BudgetStatusOf
    <3> QED
      BY <3>1, <3>2 DEF h
  <2> QED
    BY <2>1, <2>2
<1>6. result = "error" => failed("error")
  BY <1>3, <1>7
<1> QED
  BY <1>4, <1>5, <1>6

-----------------------------------------------------------------------------
(* The inductive invariant.                                                *)

Inputs ==
  /\ mode \in Modes /\ newInHead \in BOOLEAN /\ failOnInconclusive \in BOOLEAN
  /\ interrupted \in BOOLEAN /\ failure \in {"none", "error"}

(* What the runner delivered is of the first benchmarks.                   *)
Recording ==
  /\ IsSeq(results) /\ Len(results) <= Len(Cases)
  /\ pc = "build" => results = <<>>
  /\ \A i \in DOMAIN results : results[i] \in Measured(Cases[i])

(* What is reported is the judgement of what was delivered.                *)
Judging ==
  /\ IsSeq(judged) /\ Len(judged) <= Len(results)
  /\ pc \in {"build", "measure"} => judged = <<>>
  /\ \A i \in DOMAIN judged : IsJudged(Cases[i], results[i], judged[i])

(* A phase is left when its work is done, or there is a reason to stop.    *)
Ending ==
  /\ pc \in {"build", "measure", "judge", "summarize", "report", "done"}
  /\ pc = "measure" => failure = "none"
  /\ pc \in {"judge", "summarize", "report", "done"} =>
       failure # "none" \/ interrupted \/ Len(results) = Len(Cases)
  /\ pc \in {"summarize", "report", "done"} => Len(judged) = Len(results)

(* The status and the annotations are those of the report.                 *)
Told ==
  /\ pc \in {"report", "done"} =>
       summary.exit = ExitCode \/ (interrupted /\ summary.exit = "execution")
  /\ pc = "done" => /\ exit = IF interrupted THEN "execution" ELSE summary.exit
                    /\ notes = Annotations
  /\ pc # "done" => exit = "none"

IInv == Inputs /\ Recording /\ Judging /\ Ending /\ Told

(* The initial states satisfy the invariant.                               *)
LEMMA InitInv == Init => IInv
<1> SUFFICES ASSUME Init PROVE IInv
  OBVIOUS
<1>1. IsSeq(<<>>) /\ Len(<<>>) = 0 /\ DOMAIN <<>> = {}
  BY DEF IsSeq, ToSet
<1>2. Len(Cases) \in Nat
  BY JudgeAssumption, SeqDomain DEF IsSeq
<1>3. Recording /\ Judging
  BY <1>1, <1>2 DEF Init, Recording, Judging
<1>4. Inputs /\ Ending /\ Told
  BY DEF Init, Inputs, Ending, Told
<1> QED
  BY <1>3, <1>4 DEF IInv

(* What is measured and how it is judged depends on the options alone.     *)
LEMMA SameJudgement ==
  ASSUME UNCHANGED <<mode, newInHead>>
  PROVE  /\ \A case : Measured(case)' = Measured(case)
         /\ \A case, br, j : IsJudged(case, br, j)' = IsJudged(case, br, j)
<1>1. JudgedMode' = JudgedMode
  BY DEF JudgedMode
<1>2. \A case, c : UnitsOf(case, c)' = UnitsOf(case, c) /\ ModeOf(case, c)' = ModeOf(case, c)
  BY <1>1 DEF UnitsOf, ModeOf
<1>3. ASSUME NEW case PROVE Measured(case)' = Measured(case)
  <2> DEFINE units == Units(case)
  <2>1. units' = units
    BY <1>2 DEF Units
  <2>2. Measured(case) = [failure : {"none"}, sides : [units -> {m \in Measurements : Complete(m)}]]
          \cup [failure : {"error"}, sides : {<<>>}]
          \cup [failure : {"error", "metric_error"}, sides : {[u \in units |-> m] : m \in Measurements}]
    BY DEF Measured, Units
  <2>3. Measured(case)' =
          [failure : {"none"}, sides : [units' -> {m \in Measurements : Complete(m)}]]
          \cup [failure : {"error"}, sides : {<<>>}]
          \cup [failure : {"error", "metric_error"}, sides : {[u \in units' |-> m] : m \in Measurements}]
    BY DEF Measured, Units
  <2> HIDE DEF units
  <2> QED
    BY <2>1, <2>2, <2>3
<1>4. \A case, br, c : FailuresOf(case, br, c)' = FailuresOf(case, br, c)
  BY <1>2 DEF FailuresOf
<1>5. \A case, br, c : Comparisons(case, br, c)' = Comparisons(case, br, c)
  BY <1>2, <1>4 DEF Comparisons
<1>6. \A case, br, c, comparisons :
        JudgeCommand(case, br, c, comparisons)' = JudgeCommand(case, br, c, comparisons)
  BY <1>4 DEF JudgeCommand
<1>7. \A case, br, j : IsJudged(case, br, j)' = IsJudged(case, br, j)
  BY <1>5, <1>6 DEF IsJudged
<1> QED
  BY <1>3, <1>7

(* The status and the annotations follow from the report.                  *)
LEMMA SameOutputs ==
  ASSUME UNCHANGED <<failOnInconclusive, failure, results, judged>>
  PROVE  ExitCode' = ExitCode /\ Annotations' = Annotations /\ SuiteResult' = SuiteResult
<1>1. \A i : CommandsOf(i)' = CommandsOf(i)
  BY DEF CommandsOf
<1>2. Counted' = Counted
  BY <1>1 DEF Counted
<1>3. \A r : CountOf(r)' = CountOf(r)
  BY <1>2 DEF CountOf
<1>4. ExitCode' = ExitCode
  BY <1>3 DEF ExitCode
<1>5. BudgetChecks' = BudgetChecks /\ ComparisonChecks' = ComparisonChecks
  BY <1>1 DEF BudgetChecks, ComparisonChecks
<1>6. \A checks, verdicts, gated : NotesOf(checks, verdicts, gated)' = NotesOf(checks, verdicts, gated)
  BY DEF NotesOf
<1>7. FailureNotes' = FailureNotes /\ AtFloorNotes' = AtFloorNotes
  BY <1>1, <1>5 DEF FailureNotes, AtFloorNotes
<1>8. Annotations' = Annotations
  BY <1>5, <1>6, <1>7 DEF Annotations
<1>9. SuiteResult' = SuiteResult
  BY DEF SuiteResult
<1> QED
  BY <1>4, <1>8, <1>9

(* The first benchmarks are those of the suite.                            *)
LEMMA CasesOf ==
  ASSUME IInv
  PROVE  /\ Len(results) \in Nat /\ DOMAIN results = 1..Len(results)
         /\ Len(judged) \in Nat /\ DOMAIN judged = 1..Len(judged)
         /\ Len(Cases) \in Nat /\ DOMAIN Cases = 1..Len(Cases)
         /\ DOMAIN judged \subseteq DOMAIN results /\ DOMAIN results \subseteq DOMAIN Cases
         /\ \A i \in DOMAIN results : Cases[i] \in ToSet(Cases)
<1>1. Len(Cases) \in Nat /\ DOMAIN Cases = 1..Len(Cases)
  BY JudgeAssumption, SeqDomain DEF IsSeq
<1>2. /\ Len(results) \in Nat /\ DOMAIN results = 1..Len(results)
      /\ Len(judged) \in Nat /\ DOMAIN judged = 1..Len(judged)
  BY SeqDomain DEF IInv, Recording, Judging
<1>3. Len(judged) <= Len(results) /\ Len(results) <= Len(Cases)
  BY DEF IInv, Recording, Judging
<1>4. DOMAIN judged \subseteq DOMAIN results /\ DOMAIN results \subseteq DOMAIN Cases
  BY <1>1, <1>2, <1>3
<1>5. \A i \in DOMAIN Cases : Cases[i] \in ToSet(Cases)
  BY DEF ToSet
<1> QED
  BY <1>1, <1>2, <1>4, <1>5

(* What is judged is the judgement of what was delivered, whatever the     *)
(* verdicts.                                                               *)
LEMMA BenchmarkJudged ==
  ASSUME NEW case, NEW br, NEW v, DOMAIN v = Reported(br),
         \A c \in DOMAIN v : v[c] \in Comparisons(case, br, c)
  PROVE  IsJudged(case, br, JudgeBenchmark(case, br, v))
<1> DEFINE j == JudgeBenchmark(case, br, v)
<1>1. /\ DOMAIN j.commands = Reported(br)
      /\ \A c \in Reported(br) : j.commands[c] = JudgeCommand(case, br, c, v[c])
      /\ j.result = Worst(({br.failure} \ {"none"}) \cup {j.commands[c].result : c \in Reported(br)})
  BY DEF JudgeBenchmark
<1>2. \A c \in Reported(br) : j.commands[c].comparisons = v[c]
  <2>1. \A c, comparisons : JudgeCommand(case, br, c, comparisons).comparisons = comparisons
    BY DEF JudgeCommand
  <2> HIDE DEF j
  <2> QED
    BY <1>1, <2>1
<1> HIDE DEF j
<1> QED
  BY <1>1, <1>2 DEF IsJudged, j

(* Every step keeps the invariant.                                         *)
LEMMA NextInv == IInv /\ [Next]_vars => IInv'
<1> SUFFICES ASSUME IInv, [Next]_vars PROVE IInv'
  OBVIOUS
<1>1. /\ Len(results) \in Nat /\ DOMAIN results = 1..Len(results)
      /\ Len(judged) \in Nat /\ DOMAIN judged = 1..Len(judged)
      /\ Len(Cases) \in Nat
  BY CasesOf
<1>2. CASE Interrupt
  <2>1. Recording' /\ Judging'
    BY <1>2, SameJudgement DEF Interrupt, options, input, IInv, Recording, Judging
  <2>2. Inputs' /\ Ending'
    BY <1>2 DEF Interrupt, options, input, IInv, Inputs, Ending
  <2>3. Told'
    BY <1>2, SameOutputs DEF Interrupt, options, input, IInv, Told
  <2> QED
    BY <2>1, <2>2, <2>3 DEF IInv
<1>3. CASE Build
  <2>1. results = <<>> /\ judged = <<>> /\ results' = results /\ judged' = judged
    BY <1>3 DEF Build, IInv, Recording, Judging
  <2>2. Recording' /\ Judging'
    BY <1>3, <2>1 DEF Build, IInv, Recording, Judging
  <2>3. Inputs' /\ Ending' /\ Told'
    BY <1>3 DEF Build, options, IInv, Inputs, Ending, Told
  <2> QED
    BY <2>2, <2>3 DEF IInv
<1>4. CASE Measure
  <2>1. PICK r \in Measured(Cases[Len(results) + 1]) : results' = Append(results, r)
    BY <1>4 DEF Measure
  <2>2. UNCHANGED <<mode, newInHead, judged, pc>> /\ pc = "measure" /\ Len(results) < Len(Cases)
    BY <1>4 DEF Measure, options
  <2>3. /\ IsSeq(results') /\ Len(results') = Len(results) + 1
        /\ DOMAIN results' = DOMAIN results \cup {Len(results) + 1}
        /\ results'[Len(results) + 1] = r
        /\ \A i \in DOMAIN results : results'[i] = results[i]
    BY <2>1, AppendGrows DEF IInv, Recording
  <2>4. \A i \in DOMAIN results' : results'[i] \in Measured(Cases[i])
    BY <2>1, <2>3 DEF IInv, Recording
  <2>5. Recording'
    BY <1>1, <2>2, <2>3, <2>4, SameJudgement DEF Recording
  <2>6. judged = <<>> /\ DOMAIN judged = {} /\ Len(judged) = 0
    BY <2>2 DEF IInv, Judging
  <2>7. Judging'
    BY <1>1, <2>2, <2>3, <2>6 DEF IInv, Judging
  <2>8. Inputs' /\ Ending' /\ Told'
    BY <1>4 DEF Measure, options, IInv, Inputs, Ending, Told
  <2> QED
    BY <2>5, <2>7, <2>8 DEF IInv
<1>5. CASE EndSuite
  <2>1. Recording' /\ Judging'
    BY <1>5, SameJudgement DEF EndSuite, options, input, IInv, Recording, Judging
  <2>2. Inputs' /\ Ending' /\ Told'
    BY <1>5 DEF EndSuite, options, input, IInv, Inputs, Ending, Told
  <2> QED
    BY <2>1, <2>2 DEF IInv
<1>6. CASE JudgeNext
  <2> DEFINE n == Len(judged) + 1
             case == Cases[n]
             br == results[n]
  <2>1. PICK v \in [Reported(br) -> UNION {Comparisons(case, br, c) : c \in Reported(br)}] :
          /\ \A c \in DOMAIN v : v[c] \in Comparisons(case, br, c)
          /\ judged' = Append(judged, JudgeBenchmark(case, br, v))
    BY <1>6 DEF JudgeNext
  <2>2. UNCHANGED <<mode, newInHead, results, pc>> /\ pc = "judge" /\ Len(judged) < Len(results)
    BY <1>6 DEF JudgeNext, options, input
  <2> DEFINE j == JudgeBenchmark(case, br, v)
  <2>3. IsJudged(case, br, j)
    BY <2>1, BenchmarkJudged
  <2> HIDE DEF j
  <2>4. /\ IsSeq(judged') /\ Len(judged') = Len(judged) + 1
        /\ DOMAIN judged' = DOMAIN judged \cup {n}
        /\ judged'[n] = j
        /\ \A i \in DOMAIN judged : judged'[i] = judged[i]
    BY <2>1, AppendGrows DEF IInv, Judging, j
  <2>5. \A i \in DOMAIN judged' : IsJudged(Cases[i], results[i], judged'[i])
    BY <2>3, <2>4 DEF IInv, Judging
  <2> HIDE DEF n, case, br
  <2>6. Judging'
    <3>1. \A i \in DOMAIN judged' : IsJudged(Cases[i], results[i], judged[i])'
      BY <2>2, <2>5, SameJudgement
    <3> QED
      BY <1>1, <2>2, <2>4, <3>1 DEF Judging
  <2>7. Recording'
    BY <2>2, SameJudgement DEF IInv, Recording
  <2>8. Inputs' /\ Ending' /\ Told'
    BY <1>6 DEF JudgeNext, options, input, IInv, Inputs, Ending, Told
  <2> QED
    BY <2>6, <2>7, <2>8 DEF IInv
<1>7. CASE JudgeMean
  <2>1. Recording' /\ Judging'
    BY <1>7, SameJudgement DEF JudgeMean, options, input, IInv, Recording, Judging
  <2>2. Inputs' /\ Ending' /\ Told'
    BY <1>7 DEF JudgeMean, options, input, IInv, Inputs, Ending, Told
  <2> QED
    BY <2>1, <2>2 DEF IInv
<1>8. CASE Summarize
  <2>1. Recording' /\ Judging'
    BY <1>8, SameJudgement DEF Summarize, options, input, IInv, Recording, Judging
  <2>2. Inputs' /\ Ending'
    BY <1>8 DEF Summarize, options, input, IInv, Inputs, Ending
  <2>3. summary'.exit = (IF interrupted /\ ExitCode = "ok" THEN "execution" ELSE ExitCode)
    BY <1>8 DEF Summarize
  <2>4. /\ pc = "summarize" /\ pc' = "report" /\ exit' = exit /\ interrupted' = interrupted
        /\ UNCHANGED <<failOnInconclusive, failure, results, judged>>
    BY <1>8 DEF Summarize, options, input
  <2>5. ExitCode' = ExitCode
    BY <2>4, SameOutputs
  <2>6. Told'
    <3>1. summary'.exit = ExitCode' \/ (interrupted' /\ summary'.exit = "execution")
      BY <2>3, <2>4, <2>5, Zenon
    <3>2. exit = "none"
      BY <2>4 DEF IInv, Told
    <3> QED
      BY <2>4, <3>1, <3>2 DEF Told
  <2> QED
    BY <2>1, <2>2, <2>6 DEF IInv
<1>9. CASE Report
  <2>1. Recording' /\ Judging'
    BY <1>9, SameJudgement DEF Report, options, input, IInv, Recording, Judging
  <2>2. Inputs' /\ Ending'
    BY <1>9 DEF Report, options, input, IInv, Inputs, Ending
  <2>3. Told'
    BY <1>9, SameOutputs DEF Report, options, input, IInv, Told
  <2> QED
    BY <2>1, <2>2, <2>3 DEF IInv
<1>10. CASE UNCHANGED vars
  <2>1. Recording' /\ Judging'
    BY <1>10, SameJudgement DEF vars, options, input, IInv, Recording, Judging
  <2>2. Inputs' /\ Ending'
    BY <1>10 DEF vars, options, input, IInv, Inputs, Ending
  <2>3. Told'
    BY <1>10, SameOutputs DEF vars, options, input, IInv, Told
  <2> QED
    BY <2>1, <2>2, <2>3 DEF IInv
<1> QED
  BY <1>2, <1>3, <1>4, <1>5, <1>6, <1>7, <1>8, <1>9, <1>10 DEF Next

(* In every state what is reported is the judgement of what was measured,  *)
(* and the status and the annotations are those of the report              *)
(* (report.judgeSuite, report.summarize).                                  *)
THEOREM JudgeInvariant == Spec => []IInv
BY InitInv, NextInv, PTL DEF Spec

-----------------------------------------------------------------------------
(* What is counted.                                                        *)

(* A function has finitely many values on a finite set.                    *)
LEMMA FiniteValues ==
  ASSUME NEW f, IsFiniteSet(DOMAIN f)
  PROVE  IsFiniteSet({f[x] : x \in DOMAIN f})
<1> DEFINE S == DOMAIN f
           T == {f[x] : x \in S}
           g == [x \in S |-> f[x]]
<1>1. g \in Surjection(S, T)
  BY DEF Surjection
<1> HIDE DEF g, S, T
<1>2. IsFiniteSet(S) => IsFiniteSet(T)
  BY <1>1, FS_Surjection
<1> QED
  BY <1>2 DEF S, T

(* The benchmarks, their commands and the results are finitely many.       *)
LEMMA FiniteCommands ==
  ASSUME IInv
  PROVE  /\ IsFiniteSet(DOMAIN results) /\ IsFiniteSet(DOMAIN judged)
         /\ \A i \in DOMAIN results : IsFiniteSet(Reported(results[i]))
<1>1. IsFiniteSet(DOMAIN results) /\ IsFiniteSet(DOMAIN judged)
  BY CasesOf, FS_Interval
<1>2. ASSUME NEW i \in DOMAIN results PROVE IsFiniteSet(Reported(results[i]))
  <2> DEFINE s == Cases[i].commands
  <2>1. Cases[i] \in ToSet(Cases)
    BY CasesOf
  <2>2. s \in Seq(ToSet(s))
    BY <2>1, JudgeAssumption
  <2> HIDE DEF s
  <2>3. IsFiniteSet(DOMAIN s)
    BY <2>2, SeqDomain, FS_Interval DEF IsSeq
  <2>4. IsFiniteSet(ToSet(s))
    BY <2>3, FiniteValues DEF ToSet
  <2>5. Reported(results[i]) \subseteq ToSet(s)
    BY ReportedSides DEF IInv, Recording, s
  <2> QED
    BY <2>4, <2>5, FS_Subset
<1> QED
  BY <1>1, <1>2

(* What is counted is finite, so that a count is 0 only when there is      *)
(* nothing to count.                                                       *)
LEMMA Counts ==
  ASSUME IInv, NEW r
  PROVE  CountOf(r) \in Nat /\ (CountOf(r) > 0 <=> \E k \in Counted : k[3] = r)
<1> DEFINE D == DOMAIN judged
           B == {j \in D : ~\E c \in CommandsOf(j) : IsError(judged[j].commands[c].result)}
           benchmark == [i \in B |-> <<i, "benchmark", results[i].failure>>]
           command == [i \in D |-> [c \in CommandsOf(i) |-> <<i, c, judged[i].commands[c].result>>]]
           values(i) == {command[i][c] : c \in DOMAIN command[i]}
           all == [i \in D |-> values(i)]
<1>1. IsFiniteSet(D)
  BY FiniteCommands
<1>2. \A i \in D : IsFiniteSet(CommandsOf(i))
  BY FiniteCommands, CasesOf DEF IInv, Judging, IsJudged, CommandsOf
<1>3. IsFiniteSet(B)
  <2>1. B \subseteq D
    OBVIOUS
  <2> HIDE DEF B, D
  <2> QED
    BY <1>1, <2>1, FS_Subset
<1> HIDE DEF D, B
<1>4. IsFiniteSet({benchmark[i] : i \in DOMAIN benchmark})
  <2>1. DOMAIN benchmark = B
    OBVIOUS
  <2> HIDE DEF benchmark
  <2> QED
    BY <1>3, <2>1, FiniteValues
<1>5. \A i \in D : IsFiniteSet(values(i))
  <2> SUFFICES ASSUME NEW i \in D PROVE IsFiniteSet(values(i))
    OBVIOUS
  <2> DEFINE f == command[i]
  <2>1. DOMAIN f = CommandsOf(i)
    OBVIOUS
  <2> HIDE DEF f
  <2>2. IsFiniteSet({f[c] : c \in DOMAIN f})
    BY <1>2, <2>1, FiniteValues
  <2> QED
    BY <2>2 DEF f
<1>6. IsFiniteSet(UNION {all[i] : i \in DOMAIN all})
  <2>1. DOMAIN all = D /\ \A i \in D : all[i] = values(i)
    OBVIOUS
  <2> HIDE DEF all, values
  <2>2. IsFiniteSet({all[i] : i \in DOMAIN all})
    BY <1>1, <2>1, FiniteValues
  <2>3. \A T \in {all[i] : i \in DOMAIN all} : IsFiniteSet(T)
    BY <1>5, <2>1
  <2> QED
    BY <2>2, <2>3, FS_UNION
<1>7. Counted = ({<<0, "suite", failure>>} \cup {benchmark[i] : i \in DOMAIN benchmark})
                  \cup UNION {all[i] : i \in DOMAIN all}
  BY DEF Counted, B, D
<1>8. IsFiniteSet(Counted)
  <2> HIDE DEF benchmark, all
  <2> QED
    BY <1>4, <1>6, <1>7, FS_Union, FS_Singleton
<1> DEFINE those == {k \in Counted : k[3] = r}
<1>9. IsFiniteSet(those)
  <2>1. those \subseteq Counted
    OBVIOUS
  <2> HIDE DEF those
  <2> QED
    BY <1>8, <2>1, FS_Subset
<1>10. CountOf(r) = Cardinality(those)
  BY DEF CountOf
<1> HIDE DEF those
<1>11. CountOf(r) \in Nat /\ (CountOf(r) = 0 <=> those = {})
  BY <1>9, <1>10, FS_CardinalityType, FS_EmptySet
<1>12. those # {} <=> \E k \in Counted : k[3] = r
  BY DEF those
<1> QED
  BY <1>11, <1>12

(* What is counted is a failure of the suite or of a benchmark, or the     *)
(* result of a command.                                                    *)
LEMMA CountedOf ==
  ASSUME NEW k \in Counted
  PROVE  \/ k[3] = failure
         \/ \E i \in DOMAIN judged : k[3] = results[i].failure
         \/ \E i \in DOMAIN judged : \E c \in CommandsOf(i) : k[3] = judged[i].commands[c].result
BY DEF Counted

(* The results of commands are all counted, and so is the failure of a     *)
(* benchmark without a command in error.                                   *)
LEMMA IsCounted ==
  /\ \E k \in Counted : k[3] = failure
  /\ \A i \in DOMAIN judged :
       /\ \A c \in CommandsOf(i) : \E k \in Counted : k[3] = judged[i].commands[c].result
       /\ (\A c \in CommandsOf(i) : ~IsError(judged[i].commands[c].result)) =>
            \E k \in Counted : k[3] = results[i].failure
<1>1. <<0, "suite", failure>> \in Counted
  BY DEF Counted
<1>2. ASSUME NEW i \in DOMAIN judged, NEW c \in CommandsOf(i)
      PROVE  <<i, c, judged[i].commands[c].result>> \in Counted
  BY DEF Counted
<1>3. ASSUME NEW i \in DOMAIN judged, \A c \in CommandsOf(i) : ~IsError(judged[i].commands[c].result)
      PROVE  <<i, "benchmark", results[i].failure>> \in Counted
  BY <1>3 DEF Counted
<1>4. \A a, b, r : <<a, b, r>>[3] = r
  OBVIOUS
<1> QED
  BY <1>1, <1>2, <1>3, <1>4

(* Everything that is reported is known of its benchmark.                  *)
LEMMA JudgedAt ==
  ASSUME IInv, NEW i \in DOMAIN judged
  PROVE  /\ i \in DOMAIN results /\ Cases[i] \in ToSet(Cases) /\ results[i] \in Measured(Cases[i])
         /\ IsJudged(Cases[i], results[i], judged[i])
         /\ CommandsOf(i) = Reported(results[i])
<1>1. i \in DOMAIN results /\ Cases[i] \in ToSet(Cases)
  BY CasesOf
<1>2. results[i] \in Measured(Cases[i])
  BY <1>1 DEF IInv, Recording
<1>3. IsJudged(Cases[i], results[i], judged[i])
  BY DEF IInv, Judging
<1> QED
  BY <1>1, <1>2, <1>3 DEF IsJudged, CommandsOf

(* The exit status says which is the worst of the results that are         *)
(* counted.                                                                *)
LEMMA ExitCodeOf ==
  ASSUME IInv
  PROVE  LET counted(r) == \E k \in Counted : k[3] = r
         IN  /\ ExitCode \in {"ok", "failed", "metric", "execution"}
             /\ ExitCode = "execution" <=> counted("error")
             /\ ExitCode = "metric" <=> ~counted("error") /\ counted("metric_error")
             /\ ExitCode = "failed" <=>
                  /\ ~counted("error") /\ ~counted("metric_error")
                  /\ \/ counted("regression") \/ counted("over_budget")
                     \/ counted("inconclusive") /\ failOnInconclusive
<1> DEFINE counted(r) == \E k \in Counted : k[3] = r
<1>1. /\ CountOf("error") > 0 <=> counted("error")
      /\ CountOf("metric_error") > 0 <=> counted("metric_error")
      /\ CountOf("inconclusive") > 0 <=> counted("inconclusive")
  BY Counts
<1>2. CountOf("regression") + CountOf("over_budget") > 0
        <=> counted("regression") \/ counted("over_budget")
  <2>1. /\ CountOf("regression") \in Nat /\ (CountOf("regression") > 0 <=> counted("regression"))
        /\ CountOf("over_budget") \in Nat /\ (CountOf("over_budget") > 0 <=> counted("over_budget"))
    BY Counts
  <2> HIDE DEF counted
  <2> QED
    BY <2>1
<1>3. failOnInconclusive \in BOOLEAN
  BY DEF IInv, Inputs
<1> HIDE DEF counted
<1>4. /\ ExitCode \in {"ok", "failed", "metric", "execution"}
      /\ ExitCode = "execution" <=> counted("error")
      /\ ExitCode = "metric" <=> ~counted("error") /\ counted("metric_error")
      /\ ExitCode = "failed" <=>
           /\ ~counted("error") /\ ~counted("metric_error")
           /\ \/ counted("regression") \/ counted("over_budget")
              \/ counted("inconclusive") /\ failOnInconclusive
  BY <1>1, <1>2, <1>3 DEF ExitCode
<1> QED
  BY <1>4 DEF counted

(* The result of a command is one of the seven.                            *)
LEMMA ResultType ==
  ASSUME IInv, NEW i \in DOMAIN judged, NEW c \in CommandsOf(i)
  PROVE  judged[i].commands[c].result \in AllResults
BY JudgedAt, CommandResult

-----------------------------------------------------------------------------
(* A status of 0.                                                          *)

(* With a status of 0 nothing failed, every command passed its judgement   *)
(* and nothing is left out.                                                *)
LEMMA OkPasses ==
  ASSUME IInv, exit = "ok"
  PROVE  /\ pc = "done" /\ ~interrupted /\ failure = "none" /\ ExitCode = "ok"
         /\ Len(results) = Len(Cases) /\ DOMAIN judged = DOMAIN results
         /\ \A i \in DOMAIN judged :
              /\ results[i].failure = "none"
              /\ \A c \in CommandsOf(i) :
                   /\ judged[i].commands[c].result \in {"pass", "improved", "inconclusive"}
                   /\ failOnInconclusive => judged[i].commands[c].result # "inconclusive"
<1>1. pc = "done" /\ ~interrupted /\ summary.exit = "ok"
  BY DEF IInv, Inputs, Told
<1>2. ExitCode = "ok"
  BY <1>1 DEF IInv, Told
<1>3. /\ \A k \in Counted : k[3] \notin {"error", "metric_error", "regression", "over_budget"}
      /\ failOnInconclusive => \A k \in Counted : k[3] # "inconclusive"
  BY <1>2, ExitCodeOf
<1>4. failure = "none"
  BY <1>3, IsCounted DEF IInv, Inputs
<1>5. Len(results) = Len(Cases) /\ DOMAIN judged = DOMAIN results
  BY <1>1, <1>4, CasesOf DEF IInv, Ending
<1>6. ASSUME NEW i \in DOMAIN judged, NEW c \in CommandsOf(i)
      PROVE  /\ judged[i].commands[c].result \in {"pass", "improved", "inconclusive"}
             /\ failOnInconclusive => judged[i].commands[c].result # "inconclusive"
  <2>1. PICK k \in Counted : k[3] = judged[i].commands[c].result
    BY IsCounted
  <2>2. judged[i].commands[c].result \in AllResults
    BY ResultType
  <2> QED
    BY <1>3, <2>1, <2>2 DEF AllResults
<1>7. ASSUME NEW i \in DOMAIN judged PROVE results[i].failure = "none"
  <2>1. \A c \in CommandsOf(i) : ~IsError(judged[i].commands[c].result)
    BY <1>6 DEF IsError
  <2>2. PICK k \in Counted : k[3] = results[i].failure
    BY <2>1, IsCounted
  <2>3. results[i].failure \in Kinds
    BY JudgedAt, MeasuredSides
  <2> QED
    BY <1>3, <2>2, <2>3 DEF Kinds
<1> QED
  BY <1>1, <1>2, <1>4, <1>5, <1>6, <1>7

(* Every budget of a benchmark that ran is on a command that is reported.  *)
LEMMA BudgetReported ==
  ASSUME NEW case \in ToSet(Cases), NEW br \in Measured(case), br.failure = "none",
         NEW bud \in case.budgets
  PROVE  bud.command \in Reported(br) /\ BudgetOK(case, bud)
<1> DEFINE u == <<bud.command, "head">>
<1>1. BudgetOK(case, bud)
  BY JudgeAssumption
<1>2. bud.command \in ToSet(case.commands)
  BY <1>1 DEF BudgetOK
<1>3. "head" \in UnitsOf(case, bud.command)
  BY DEF UnitsOf, SidesOf
<1>4. u \in Units(case)
  BY <1>2, <1>3 DEF Units
<1>5. u \in DOMAIN br.sides
  BY <1>4, MeasuredSides
<1>6. u[1] \in Reported(br)
  BY <1>5 DEF Reported
<1> QED
  BY <1>1, <1>6

(* A status of 0 says that everything was assessed (report.summarize,      *)
(* report.budgets).                                                        *)
THEOREM PassHolds == Spec => []PassIsAssessed
<1>1. IInv => PassIsAssessed
  <2> SUFFICES ASSUME IInv, exit = "ok" PROVE PassIsAssessed
    BY DEF PassIsAssessed
  <2>1. ~interrupted /\ failure = "none" /\ Len(results) = Len(Cases) /\ DOMAIN judged = DOMAIN results
    BY OkPasses
  <2>2. ASSUME NEW i \in DOMAIN results
        PROVE  /\ results[i].failure = "none"
               /\ \A u \in DOMAIN results[i].sides : results[i].sides[u].failure = "none"
               /\ \A bud \in Cases[i].budgets :
                    LET m == results[i].sides[<<bud.command, "head">>]
                    IN \/ bud.metric = "peak_rss" /\ m.skipped
                       \/ \A v \in RealValues(m, bud.metric) : Allows(bud, v)
               /\ ~GatedVerdict(i, {"regression"})
               /\ failOnInconclusive => ~GatedVerdict(i, {"inconclusive"})
    <3> DEFINE case == Cases[i]
               br == results[i]
    <3>1. /\ i \in DOMAIN judged /\ case \in ToSet(Cases) /\ br \in Measured(case)
          /\ IsJudged(case, br, judged[i]) /\ CommandsOf(i) = Reported(br)
      BY <2>1, JudgedAt
    <3>2. br.failure = "none"
      BY <3>1, OkPasses
    <3>3. ASSUME NEW c \in Reported(br)
          PROVE  /\ FailuresOf(case, br, c) = {}
                 /\ \A bud \in case.budgets : bud.command = c =>
                      BudgetStatus(case, br.sides[<<c, "head">>], bud) \in {"pass", "skipped"}
                 /\ "regression" \notin Gated(case, judged[i].commands[c].comparisons)
                 /\ failOnInconclusive =>
                      "inconclusive" \notin Gated(case, judged[i].commands[c].comparisons)
      <4>1. /\ judged[i].commands[c].result \in {"pass", "improved", "inconclusive"}
            /\ failOnInconclusive => judged[i].commands[c].result # "inconclusive"
        BY <3>1, OkPasses
      <4> HIDE DEF case, br
      <4> QED
        BY <3>1, <4>1, CommandPassed
    <3>4. \A u \in DOMAIN br.sides : br.sides[u].failure = "none"
      <4> SUFFICES ASSUME NEW u \in DOMAIN br.sides PROVE br.sides[u].failure = "none"
        OBVIOUS
      <4> HIDE DEF case, br
      <4>1. u = <<u[1], u[2]>> /\ u[1] \in Reported(br) /\ u[2] \in SidesOf(ModeOf(case, u[1]))
        BY <3>1, UnitReported
      <4>2. br.sides[<<u[1], u[2]>>].failure # "none" =>
              br.sides[<<u[1], u[2]>>].failure \in FailuresOf(case, br, u[1])
        BY <3>1, <4>1, ReportedFailures
      <4>3. FailuresOf(case, br, u[1]) = {}
        BY <3>3, <4>1
      <4> QED
        BY <4>1, <4>2, <4>3
    <3>5. ASSUME NEW bud \in case.budgets
          PROVE  LET m == br.sides[<<bud.command, "head">>]
                 IN \/ bud.metric = "peak_rss" /\ m.skipped
                    \/ \A v \in RealValues(m, bud.metric) : Allows(bud, v)
      <4> DEFINE m == br.sides[<<bud.command, "head">>]
      <4> HIDE DEF case, br
      <4>1. bud.command \in Reported(br) /\ BudgetOK(case, bud)
        BY <3>1, <3>2, BudgetReported
      <4>2. m \in Measurements
        BY <3>1, <4>1, BudgetHead
      <4>3. BudgetStatus(case, m, bud) \in {"pass", "skipped"}
        BY <3>3, <4>1
      <4> HIDE DEF m
      <4>4. (bud.metric = "peak_rss" /\ m.skipped) \/ \A v \in RealValues(m, bud.metric) : Allows(bud, v)
        BY <4>1, <4>2, <4>3, BudgetStatusOf
      <4> QED
        BY <4>4 DEF m
    <3>6. ASSUME NEW r \in {"regression", "inconclusive"}, GatedVerdict(i, {r})
          PROVE  \E c \in Reported(br) : r \in Gated(case, judged[i].commands[c].comparisons)
      <4>1. PICK c \in CommandsOf(i) :
              \E m \in case.gates \cap DOMAIN judged[i].commands[c].comparisons :
                judged[i].commands[c].comparisons[m] = r
        BY <3>6 DEF GatedVerdict
      <4>2. r \in Gated(case, judged[i].commands[c].comparisons)
        BY <4>1 DEF Gated
      <4> QED
        BY <3>1, <4>1, <4>2
    <3>7. ~GatedVerdict(i, {"regression"}) /\ (failOnInconclusive => ~GatedVerdict(i, {"inconclusive"}))
      BY <3>3, <3>6
    <3> QED
      BY <3>2, <3>4, <3>5, <3>7
  <2> QED
    BY <2>1, <2>2 DEF PassIsAssessed
<1> QED
  BY <1>1, JudgeInvariant, PTL

-----------------------------------------------------------------------------
(* Any other status.                                                       *)

(* A status other than 0 comes from something that is counted.             *)
LEMMA StatusCounted ==
  ASSUME IInv, exit # "none"
  PROVE  /\ pc = "done" /\ interrupted \in BOOLEAN
         /\ ~interrupted => exit = ExitCode
         /\ exit \in {"failed", "metric"} => exit = ExitCode
         /\ exit = "execution" => interrupted \/ exit = ExitCode
<1>1. pc = "done" /\ interrupted \in BOOLEAN
  BY DEF IInv, Inputs, Told
<1>2. /\ exit = IF interrupted THEN "execution" ELSE summary.exit
      /\ summary.exit = ExitCode \/ (interrupted /\ summary.exit = "execution")
  BY <1>1 DEF IInv, Told
<1> QED
  BY <1>1, <1>2

(* A gated verdict that decides the result of a command is one of its      *)
(* benchmark.                                                              *)
LEMMA GatedCause ==
  ASSUME IInv, NEW i \in DOMAIN judged, NEW c \in CommandsOf(i),
         judged[i].commands[c].result \in {"regression", "inconclusive"}
  PROVE  /\ \E m \in Cases[i].gates \cap DOMAIN judged[i].commands[c].comparisons :
              judged[i].commands[c].comparisons[m] = judged[i].commands[c].result
         /\ GatedVerdict(i, {judged[i].commands[c].result})
<1> DEFINE case == Cases[i]
           br == results[i]
           j == judged[i]
<1>1. case \in ToSet(Cases) /\ br \in Measured(case) /\ IsJudged(case, br, j) /\ c \in Reported(br)
  BY JudgedAt
<1>2. j.commands[c].result \in {"regression", "inconclusive"}
  OBVIOUS
<1> HIDE DEF case, br, j
<1>3. HasVerdict(case, j.commands[c].comparisons, j.commands[c].result)
  BY <1>1, <1>2, CommandCause
<1> QED
  BY <1>3 DEF HasVerdict, GatedVerdict, case, j

(* The ground of the result of a command is one of its benchmark.          *)
LEMMA GroundAt ==
  ASSUME IInv, NEW i \in DOMAIN judged, NEW c \in CommandsOf(i)
  PROVE  LET result == judged[i].commands[c].result
             failed(r) == \/ results[i].failure = r
                          \/ \E u \in DOMAIN results[i].sides : results[i].sides[u].failure = r
         IN  /\ result = "over_budget" =>
                  \E bud \in Cases[i].budgets :
                    ~Allows(bud, ValueOf(results[i].sides[<<bud.command, "head">>], bud.metric))
             /\ result = "metric_error" =>
                  \/ failed("metric_error")
                  \/ \E bud \in Cases[i].budgets :
                       {Allows(bud, v) :
                          v \in RealValues(results[i].sides[<<bud.command, "head">>], bud.metric)}
                         = BOOLEAN
             /\ result = "error" => failed("error")
<1> DEFINE case == Cases[i]
           br == results[i]
           j == judged[i]
<1>1. case \in ToSet(Cases) /\ br \in Measured(case) /\ IsJudged(case, br, j) /\ c \in Reported(br)
  BY JudgedAt
<1> HIDE DEF case, br, j
<1>2. LET result == j.commands[c].result
          failed(r) == br.failure = r \/ \E u \in DOMAIN br.sides : br.sides[u].failure = r
      IN  /\ result = "over_budget" =>
               \E bud \in case.budgets :
                 ~Allows(bud, ValueOf(br.sides[<<bud.command, "head">>], bud.metric))
          /\ result = "metric_error" =>
               \/ failed("metric_error")
               \/ \E bud \in case.budgets :
                    {Allows(bud, v) : v \in RealValues(br.sides[<<bud.command, "head">>], bud.metric)}
                      = BOOLEAN
          /\ result = "error" => failed("error")
  BY <1>1, CommandGround
<1> QED
  BY <1>2 DEF case, br, j

(* What fails the job has its ground in what was measured                  *)
(* (report.compareMetrics, report.deriveThroughput, report.budgets).       *)
THEOREM GroundHolds == Spec => []FailureHasGround
<1>1. IInv => FailureHasGround
  <2> SUFFICES ASSUME IInv PROVE FailureHasGround
    OBVIOUS
  <2> DEFINE counted(r) == \E k \in Counted : k[3] = r
             command(r) == \E i \in DOMAIN judged : \E c \in CommandsOf(i) :
                             judged[i].commands[c].result = r
             benchmark(r) == \E i \in DOMAIN judged : results[i].failure = r
  <2>1. \A r : counted(r) => failure = r \/ benchmark(r) \/ command(r)
    BY CountedOf
  <2>2. failure \in {"none", "error"} /\ \A i \in DOMAIN judged : results[i].failure \in Kinds
    BY JudgedAt, MeasuredSides DEF IInv, Inputs
  <2>3. DOMAIN judged \subseteq DOMAIN results
    BY CasesOf
  <2>4. ASSUME exit = "failed"
        PROVE  \E i \in DOMAIN results :
                 \/ \E bud \in Cases[i].budgets :
                      LET m == results[i].sides[<<bud.command, "head">>]
                      IN ~Allows(bud, ValueOf(m, bud.metric))
                 \/ GatedVerdict(i, {"regression"})
                 \/ failOnInconclusive /\ GatedVerdict(i, {"inconclusive"})
    <3>1. ExitCode = "failed"
      BY <2>4, StatusCounted
    <3>2. \/ counted("regression") \/ counted("over_budget")
          \/ counted("inconclusive") /\ failOnInconclusive
      BY <3>1, ExitCodeOf
    <3>3. \/ command("regression") \/ command("over_budget")
          \/ command("inconclusive") /\ failOnInconclusive
      <4> HIDE DEF counted, command
      <4> QED
        BY <2>1, <2>2, <3>2 DEF Kinds
    <3>4. CASE command("regression")
      BY <2>3, <3>4, GatedCause
    <3>5. CASE command("inconclusive") /\ failOnInconclusive
      BY <2>3, <3>5, GatedCause
    <3>6. CASE command("over_budget")
      <4>0. PICK i \in DOMAIN judged : \E c \in CommandsOf(i) : judged[i].commands[c].result = "over_budget"
        BY <3>6
      <4>1. PICK c \in CommandsOf(i) : judged[i].commands[c].result = "over_budget"
        BY <4>0
      <4>2. \E bud \in Cases[i].budgets :
              ~Allows(bud, ValueOf(results[i].sides[<<bud.command, "head">>], bud.metric))
        BY <4>1, GroundAt
      <4> QED
        BY <2>3, <4>2
    <3> QED
      BY <3>3, <3>4, <3>5, <3>6
  <2>5. ASSUME exit = "metric"
        PROVE  \E i \in DOMAIN results :
                 \/ results[i].failure = "metric_error"
                 \/ \E u \in DOMAIN results[i].sides : results[i].sides[u].failure = "metric_error"
                 \/ \E bud \in Cases[i].budgets :
                      {Allows(bud, v) : v \in RealValues(results[i].sides[<<bud.command, "head">>],
                                                         bud.metric)} = BOOLEAN
    <3>1. ExitCode = "metric"
      BY <2>5, StatusCounted
    <3>2. counted("metric_error")
      BY <3>1, ExitCodeOf
    <3>3. benchmark("metric_error") \/ command("metric_error")
      <4> HIDE DEF counted, command, benchmark
      <4> QED
        BY <2>1, <2>2, <3>2
    <3>4. CASE benchmark("metric_error")
      BY <2>3, <3>4
    <3>5. CASE command("metric_error")
      <4>0. PICK i \in DOMAIN judged : \E c \in CommandsOf(i) : judged[i].commands[c].result = "metric_error"
        BY <3>5
      <4>1. PICK c \in CommandsOf(i) : judged[i].commands[c].result = "metric_error"
        BY <4>0
      <4>2. \/ results[i].failure = "metric_error"
            \/ \E u \in DOMAIN results[i].sides : results[i].sides[u].failure = "metric_error"
            \/ \E bud \in Cases[i].budgets :
                 {Allows(bud, v) : v \in RealValues(results[i].sides[<<bud.command, "head">>],
                                                    bud.metric)} = BOOLEAN
        BY <4>1, GroundAt
      <4> QED
        BY <2>3, <4>2
    <3> QED
      BY <3>3, <3>4, <3>5
  <2>6. ASSUME exit = "execution"
        PROVE  \/ interrupted \/ failure = "error"
               \/ \E i \in DOMAIN results :
                    \/ results[i].failure = "error"
                    \/ \E u \in DOMAIN results[i].sides : results[i].sides[u].failure = "error"
    <3>1. interrupted \/ ExitCode = "execution"
      BY <2>6, StatusCounted
    <3>2. interrupted \/ counted("error")
      BY <3>1, ExitCodeOf
    <3>3. interrupted \/ failure = "error" \/ benchmark("error") \/ command("error")
      <4> HIDE DEF counted, command, benchmark
      <4> QED
        BY <2>1, <3>2
    <3>4. CASE benchmark("error")
      BY <2>3, <3>4
    <3>5. CASE command("error")
      <4>0. PICK i \in DOMAIN judged : \E c \in CommandsOf(i) : judged[i].commands[c].result = "error"
        BY <3>5
      <4>1. PICK c \in CommandsOf(i) : judged[i].commands[c].result = "error"
        BY <4>0
      <4>2. \/ results[i].failure = "error"
            \/ \E u \in DOMAIN results[i].sides : results[i].sides[u].failure = "error"
        BY <4>1, GroundAt
      <4> QED
        BY <2>3, <4>2
    <3> QED
      BY <3>3, <3>4, <3>5
  <2> QED
    BY <2>4, <2>5, <2>6 DEF FailureHasGround
<1> QED
  BY <1>1, JudgeInvariant, PTL

-----------------------------------------------------------------------------
(* The outputs.                                                            *)

(* The commands that are reported are finitely many.                       *)
LEMMA FiniteReported ==
  ASSUME IInv
  PROVE  IsFiniteSet(UNION {{<<i, c>> : c \in Reported(results[i])} : i \in DOMAIN results})
<1> DEFINE D == DOMAIN results
           row == [i \in D |-> [c \in Reported(results[i]) |-> <<i, c>>]]
           values(i) == {row[i][c] : c \in DOMAIN row[i]}
           rows == [i \in D |-> values(i)]
           reported == UNION {{<<i, c>> : c \in Reported(results[i])} : i \in DOMAIN results}
<1>1. IsFiniteSet(D) /\ \A i \in D : IsFiniteSet(Reported(results[i]))
  BY FiniteCommands
<1>2. reported = UNION {rows[i] : i \in DOMAIN rows}
  OBVIOUS
<1> HIDE DEF D, reported
<1>3. \A i \in D : IsFiniteSet(values(i))
  <2> SUFFICES ASSUME NEW i \in D PROVE IsFiniteSet(values(i))
    OBVIOUS
  <2> DEFINE f == row[i]
  <2>1. DOMAIN f = Reported(results[i])
    OBVIOUS
  <2> HIDE DEF f
  <2>2. IsFiniteSet({f[c] : c \in DOMAIN f})
    BY <1>1, <2>1, FiniteValues
  <2> QED
    BY <2>2 DEF f
<1>4. IsFiniteSet(UNION {rows[i] : i \in DOMAIN rows})
  <2>1. DOMAIN rows = D /\ \A i \in D : rows[i] = values(i)
    OBVIOUS
  <2> HIDE DEF rows, values
  <2>2. IsFiniteSet({rows[i] : i \in DOMAIN rows})
    BY <1>1, <2>1, FiniteValues
  <2>3. \A T \in {rows[i] : i \in DOMAIN rows} : IsFiniteSet(T)
    BY <1>3, <2>1
  <2> QED
    BY <2>2, <2>3, FS_UNION
<1> HIDE DEF rows
<1> QED
  BY <1>2, <1>4 DEF reported

(* A geometric mean is over a number of benchmarks.                        *)
LEMMA MeanCases ==
  ASSUME IInv
  PROVE  CompareMean.cases \in Nat /\ RunMean.cases \in Nat /\ NoMean.cases \in Nat
<1> DEFINE reported == UNION {{<<i, c>> : c \in Reported(results[i])} : i \in DOMAIN results}
           error(k) == IsError(judged[k[1]].commands[k[2]].result)
           alone(k) == <<k[2], "base">> \notin DOMAIN results[k[1]].sides /\ ~error(k)
           both == {k \in reported : ~alone(k)}
<1>1. CompareMean.cases \in {Cardinality(both), 0}
  BY DEF CompareMean, NoMean
<1>2. IsFiniteSet(reported)
  BY FiniteReported
<1> HIDE DEF reported, alone
<1>3. both \subseteq reported
  OBVIOUS
<1> HIDE DEF both
<1>4. Cardinality(both) \in Nat
  BY <1>2, <1>3, FS_Subset, FS_CardinalityType
<1>5. NoMean.cases = 0
  BY DEF NoMean
<1>6. RunMean.cases \in {Len(results), 0}
  BY DEF RunMean, NoMean
<1> QED
  BY <1>1, <1>4, <1>5, <1>6, CasesOf

MeanTyped == mean.cases \in Nat

(* In every state the mean is over a number of benchmarks.                 *)
LEMMA MeanOverCases == Spec => []MeanTyped
<1>1. Init => MeanTyped
  BY DEF Init, NoMean, MeanTyped
<1>2. IInv /\ MeanTyped /\ [Next]_vars => MeanTyped'
  <2> SUFFICES ASSUME IInv, MeanTyped, [Next]_vars PROVE MeanTyped'
    OBVIOUS
  <2>1. CASE JudgeMean
    <3>1. mean' = NoMean \/ mean' = CompareMean \/ mean' = RunMean
      BY <2>1 DEF JudgeMean
    <3> QED
      BY <3>1, MeanCases DEF MeanTyped
  <2>2. CASE ~JudgeMean
    <3>1. UNCHANGED mean
      BY <2>2 DEF Next, vars, Interrupt, Build, Measure, EndSuite, JudgeNext, Summarize, Report
    <3> QED
      BY <3>1 DEF MeanTyped
  <2> QED
    BY <2>1, <2>2
<1> QED
  BY <1>1, <1>2, JudgeInvariant, PTL DEF Spec

(* The failure of a benchmark weighs on every command of it.               *)
LEMMA FailureWeighs ==
  ASSUME IInv, NEW i \in DOMAIN judged, NEW c \in CommandsOf(i), results[i].failure # "none"
  PROVE  Severity(results[i].failure) <= Severity(judged[i].commands[c].result)
<1> DEFINE case == Cases[i]
           br == results[i]
           j == judged[i]
<1>1. br \in Measured(case) /\ IsJudged(case, br, j) /\ c \in Reported(br) /\ br.failure # "none"
  BY JudgedAt
<1> HIDE DEF case, br, j
<1>2. br.failure \in FailuresOf(case, br, c)
  BY <1>1, ReportedFailures
<1>3. br.failure \in Causes(case, br, c, j.commands[c].comparisons)
  BY <1>2 DEF Causes
<1>4. \A q \in Causes(case, br, c, j.commands[c].comparisons) :
        Severity(q) <= Severity(j.commands[c].result)
  BY <1>1, CommandResult
<1> QED
  BY <1>3, <1>4 DEF br, j

(* The result of the suite is the worst of what is counted.                *)
LEMMA SuiteWorst ==
  ASSUME IInv
  PROVE  /\ SuiteResult \in AllResults
         /\ SuiteResult # "pass" => \E k \in Counted : k[3] = SuiteResult
         /\ \A k \in Counted : k[3] # "none" =>
              k[3] \in AllResults /\ Severity(k[3]) <= Severity(SuiteResult)
         /\ \A i \in DOMAIN judged : judged[i].result \in AllResults
<1> DEFINE D == DOMAIN judged
           S == ({failure} \ {"none"}) \cup {judged[i].result : i \in D}
           B(i) == ({results[i].failure} \ {"none"})
                     \cup {judged[i].commands[c].result : c \in CommandsOf(i)}
<1>1. ASSUME NEW i \in D
      PROVE  /\ judged[i].result = Worst(B(i)) /\ B(i) \subseteq AllResults
             /\ results[i].failure \in {"none", "metric_error", "error"}
  <2>1. judged[i].result = Worst(B(i))
    BY JudgedAt DEF IsJudged
  <2>2. results[i].failure \in {"none", "metric_error", "error"}
    BY JudgedAt, MeasuredSides DEF Kinds
  <2>3. \A c \in CommandsOf(i) : judged[i].commands[c].result \in AllResults
    BY ResultType
  <2> QED
    BY <2>1, <2>2, <2>3 DEF AllResults
<1>2. ASSUME NEW i \in D
      PROVE  /\ judged[i].result \in B(i) \cup {"pass"} /\ judged[i].result \in AllResults
             /\ \A q \in B(i) : Severity(q) <= Severity(judged[i].result)
  <2> HIDE DEF B
  <2> QED
    BY <1>1, WorstOf
<1>3. failure \in {"none", "error"}
  BY DEF IInv, Inputs
<1>4. S \subseteq AllResults
  BY <1>2, <1>3 DEF AllResults
<1>5. SuiteResult = Worst(S)
  BY DEF SuiteResult
<1>6. /\ SuiteResult \in S \cup {"pass"} /\ SuiteResult \in AllResults
      /\ \A q \in S : Severity(q) <= Severity(SuiteResult)
  <2> HIDE DEF S
  <2> QED
    BY <1>4, <1>5, WorstOf
<1>7. ASSUME NEW i \in D, NEW q \in B(i)
      PROVE  q \in AllResults /\ Severity(q) <= Severity(SuiteResult)
  <2>1. Severity(q) <= Severity(judged[i].result) /\ Severity(judged[i].result) <= Severity(SuiteResult)
    BY <1>2, <1>6
  <2>2. q \in AllResults /\ judged[i].result \in AllResults
    BY <1>1, <1>2
  <2>3. Severity(q) \in 1..7 /\ Severity(judged[i].result) \in 1..7 /\ Severity(SuiteResult) \in 1..7
    BY <1>6, <2>2, SeverityOrders
  <2> QED
    BY <2>1, <2>2, <2>3
<1>8. ASSUME NEW k \in Counted, k[3] # "none"
      PROVE  k[3] \in AllResults /\ Severity(k[3]) <= Severity(SuiteResult)
  <2>1. CASE k[3] = failure
    BY <1>4, <1>6, <1>8, <2>1
  <2>2. ASSUME NEW i \in D, k[3] = results[i].failure
        PROVE  k[3] \in AllResults /\ Severity(k[3]) <= Severity(SuiteResult)
    BY <1>7, <1>8, <2>2
  <2>3. ASSUME NEW i \in D, NEW c \in CommandsOf(i), k[3] = judged[i].commands[c].result
        PROVE  k[3] \in AllResults /\ Severity(k[3]) <= Severity(SuiteResult)
    BY <1>7, <2>3
  <2> QED
    BY <2>1, <2>2, <2>3, CountedOf
<1>9. ASSUME NEW i \in D, NEW q \in B(i), q = judged[i].result
      PROVE  \E k \in Counted : k[3] = q
  <2>1. CASE \E c \in CommandsOf(i) : q = judged[i].commands[c].result
    BY <2>1, IsCounted
  <2>2. CASE /\ q = results[i].failure /\ q # "none"
             /\ \A c \in CommandsOf(i) : ~IsError(judged[i].commands[c].result)
    BY <2>2, IsCounted
  <2>3. CASE /\ q = results[i].failure /\ q # "none"
             /\ \E c \in CommandsOf(i) : IsError(judged[i].commands[c].result)
    <3>1. PICK c \in CommandsOf(i) : IsError(judged[i].commands[c].result)
      BY <2>3
    <3> DEFINE r == judged[i].commands[c].result
    <3>2. Severity(q) <= Severity(r)
      BY <2>3, FailureWeighs
    <3>3. r \in B(i)
      OBVIOUS
    <3>4. Severity(r) <= Severity(q) /\ r \in AllResults /\ q \in AllResults
      BY <1>1, <1>2, <1>9, <3>3
    <3> HIDE DEF r
    <3>5. Severity(q) \in 1..7 /\ Severity(r) \in 1..7
      BY <3>4, SeverityOrders
    <3>6. Severity(q) = Severity(r)
      BY <3>2, <3>4, <3>5
    <3>7. q = r
      BY <3>4, <3>6, SeverityOrders
    <3> QED
      BY <3>7, IsCounted DEF r
  <2> QED
    BY <2>1, <2>2, <2>3
<1>10. SuiteResult # "pass" => \E k \in Counted : k[3] = SuiteResult
  <2> SUFFICES ASSUME SuiteResult # "pass" PROVE \E k \in Counted : k[3] = SuiteResult
    OBVIOUS
  <2>1. CASE SuiteResult = failure
    BY <2>1, IsCounted
  <2>2. ASSUME NEW i \in D, SuiteResult = judged[i].result
        PROVE  \E k \in Counted : k[3] = SuiteResult
    BY <1>2, <1>9, <2>2
  <2> QED
    BY <1>6, <2>1, <2>2
<1> QED
  BY <1>2, <1>6, <1>8, <1>10

(* The status follows from the result of the suite.                        *)
LEMMA StatusOfResult ==
  ASSUME IInv
  PROVE  ExitCode = CASE SuiteResult = "error" -> "execution"
                      [] SuiteResult = "metric_error" -> "metric"
                      [] SuiteResult \in {"regression", "over_budget"} -> "failed"
                      [] SuiteResult = "inconclusive" /\ failOnInconclusive -> "failed"
                      [] OTHER -> "ok"
<1> DEFINE counted(r) == \E k \in Counted : k[3] = r
           s == SuiteResult
<1>1. s \in AllResults /\ (s # "pass" => counted(s))
  BY SuiteWorst
<1>2. \A r \in AllResults : counted(r) => Severity(r) <= Severity(s)
  BY SuiteWorst DEF AllResults
<1>3. /\ ExitCode \in {"ok", "failed", "metric", "execution"}
      /\ ExitCode = "execution" <=> counted("error")
      /\ ExitCode = "metric" <=> ~counted("error") /\ counted("metric_error")
      /\ ExitCode = "failed" <=>
           /\ ~counted("error") /\ ~counted("metric_error")
           /\ \/ counted("regression") \/ counted("over_budget")
              \/ counted("inconclusive") /\ failOnInconclusive
  BY ExitCodeOf
<1>4. failOnInconclusive \in BOOLEAN
  BY DEF IInv, Inputs
<1> HIDE DEF counted, s
<1>5. CASE s = "error"
  BY <1>1, <1>3, <1>5 DEF s
<1>6. CASE s = "metric_error"
  <2>1. ~counted("error")
    BY <1>2, <1>6, SeverityOf DEF AllResults
  <2> QED
    BY <1>1, <1>3, <1>6, <2>1 DEF s
<1>7. CASE s \in {"regression", "over_budget"}
  <2>1. ~counted("error") /\ ~counted("metric_error")
    BY <1>2, <1>7, SeverityOf DEF AllResults
  <2>2. ExitCode = "failed"
    BY <1>1, <1>3, <1>7, <2>1
  <2> QED
    BY <1>7, <2>2 DEF s
<1>8. CASE s \in {"pass", "improved", "inconclusive"}
  <2>1. ~counted("error") /\ ~counted("metric_error") /\ ~counted("regression") /\ ~counted("over_budget")
    BY <1>2, <1>8, SeverityOf DEF AllResults
  <2>2. counted("inconclusive") <=> s = "inconclusive"
    BY <1>1, <1>2, <1>8, SeverityOf DEF AllResults
  <2>3. ExitCode = IF s = "inconclusive" /\ failOnInconclusive THEN "failed" ELSE "ok"
    BY <1>3, <1>4, <2>1, <2>2
  <2> QED
    BY <1>4, <1>8, <2>3 DEF s
<1> QED
  BY <1>1, <1>5, <1>6, <1>7, <1>8 DEF AllResults

(* The checks of a command are those of its judgement.                     *)
LEMMA ChecksOf ==
  ASSUME IInv, NEW i \in DOMAIN judged, NEW c \in CommandsOf(i)
  PROVE  LET status(bud) == BudgetStatus(Cases[i], results[i].sides[<<c, "head">>], bud)
             comparisons == judged[i].commands[c].comparisons
         IN  /\ \A bud \in Cases[i].budgets :
                  bud.command = c => <<i, c, bud, status(bud)>> \in BudgetChecks
             /\ \A m \in DOMAIN comparisons : <<i, c, m, comparisons[m]>> \in ComparisonChecks
             /\ DOMAIN judged[i].commands[c].budgets = {bud \in Cases[i].budgets : bud.command = c}
             /\ \A bud \in DOMAIN judged[i].commands[c].budgets :
                  judged[i].commands[c].budgets[bud] = status(bud)
<1> DEFINE case == Cases[i]
           br == results[i]
           cmd == judged[i].commands[c]
           status(bud) == BudgetStatus(case, br.sides[<<c, "head">>], bud)
<1>1. br \in Measured(case) /\ IsJudged(case, br, judged[i]) /\ c \in Reported(br)
  BY JudgedAt
<1>2. cmd.budgets = BudgetsOf(case, br, c)
  BY <1>1, CommandResult
<1>3. /\ DOMAIN cmd.budgets = {bud \in case.budgets : bud.command = c}
      /\ \A bud \in DOMAIN cmd.budgets : cmd.budgets[bud] = status(bud)
  BY <1>2 DEF BudgetsOf
<1>4. \A bud \in DOMAIN cmd.budgets : <<i, c, bud, cmd.budgets[bud]>> \in BudgetChecks
  BY DEF BudgetChecks
<1>5. \A m \in DOMAIN cmd.comparisons : <<i, c, m, cmd.comparisons[m]>> \in ComparisonChecks
  BY DEF ComparisonChecks
<1> HIDE DEF status
<1>6. \A bud \in case.budgets : bud.command = c => <<i, c, bud, status(bud)>> \in BudgetChecks
  BY <1>3, <1>4
<1> QED
  BY <1>3, <1>5, <1>6 DEF status

(* A check is of a benchmark and a command of it.                          *)
LEMMA CheckOf ==
  /\ \A k \in BudgetChecks :
       \E i \in DOMAIN judged : \E c \in CommandsOf(i) : \E bud \in DOMAIN judged[i].commands[c].budgets :
         k = <<i, c, bud, judged[i].commands[c].budgets[bud]>>
  /\ \A k \in ComparisonChecks :
       \E i \in DOMAIN judged : \E c \in CommandsOf(i) : \E m \in DOMAIN judged[i].commands[c].comparisons :
         k = <<i, c, m, judged[i].commands[c].comparisons[m]>>
BY DEF BudgetChecks, ComparisonChecks

(* A gated verdict is annotated at its command.                            *)
LEMMA VerdictNoted ==
  ASSUME IInv, NEW i \in DOMAIN judged, NEW c \in CommandsOf(i), NEW r,
         judged[i].commands[c].result = r, r \in {"regression", "inconclusive"}
  PROVE  <<i, c>> \in NotesOf(ComparisonChecks, {r}, TRUE)
<1>1. PICK m \in Cases[i].gates \cap DOMAIN judged[i].commands[c].comparisons :
        judged[i].commands[c].comparisons[m] = r
  BY GatedCause
<1>2. <<i, c, m, r>> \in ComparisonChecks
  BY <1>1, ChecksOf
<1>3. m # "throughput"
  BY <1>1, JudgedAt, JudgeAssumption
<1> DEFINE k == <<i, c, m, r>>
<1>4. k[1] = i /\ k[2] = c /\ k[3] = m /\ k[4] = r /\ IsGated(k)
  BY <1>1 DEF IsGated
<1> HIDE DEF k
<1>5. k \in {x \in ComparisonChecks : x[4] \in {r} /\ x[3] # "throughput" /\ (IsGated(x) <=> TRUE)}
  BY <1>2, <1>3, <1>4 DEF k
<1>6. <<k[1], k[2]>> \in NotesOf(ComparisonChecks, {r}, TRUE)
  BY <1>5 DEF NotesOf
<1> QED
  BY <1>4, <1>6

(* A failure is annotated where it happened.                               *)
LEMMA FailureNoted ==
  /\ failure # "none" => <<0, "suite">> \in FailureNotes
  /\ \A i \in DOMAIN judged : results[i].failure # "none" => <<i, "benchmark">> \in FailureNotes
  /\ \A i \in DOMAIN judged : \A u \in DOMAIN results[i].sides :
       results[i].sides[u].failure # "none" => <<i, u[1]>> \in FailureNotes
BY DEF FailureNotes

(* A command that fails the job is annotated as an error, itself or as its *)
(* benchmark.                                                              *)
LEMMA CommandNoted ==
  ASSUME IInv, NEW i \in DOMAIN judged, NEW c \in CommandsOf(i),
         judged[i].commands[c].result \in {"over_budget", "regression", "metric_error", "error"}
  PROVE  <<i, c>> \in Annotations.error \/ <<i, "benchmark">> \in Annotations.error
<1> DEFINE case == Cases[i]
           br == results[i]
           j == judged[i]
           r == j.commands[c].result
           h == br.sides[<<c, "head">>]
           overBudget == {<<k[1], k[2]>> : k \in {x \in BudgetChecks : x[4] = "fail"}}
<1>1. /\ case \in ToSet(Cases) /\ br \in Measured(case) /\ IsJudged(case, br, j) /\ c \in Reported(br)
      /\ r \in {"over_budget", "regression", "metric_error", "error"}
  BY JudgedAt
<1>2. Annotations.error = ((FailureNotes \cup AtFloorNotes) \cup overBudget)
                             \cup NotesOf(ComparisonChecks, {"regression"}, TRUE)
  BY DEF Annotations
<1>3. \A bud \in case.budgets :
        bud.command = c => <<i, c, bud, BudgetStatus(case, h, bud)>> \in BudgetChecks
  BY ChecksOf
<1>4. CASE r = "over_budget"
  <2>1. PICK bud \in case.budgets :
          bud.command = c /\ BudgetResult(BudgetStatus(case, h, bud)) = "over_budget"
    <3> HIDE DEF case, br, j
    <3>1. \E bud \in case.budgets :
            bud.command = c /\ BudgetResult(BudgetStatus(case, h, bud)) = "over_budget"
      BY <1>1, <1>4, CommandCause
    <3> QED
      BY <3>1
  <2>2. BudgetStatus(case, h, bud) = "fail"
    BY <2>1 DEF BudgetResult
  <2>3. <<i, c, bud, "fail">> \in BudgetChecks
    BY <1>3, <2>1, <2>2
  <2>4. <<i, c>> \in overBudget
    <3> DEFINE k == <<i, c, bud, "fail">>
    <3>1. k \in BudgetChecks /\ k[4] = "fail" /\ k[1] = i /\ k[2] = c
      BY <2>3
    <3> HIDE DEF k
    <3> QED
      BY <3>1
  <2> QED
    BY <1>2, <2>4
<1>5. CASE r = "regression"
  <2>1. <<i, c>> \in NotesOf(ComparisonChecks, {"regression"}, TRUE)
    BY <1>5, VerdictNoted
  <2> QED
    BY <1>2, <2>1
<1>10. ASSUME NEW f \in FailuresOf(case, br, c)
       PROVE  \/ br.failure = f
              \/ \E s \in SidesOf(ModeOf(case, c)) :
                   <<c, s>> \in DOMAIN br.sides /\ br.sides[<<c, s>>].failure = f
  <2> HIDE DEF case, br, j
  <2>1. \A g \in FailuresOf(case, br, c) :
          \/ br.failure = g
          \/ \E s \in SidesOf(ModeOf(case, c)) :
               <<c, s>> \in DOMAIN br.sides /\ br.sides[<<c, s>>].failure = g
    BY <1>1, ReportedFailures
  <2> QED
    BY <2>1
<1>6. ASSUME NEW f \in FailuresOf(case, br, c)
      PROVE  <<i, c>> \in FailureNotes \/ <<i, "benchmark">> \in FailureNotes
  <2>1. f # "none"
    BY <1>1, ReportedFailures
  <2>2. \/ br.failure = f
        \/ \E s \in SidesOf(ModeOf(case, c)) :
             <<c, s>> \in DOMAIN br.sides /\ br.sides[<<c, s>>].failure = f
    BY <1>10
  <2>3. CASE br.failure = f
    BY <2>1, <2>3, FailureNoted
  <2>4. ASSUME NEW s, <<c, s>> \in DOMAIN br.sides, br.sides[<<c, s>>].failure = f
        PROVE  <<i, c>> \in FailureNotes
    <3> DEFINE u == <<c, s>>
    <3>1. u \in DOMAIN br.sides /\ br.sides[u].failure # "none" /\ u[1] = c
      BY <2>1, <2>4
    <3> HIDE DEF u
    <3> QED
      BY <3>1, FailureNoted
  <2> QED
    BY <2>2, <2>3, <2>4
<1>7. CASE r = "metric_error" /\ FailuresOf(case, br, c) = {}
  <2>1. PICK bud \in case.budgets : bud.command = c /\ BudgetStatus(case, h, bud) = "at_floor"
    <3> HIDE DEF case, br, j
    <3> QED
      BY <1>1, <1>7, OpenBudget
  <2>2. <<i, c, bud, "at_floor">> \in BudgetChecks
    BY <1>3, <2>1
  <2>3. <<i, c>> \in AtFloorNotes
    <3> DEFINE k == <<i, c, bud, "at_floor">>
    <3>1. /\ k \in BudgetChecks /\ k[4] = "at_floor" /\ k[1] = i /\ k[2] = c
          /\ judged[k[1]].commands[k[2]].result = "metric_error"
      BY <1>7, <2>2
    <3> HIDE DEF k
    <3>2. <<k[1], k[2]>> \in AtFloorNotes
      BY <3>1 DEF AtFloorNotes
    <3> QED
      BY <3>1, <3>2
  <2> QED
    BY <1>2, <2>3
<1>8. CASE r = "error"
  <2>1. "error" \in FailuresOf(case, br, c)
    <3> HIDE DEF case, br, j
    <3> DEFINE overrun == \E bud \in case.budgets :
                            bud.command = c /\ BudgetResult(BudgetStatus(case, h, bud)) = "over_budget"
    <3>1. /\ j.commands[c].result = "over_budget" => overrun
          /\ j.commands[c].result = "error" => "error" \in FailuresOf(case, br, c)
      BY <1>1, CommandCause
    <3> QED
      BY <1>8, <3>1
  <2> QED
    BY <1>2, <1>6, <2>1
<1>9. CASE r = "metric_error" /\ FailuresOf(case, br, c) # {}
  BY <1>2, <1>6, <1>9
<1> QED
  BY <1>1, <1>4, <1>5, <1>7, <1>8, <1>9

(* A job that passes has no error to annotate.                             *)
LEMMA PassIsSilent ==
  ASSUME IInv, exit = "ok"
  PROVE  Annotations.error = {}
<1>1. /\ failure = "none" /\ DOMAIN judged = DOMAIN results
      /\ \A i \in DOMAIN judged :
           /\ results[i].failure = "none"
           /\ \A c \in CommandsOf(i) :
                judged[i].commands[c].result \in {"pass", "improved", "inconclusive"}
  BY OkPasses
<1>2. ASSUME NEW i \in DOMAIN judged, NEW c \in CommandsOf(i)
      PROVE  /\ FailuresOf(Cases[i], results[i], c) = {}
             /\ \A bud \in DOMAIN judged[i].commands[c].budgets :
                  judged[i].commands[c].budgets[bud] \notin {"fail", "at_floor"}
             /\ "regression" \notin Gated(Cases[i], judged[i].commands[c].comparisons)
  <2> DEFINE case == Cases[i]
             br == results[i]
             j == judged[i]
  <2>1. /\ br \in Measured(case) /\ IsJudged(case, br, j) /\ c \in Reported(br)
        /\ j.commands[c].result \in {"pass", "improved", "inconclusive"}
    BY <1>1, JudgedAt
  <2>2. /\ FailuresOf(case, br, c) = {}
        /\ \A bud \in case.budgets : bud.command = c =>
             BudgetStatus(case, br.sides[<<c, "head">>], bud) \in {"pass", "skipped"}
        /\ "regression" \notin Gated(case, j.commands[c].comparisons)
    <3> HIDE DEF case, br, j
    <3> QED
      BY <2>1, CommandPassed
  <2>3. /\ DOMAIN j.commands[c].budgets = {bud \in case.budgets : bud.command = c}
        /\ \A bud \in DOMAIN j.commands[c].budgets :
             j.commands[c].budgets[bud] = BudgetStatus(case, br.sides[<<c, "head">>], bud)
    BY ChecksOf
  <2>4. \A bud \in DOMAIN j.commands[c].budgets : j.commands[c].budgets[bud] \in {"pass", "skipped"}
    BY <2>2, <2>3
  <2> QED
    BY <2>2, <2>4
<1>3. FailureNotes = {}
  <2>1. ASSUME NEW i \in DOMAIN judged, NEW u \in DOMAIN results[i].sides
        PROVE  results[i].sides[u].failure = "none"
    <3> DEFINE case == Cases[i]
               br == results[i]
    <3>1. br \in Measured(case) /\ CommandsOf(i) = Reported(br)
      BY JudgedAt
    <3>2. \A c \in Reported(br) : FailuresOf(case, br, c) = {}
      BY <1>2, <3>1
    <3>3. u \in DOMAIN br.sides
      OBVIOUS
    <3> HIDE DEF case, br
    <3>4. u = <<u[1], u[2]>> /\ u[1] \in Reported(br) /\ u[2] \in SidesOf(ModeOf(case, u[1]))
      BY <3>1, <3>3, UnitReported
    <3>5. br.sides[<<u[1], u[2]>>].failure # "none" =>
            br.sides[<<u[1], u[2]>>].failure \in FailuresOf(case, br, u[1])
      BY <3>1, <3>4, ReportedFailures
    <3>6. br.sides[u].failure = "none"
      BY <3>2, <3>4, <3>5
    <3> QED
      BY <3>6 DEF br
  <2> QED
    BY <1>1, <2>1 DEF FailureNotes
<1>4. \A k \in BudgetChecks : k[4] \notin {"fail", "at_floor"}
  <2> SUFFICES ASSUME NEW k \in BudgetChecks PROVE k[4] \notin {"fail", "at_floor"}
    OBVIOUS
  <2>1. PICK i \in DOMAIN judged :
          \E c \in CommandsOf(i) : \E bud \in DOMAIN judged[i].commands[c].budgets :
            k = <<i, c, bud, judged[i].commands[c].budgets[bud]>>
    BY CheckOf
  <2>2. PICK c \in CommandsOf(i) : \E bud \in DOMAIN judged[i].commands[c].budgets :
            k = <<i, c, bud, judged[i].commands[c].budgets[bud]>>
    BY <2>1
  <2> QED
    BY <1>2, <2>2
<1>5. \A k \in ComparisonChecks : ~(k[4] = "regression" /\ IsGated(k))
  <2> SUFFICES ASSUME NEW k \in ComparisonChecks, k[4] = "regression", IsGated(k) PROVE FALSE
    OBVIOUS
  <2>1. PICK i \in DOMAIN judged :
          \E c \in CommandsOf(i) : \E m \in DOMAIN judged[i].commands[c].comparisons :
            k = <<i, c, m, judged[i].commands[c].comparisons[m]>>
    BY CheckOf
  <2>2. PICK c \in CommandsOf(i) : \E m \in DOMAIN judged[i].commands[c].comparisons :
            k = <<i, c, m, judged[i].commands[c].comparisons[m]>>
    BY <2>1
  <2>3. PICK m \in DOMAIN judged[i].commands[c].comparisons :
            k = <<i, c, m, judged[i].commands[c].comparisons[m]>>
    BY <2>2
  <2>4. m \in Cases[i].gates /\ judged[i].commands[c].comparisons[m] = "regression"
    BY <2>3 DEF IsGated
  <2>5. "regression" \in Gated(Cases[i], judged[i].commands[c].comparisons)
    BY <2>4 DEF Gated
  <2> QED
    BY <1>2, <2>5
<1>6. AtFloorNotes = {}
  BY <1>4 DEF AtFloorNotes
<1>7. NotesOf(ComparisonChecks, {"regression"}, TRUE) = {}
  BY <1>5 DEF NotesOf
<1>8. {<<k[1], k[2]>> : k \in {x \in BudgetChecks : x[4] = "fail"}} = {}
  BY <1>4
<1>9. Annotations.error = ((FailureNotes \cup AtFloorNotes)
                             \cup {<<k[1], k[2]>> : k \in {x \in BudgetChecks : x[4] = "fail"}})
                             \cup NotesOf(ComparisonChecks, {"regression"}, TRUE)
  BY DEF Annotations
<1> QED
  BY <1>3, <1>6, <1>7, <1>8, <1>9

(* A job that fails without an interrupt is told why.                      *)
LEMMA FailureIsTold ==
  ASSUME IInv, ExitCode # "ok"
  PROVE  Annotations.error \cup Annotations.warning # {}
<1>1. PICK k \in Counted : k[3] \in {"error", "metric_error", "regression", "over_budget", "inconclusive"}
  BY ExitCodeOf
<1>2. FailureNotes \subseteq Annotations.error
      /\ NotesOf(ComparisonChecks, {"inconclusive"}, TRUE) = Annotations.warning
  BY DEF Annotations
<1>3. CASE k[3] = failure
  BY <1>1, <1>2, <1>3, FailureNoted
<1>4. CASE \E i \in DOMAIN judged : k[3] = results[i].failure
  BY <1>1, <1>2, <1>4, FailureNoted
<1>5. ASSUME NEW i \in DOMAIN judged, NEW c \in CommandsOf(i), k[3] = judged[i].commands[c].result
      PROVE  Annotations.error \cup Annotations.warning # {}
  <2>1. CASE k[3] = "inconclusive"
    BY <1>2, <1>5, <2>1, VerdictNoted
  <2>2. CASE k[3] # "inconclusive"
    BY <1>1, <1>5, <2>2, CommandNoted
  <2> QED
    BY <2>1, <2>2
<1> QED
  BY <1>3, <1>4, <1>5, CountedOf

(* The status, the result of the suite and the annotations agree           *)
(* (report.judgeSuite, report.summarize, report.WriteAnnotations).         *)
THEOREM OutputsHold == Spec => []OutputsAgree
<1>1. IInv /\ MeanTyped => TypeOK
  <2> SUFFICES ASSUME IInv, MeanTyped PROVE TypeOK
    OBVIOUS
  <2>1. \A i \in DOMAIN judged : judged[i].result \in ToSet(Results)
    BY SuiteWorst, SeverityOf DEF AllResults
  <2>2. ASSUME NEW i \in DOMAIN judged, NEW c \in CommandsOf(i)
        PROVE  /\ judged[i].commands[c].result \in ToSet(Results)
               /\ Range(judged[i].commands[c].comparisons) \subseteq Verdicts
    <3>1. judged[i].commands[c].result \in ToSet(Results)
      BY ResultType, SeverityOf DEF AllResults
    <3>2. \A m \in DOMAIN judged[i].commands[c].comparisons : judged[i].commands[c].comparisons[m] \in Verdicts
      BY JudgedAt, CommandResult
    <3> QED
      BY <3>1, <3>2 DEF Range
  <2>3. exit \in {"none", "ok", "failed", "metric", "execution"}
    <3>1. ExitCode \in {"ok", "failed", "metric", "execution"}
      BY ExitCodeOf
    <3>2. exit = "none" \/ exit = "execution" \/ exit = ExitCode
      BY DEF IInv, Told
    <3> QED
      BY <3>1, <3>2
  <2>4. mean.cases \in Nat
    BY DEF MeanTyped
  <2>5. pc \in {"build", "measure", "judge", "summarize", "report", "done"}
    BY DEF IInv, Ending
  <2> QED
    BY <2>1, <2>2, <2>3, <2>4, <2>5 DEF TypeOK
<1>2. IInv /\ TypeOK => OutputsAgree
  <2> SUFFICES ASSUME IInv, TypeOK PROVE OutputsAgree
    OBVIOUS
  <2>1. pc = "done" => /\ notes = Annotations
                       /\ exit = "execution" \/ exit = ExitCode
                       /\ ~interrupted => exit = ExitCode
    BY DEF IInv, Told
  <2>2. pc = "done" /\ ~interrupted =>
          exit = CASE SuiteResult = "error" -> "execution"
                   [] SuiteResult = "metric_error" -> "metric"
                   [] SuiteResult \in {"regression", "over_budget"} -> "failed"
                   [] SuiteResult = "inconclusive" /\ failOnInconclusive -> "failed"
                   [] OTHER -> "ok"
    BY <2>1, StatusOfResult
  <2>3. ASSUME pc = "done", failure # "none" PROVE <<0, "suite">> \in notes.error
    <3>1. FailureNotes \subseteq Annotations.error
      BY DEF Annotations
    <3> QED
      BY <2>1, <2>3, <3>1, FailureNoted
  <2>4. ASSUME pc = "done", NEW i \in DOMAIN judged, NEW c \in CommandsOf(i),
               judged[i].commands[c].result \in {"over_budget", "regression", "metric_error", "error"}
        PROVE  {<<i, c>>, <<i, "benchmark">>} \cap notes.error # {}
    BY <2>1, <2>4, CommandNoted
  <2>5. ASSUME pc = "done", exit = "ok" PROVE notes.error = {}
    BY <2>1, <2>5, PassIsSilent
  <2>6. ASSUME pc = "done", exit # "ok", ~interrupted PROVE notes.error \cup notes.warning # {}
    BY <2>1, <2>6, FailureIsTold
  <2> QED
    BY <2>2, <2>3, <2>4, <2>5, <2>6 DEF OutputsAgree
<1> QED
  BY <1>1, <1>2, JudgeInvariant, MeanOverCases, PTL

-----------------------------------------------------------------------------
(* Functions that are computed step by step, and smallest counterexamples. *)

(* Some numbers, if there are any, have a smallest one.                    *)
LEMMA SmallestNumber ==
  ASSUME NEW T \in SUBSET Nat, T # {}
  PROVE  \E m \in T : \A k \in T : m <= k
<1> DEFINE R == OpToRel(<, Nat)
<1>1. IsWellFoundedOn(R, Nat)
  BY NatLessThanWellFounded
<1>2. \A k, m \in Nat : k < m => <<k, m>> \in R
  BY DEF OpToRel
<1> HIDE DEF R
<1>3. PICK m \in T : \A k \in T : <<k, m>> \notin R
  BY <1>1, WFMin
<1>4. \A k \in T : m <= k
  <2> SUFFICES ASSUME NEW k \in T, ~(m <= k) PROVE FALSE
    OBVIOUS
  <2>1. k \in Nat /\ m \in Nat /\ k < m
    OBVIOUS
  <2> QED
    BY <1>2, <1>3, <2>1
<1> QED
  BY <1>4

(* The steps that compute a value of S from the one before, N times.       *)
Steps(S, N) == [S \X (1..N) -> S]

(* What is computed step by step, from a base, is a function.              *)
LEMMA StepByStep ==
  ASSUME NEW S, NEW base \in S, NEW N \in Nat, NEW step \in Steps(S, N)
  PROVE  \E f \in [0..N -> S] :
           f[0] = base /\ \A n \in 1..N : f[n] = step[<<f[n - 1], n>>]
<1> DEFINE Computes(f, m) ==
             /\ f \in [0..m -> S] /\ f[0] = base
             /\ \A n \in 1..m : f[n] = step[<<f[n - 1], n>>]
           T == {m \in 0..N : ~\E f : Computes(f, m)}
<1>0. step \in [S \X (1..N) -> S]
  BY DEF Steps
<1>1. T = {}
  <2> SUFFICES ASSUME T # {} PROVE FALSE
    OBVIOUS
  <2>1. PICK m \in T : \A k \in T : m <= k
    <3>1. T \in SUBSET Nat
      OBVIOUS
    <3> HIDE DEF T
    <3> QED
      BY <3>1, SmallestNumber
  <2>2. m # 0
    <3> DEFINE f == [n \in 0..0 |-> base]
    <3>1. Computes(f, 0)
      OBVIOUS
    <3> QED
      BY <3>1
  <2>3. m - 1 \in 0..N /\ m - 1 \notin T /\ m \in 1..N
    <3>1. m \in 0..N
      OBVIOUS
    <3> HIDE DEF T
    <3>2. m - 1 \in 0..N /\ m \in 1..N /\ ~(m <= m - 1)
      BY <2>2, <3>1
    <3> QED
      BY <2>1, <3>2
  <2>4. PICK f : Computes(f, m - 1)
    BY <2>3
  <2> DEFINE g == [n \in 0..m |-> IF n = m THEN step[<<f[m - 1], m>>] ELSE f[n]]
  <2>5. f[m - 1] \in S /\ step[<<f[m - 1], m>>] \in S
    BY <1>0, <2>3, <2>4
  <2>6. g \in [0..m -> S] /\ g[0] = base
    BY <2>2, <2>3, <2>4, <2>5
  <2>7. ASSUME NEW n \in 1..m PROVE g[n] = step[<<g[n - 1], n>>]
    <3>1. CASE n = m
      <4>1. m \in 0..m /\ m - 1 \in 0..m /\ m - 1 # m
        BY <2>3
      <4>2. g[m] = step[<<f[m - 1], m>>] /\ g[m - 1] = f[m - 1]
        BY <4>1
      <4> HIDE DEF g
      <4> QED
        BY <3>1, <4>2
    <3>2. CASE n # m
      <4>1. n \in 1..(m - 1) /\ n - 1 \in 0..m /\ n - 1 # m /\ n \in 0..m
        BY <3>2, <2>3
      <4> QED
        BY <4>1, <2>4, <3>2
    <3> QED
      BY <3>1, <3>2
  <2>8. Computes(g, m)
    BY <2>6, <2>7
  <2> QED
    BY <2>1, <2>8
<1>2. PICK f : Computes(f, N)
  <2>1. N \in 0..N /\ N \notin T
    BY <1>1
  <2> HIDE DEF Computes
  <2> QED
    BY <2>1
<1> QED
  BY <1>2

(* The product of some numbers is what its steps are.                      *)
LEMMA ProductSteps ==
  ASSUME NEW N \in Nat, NEW factors \in [1..N -> Nat]
  PROVE  \E p \in [0..N -> Nat] :
           /\ p[0] = 1 /\ Product(factors) = p[N]
           /\ \A n \in 1..N : p[n] = p[n - 1] * factors[n]
<1> DEFINE step == [x \in Nat \X (1..N) |-> x[1] * factors[x[2]]]
           Is(p) == p = [n \in 0..N |-> IF n = 0 THEN 1 ELSE p[n - 1] * factors[n]]
<1>1. step \in [Nat \X (1..N) -> Nat]
  OBVIOUS
<1>2. PICK f \in [0..N -> Nat] : f[0] = 1 /\ \A n \in 1..N : f[n] = step[<<f[n - 1], n>>]
  <2> DEFINE base == 1
             S == Nat
  <2>1. base \in S /\ step \in Steps(S, N)
    BY <1>1 DEF Steps
  <2> HIDE DEF step, base, S
  <2>2. \E f \in [0..N -> S] : f[0] = base /\ \A n \in 1..N : f[n] = step[<<f[n - 1], n>>]
    BY <2>1, StepByStep
  <2> QED
    BY <2>2 DEF base, S
<1>3. \A n \in 1..N : step[<<f[n - 1], n>>] = f[n - 1] * factors[n]
  <2> SUFFICES ASSUME NEW n \in 1..N PROVE step[<<f[n - 1], n>>] = f[n - 1] * factors[n]
    OBVIOUS
  <2>1. f[n - 1] \in Nat
    OBVIOUS
  <2> QED
    BY <2>1
<1> HIDE DEF step
<1>4. Is(f)
  <2>1. \A n \in 0..N : f[n] = IF n = 0 THEN 1 ELSE f[n - 1] * factors[n]
    <3> SUFFICES ASSUME NEW n \in 0..N PROVE f[n] = IF n = 0 THEN 1 ELSE f[n - 1] * factors[n]
      OBVIOUS
    <3>1. CASE n = 0
      BY <1>2, <3>1
    <3>2. CASE n \in 1..N
      BY <1>2, <1>3, <3>2
    <3> QED
      BY <3>1, <3>2
  <2> QED
    BY <2>1
<1> DEFINE p == CHOOSE g : Is(g)
<1>5. Is(p)
  <2> HIDE DEF Is
  <2> QED
    BY <1>4
<1>6. Product(factors) = p[N]
  <2>1. Len(factors) = N
    OBVIOUS
  <2> QED
    BY <2>1 DEF Product
<1> HIDE DEF p
<1> DEFINE T == {n \in 0..N : p[n] \notin Nat}
<1>7. T = {}
  <2> SUFFICES ASSUME T # {} PROVE FALSE
    OBVIOUS
  <2>1. PICK m \in T : \A k \in T : m <= k
    <3>1. T \in SUBSET Nat
      OBVIOUS
    <3> HIDE DEF T
    <3> QED
      BY <3>1, SmallestNumber
  <2>2. m # 0
    BY <1>5
  <2>3. m - 1 \in 0..N /\ m - 1 \notin T /\ m \in 1..N
    BY <2>1, <2>2
  <2>4. p[m] = p[m - 1] * factors[m]
    BY <1>5, <2>3
  <2>5. p[m - 1] \in Nat /\ factors[m] \in Nat
    BY <2>3
  <2>6. p[m] \in Nat
    BY <2>4, <2>5
  <2> QED
    BY <2>6
<1>8. p \in [0..N -> Nat] /\ p[0] = 1
  <2>1. DOMAIN p = 0..N /\ p = [n \in 0..N |-> p[n]] /\ p[0] = 1
    BY <1>5
  <2>2. \A n \in 0..N : p[n] \in Nat
    BY <1>7
  <2> HIDE DEF Is, T
  <2> QED
    BY <2>1, <2>2
<1>9. \A n \in 1..N : p[n] = p[n - 1] * factors[n]
  BY <1>5
<1> QED
  BY <1>6, <1>8, <1>9

(* A product of numbers grows with each of them.                           *)
LEMMA ProductOrder ==
  ASSUME NEW N \in Nat, NEW low \in [1..N -> Nat], NEW high \in [1..N -> Nat],
         \A n \in 1..N : low[n] <= high[n]
  PROVE  /\ Product(low) \in Nat /\ Product(high) \in Nat
         /\ Product(low) <= Product(high)
<1>1. PICK p \in [0..N -> Nat] : /\ p[0] = 1 /\ Product(low) = p[N]
                                 /\ \A n \in 1..N : p[n] = p[n - 1] * low[n]
  BY ProductSteps
<1>2. PICK q \in [0..N -> Nat] : /\ q[0] = 1 /\ Product(high) = q[N]
                                 /\ \A n \in 1..N : q[n] = q[n - 1] * high[n]
  BY ProductSteps
<1> DEFINE T == {n \in 0..N : ~(p[n] <= q[n])}
<1>3. T = {}
  <2> SUFFICES ASSUME T # {} PROVE FALSE
    OBVIOUS
  <2>1. PICK m \in T : \A k \in T : m <= k
    <3>1. T \in SUBSET Nat
      OBVIOUS
    <3> HIDE DEF T
    <3> QED
      BY <3>1, SmallestNumber
  <2>2. m # 0
    BY <1>1, <1>2
  <2>3. m - 1 \in 0..N /\ m - 1 \notin T /\ m \in 1..N
    BY <2>1, <2>2
  <2>4. p[m] = p[m - 1] * low[m] /\ q[m] = q[m - 1] * high[m]
    BY <1>1, <1>2, <2>3
  <2>5. p[m - 1] \in Nat /\ q[m - 1] \in Nat /\ low[m] \in Nat /\ high[m] \in Nat
    BY <2>3
  <2>6. p[m - 1] <= q[m - 1] /\ low[m] <= high[m]
    BY <2>3
  <2>7. \A a, b, c, d \in Nat : a <= b /\ c <= d => a * c <= b * d
    <3> SUFFICES ASSUME NEW a \in Nat, NEW b \in Nat, NEW c \in Nat, NEW d \in Nat, a <= b, c <= d
                 PROVE  a * c <= b * d
      OBVIOUS
    <3> DEFINE x == a * c
               y == b * c
               z == b * d
    <3>1. x <= y /\ x \in Nat /\ y \in Nat
      OBVIOUS
    <3>2. y <= z /\ z \in Nat
      OBVIOUS
    <3> HIDE DEF x, y, z
    <3>3. x <= z
      BY <3>1, <3>2
    <3> QED
      BY <3>3 DEF x, z
  <2>8. p[m - 1] * low[m] <= q[m - 1] * high[m]
    BY <2>5, <2>6, <2>7
  <2> QED
    BY <2>4, <2>8
<1>4. p[N] <= q[N] /\ p[N] \in Nat /\ q[N] \in Nat
  <2>1. N \in 0..N
    OBVIOUS
  <2> QED
    BY <1>3, <2>1
<1> QED
  BY <1>1, <1>2, <1>4

(* A product of positive numbers is positive.                              *)
LEMMA ProductPositive ==
  ASSUME NEW N \in Nat, NEW factors \in [1..N -> Nat], \A n \in 1..N : factors[n] > 0
  PROVE  Product(factors) \in Nat /\ Product(factors) > 0
<1>1. PICK p \in [0..N -> Nat] : /\ p[0] = 1 /\ Product(factors) = p[N]
                                 /\ \A n \in 1..N : p[n] = p[n - 1] * factors[n]
  BY ProductSteps
<1> DEFINE T == {n \in 0..N : p[n] = 0}
<1>2. T = {}
  <2> SUFFICES ASSUME T # {} PROVE FALSE
    OBVIOUS
  <2>1. PICK m \in T : \A k \in T : m <= k
    <3>1. T \in SUBSET Nat
      OBVIOUS
    <3> HIDE DEF T
    <3> QED
      BY <3>1, SmallestNumber
  <2>2. m # 0
    BY <1>1
  <2>3. m - 1 \in 0..N /\ m - 1 \notin T /\ m \in 1..N
    BY <2>1, <2>2
  <2>4. p[m - 1] * factors[m] = 0
    BY <1>1, <2>3
  <2>5. p[m - 1] \in Nat /\ p[m - 1] # 0 /\ factors[m] \in Nat /\ factors[m] # 0
    BY <2>3
  <2>6. \A a, b \in Nat : a * b = 0 => a = 0 \/ b = 0
    OBVIOUS
  <2> QED
    BY <2>4, <2>5, <2>6
<1>3. p[N] \in Nat /\ p[N] # 0
  <2>1. N \in 0..N
    OBVIOUS
  <2> QED
    BY <1>2, <2>1
<1> QED
  BY <1>1, <1>3

(* The latency of a side that completed is a number; there is none else.   *)
LEMMA LatencyRange ==
  ASSUME NEW case, NEW br \in Measured(case), NEW c, NEW side
  PROVE  /\ LatencyOf(br, c, side) \in Nat \cup {-1}
         /\ LatencyOf(br, c, side) >= 0 =>
              /\ <<c, side>> \in DOMAIN br.sides /\ c \in Reported(br)
              /\ br.sides[<<c, side>>].failure = "none" /\ br.sides[<<c, side>>].ran
<1>1. CASE /\ <<c, side>> \in DOMAIN br.sides /\ br.sides[<<c, side>>].failure = "none"
           /\ br.sides[<<c, side>>].ran
  <2> DEFINE u == <<c, side>>
  <2>1. u \in DOMAIN br.sides /\ u[1] = c /\ LatencyOf(br, c, side) = br.sides[u].latency
    BY <1>1 DEF LatencyOf
  <2> HIDE DEF u
  <2>2. br.sides[u].latency \in Nat /\ c \in Reported(br)
    BY <2>1, UnitReported, MeasurementType
  <2> QED
    BY <1>1, <2>1, <2>2
<1>2. CASE ~(/\ <<c, side>> \in DOMAIN br.sides /\ br.sides[<<c, side>>].failure = "none"
             /\ br.sides[<<c, side>>].ran)
  <2>1. LatencyOf(br, c, side) = -1
    BY <1>2 DEF LatencyOf
  <2> QED
    BY <2>1
<1> QED
  BY <1>1, <1>2

(* When no command of a benchmark has a latency of 0, none of them is      *)
(* faster than its fastest.                                                *)
LEMMA FastestIsFastest ==
  ASSUME NEW case \in ToSet(Cases), NEW br \in Measured(case),
         \A c \in ToSet(case.commands) : LatencyOf(br, c, "head") # 0
  PROVE  /\ Fastest(case, br) \in Nat
         /\ \A c \in ToSet(case.commands) :
              LatencyOf(br, c, "head") >= 0 => Fastest(case, br) <= LatencyOf(br, c, "head")
<1> DEFINE N == Len(case.commands)
           V == [n \in 1..N |-> LatencyOf(br, case.commands[n], "head")]
           After(f, n) == IF V[n] >= 0 /\ (f = 0 \/ V[n] < f) THEN V[n] ELSE f
           step == [x \in Nat \X (1..N) |-> After(x[1], x[2])]
           Is(f) == f = [n \in 0..N |-> IF n = 0 THEN 0 ELSE
                           LET v == LatencyOf(br, case.commands[n], "head")
                               g == f[n - 1]
                           IN IF v >= 0 /\ (g = 0 \/ v < g) THEN v ELSE g]
<1>1. N \in Nat /\ DOMAIN case.commands = 1..N
  BY JudgeAssumption, SeqDomain DEF IsSeq
<1>2. \A n \in 1..N : V[n] \in Nat \cup {-1}
  BY LatencyRange
<1>3. \A n \in 1..N : V[n] # 0
  BY <1>1 DEF ToSet
<1>4. \A f \in Nat, n \in 1..N : After(f, n) \in Nat
  <2> HIDE DEF V
  <2> QED
    BY <1>2
<1>5. PICK f \in [0..N -> Nat] : f[0] = 0 /\ \A n \in 1..N : f[n] = step[<<f[n - 1], n>>]
  <2> DEFINE base == 0
             S == Nat
  <2>1. base \in S /\ step \in Steps(S, N)
    <3> HIDE DEF After, V, N
    <3> QED
      BY <1>4 DEF Steps
  <2> HIDE DEF step, base, S, N
  <2>2. \E f \in [0..N -> S] : f[0] = base /\ \A n \in 1..N : f[n] = step[<<f[n - 1], n>>]
    BY <1>1, <2>1, StepByStep
  <2> QED
    BY <2>2 DEF base, S
<1>6. \A n \in 1..N : f[n] = After(f[n - 1], n)
  <2> SUFFICES ASSUME NEW n \in 1..N PROVE f[n] = After(f[n - 1], n)
    OBVIOUS
  <2>1. <<f[n - 1], n>> \in Nat \X (1..N)
    BY <1>1
  <2> HIDE DEF After, V
  <2> QED
    BY <1>5, <2>1
<1>7. Is(f)
  <2>1. ASSUME NEW n \in 0..N
        PROVE  f[n] = IF n = 0 THEN 0 ELSE
                        LET v == LatencyOf(br, case.commands[n], "head")
                            g == f[n - 1]
                        IN IF v >= 0 /\ (g = 0 \/ v < g) THEN v ELSE g
    <3>1. CASE n = 0
      BY <1>5, <3>1
    <3>2. CASE n # 0
      <4>1. n \in 1..N /\ V[n] = LatencyOf(br, case.commands[n], "head")
        BY <1>1, <3>2
      <4> HIDE DEF V
      <4> QED
        BY <1>6, <3>2, <4>1
    <3> QED
      BY <3>1, <3>2
  <2> HIDE DEF N
  <2> QED
    BY <2>1
<1> DEFINE F == CHOOSE g : Is(g)
<1>8. Is(F)
  <2> HIDE DEF Is
  <2> QED
    BY <1>7
<1>9. Fastest(case, br) = F[N]
  BY DEF Fastest
<1> HIDE DEF F
<1>10. F[0] = 0 /\ \A n \in 1..N : F[n] = After(F[n - 1], n)
  BY <1>1, <1>8
<1> HIDE DEF Is, step, V, N
<1> DEFINE T == {n \in 0..N : ~(/\ F[n] \in Nat
                                /\ \A k \in 1..n : V[k] >= 0 => F[n] > 0 /\ F[n] <= V[k])}
<1>11. T = {}
  <2> SUFFICES ASSUME T # {} PROVE FALSE
    OBVIOUS
  <2>1. PICK m \in T : \A k \in T : m <= k
    <3>1. T \in SUBSET Nat
      BY <1>1
    <3> HIDE DEF T
    <3> QED
      BY <3>1, SmallestNumber
  <2>2. m # 0
    BY <1>10
  <2>3. m - 1 \in 0..N /\ m - 1 \notin T /\ m \in 1..N
    BY <1>1, <2>1, <2>2
  <2>4. F[m - 1] \in Nat /\ \A k \in 1..(m - 1) : V[k] >= 0 => F[m - 1] > 0 /\ F[m - 1] <= V[k]
    BY <2>3
  <2>5. F[m] = After(F[m - 1], m)
    BY <1>10, <2>3
  <2>6. V[m] \in Nat \cup {-1} /\ V[m] # 0 /\ \A k \in 1..m : V[k] \in Nat \cup {-1}
    BY <1>1, <1>2, <1>3, <2>3
  <2>7. CASE V[m] >= 0 /\ (F[m - 1] = 0 \/ V[m] < F[m - 1])
    <3>1. F[m] = V[m] /\ V[m] \in Nat /\ V[m] > 0
      BY <2>5, <2>6, <2>7
    <3>2. ASSUME NEW k \in 1..m, V[k] >= 0 PROVE F[m] > 0 /\ F[m] <= V[k]
      <4>1. CASE k = m
        BY <3>1, <4>1
      <4>2. CASE k \in 1..(m - 1)
        BY <2>4, <2>6, <2>7, <3>1, <3>2, <4>2
      <4> QED
        BY <2>3, <4>1, <4>2
    <3> QED
      BY <3>1, <3>2
  <2>8. CASE ~(V[m] >= 0 /\ (F[m - 1] = 0 \/ V[m] < F[m - 1]))
    <3>1. F[m] = F[m - 1]
      BY <2>5, <2>8
    <3>2. ASSUME NEW k \in 1..m, V[k] >= 0 PROVE F[m] > 0 /\ F[m] <= V[k]
      <4>1. CASE k = m
        BY <2>4, <2>6, <2>8, <3>1, <3>2, <4>1
      <4>2. CASE k \in 1..(m - 1)
        BY <2>4, <3>1, <3>2, <4>2
      <4> QED
        BY <2>3, <4>1, <4>2
    <3> QED
      BY <2>4, <3>1, <3>2
  <2> QED
    BY <2>7, <2>8
<1>12. F[N] \in Nat /\ \A k \in 1..N : V[k] >= 0 => F[N] <= V[k]
  <2>1. N \in 0..N /\ N \notin T
    BY <1>1, <1>11
  <2> QED
    BY <2>1
<1>13. ASSUME NEW c \in ToSet(case.commands), LatencyOf(br, c, "head") >= 0
       PROVE  F[N] <= LatencyOf(br, c, "head")
  <2>1. PICK k \in 1..N : case.commands[k] = c
    BY <1>1 DEF ToSet
  <2>2. V[k] = LatencyOf(br, c, "head")
    BY <2>1 DEF V
  <2> QED
    BY <1>12, <1>13, <2>2
<1> QED
  BY <1>9, <1>12, <1>13

-----------------------------------------------------------------------------
(* The geometric mean.                                                     *)

(* The sets of a sequence made of a finite set are those of the set.       *)
LEMMA AllInSequence ==
  ASSUME NEW S, IsFiniteSet(S)
  PROVE  /\ Cardinality(S) \in Nat /\ SetToSeq(S) \in [1..Cardinality(S) -> S]
         /\ \A x \in S : \E j \in 1..Cardinality(S) : SetToSeq(S)[j] = x
<1> DEFINE n == Cardinality(S)
<1>1. n \in Nat /\ Injection(1..n, S) # {}
  BY FS_CardinalityType DEF ExistsBijection, Bijection
<1> HIDE DEF n
<1>2. \E f \in [1..n -> S] : IsInjective(f)
  BY <1>1 DEF Injection
<1>3. SetToSeq(S) \in [1..n -> S] /\ IsInjective(SetToSeq(S))
  BY <1>2 DEF SetToSeq, n
<1> DEFINE s == SetToSeq(S)
<1>4. s \in Injection(1..n, S)
  BY <1>3 DEF Injection
<1> HIDE DEF s
<1>5. IsFiniteSet(1..n) /\ Cardinality(1..n) = Cardinality(S)
  BY <1>1, FS_Interval DEF n
<1>6. s \in Surjection(1..n, S)
  BY <1>4, <1>5, FS_Injection
<1>7. \A x \in S : \E j \in 1..n : s[j] = x
  BY <1>6 DEF Surjection
<1> QED
  BY <1>1, <1>3, <1>7 DEF n, s

IsPair(p) == p[1] \in Nat \ {0} /\ p[2] \in Nat \ {0}

(* A ratio of positive numbers is positive, is at least 1 when each of its *)
(* pairs is, and is 1 when each of its pairs is.                           *)
LEMMA RatioOf ==
  ASSUME NEW N \in Nat, NEW pairs, DOMAIN pairs = 1..N, \A n \in 1..N : IsPair(pairs[n])
  PROVE  LET r == Ratio(pairs)
         IN  /\ r[1] \in Nat /\ r[2] \in Nat /\ r[1] > 0 /\ r[2] > 0
             /\ (\A n \in 1..N : pairs[n][1] >= pairs[n][2]) => r[1] >= r[2]
             /\ (\A n \in 1..N : pairs[n][1] = pairs[n][2]) => r[1] = r[2]
<1> DEFINE over == [i \in DOMAIN pairs |-> pairs[i][1]]
           under == [i \in DOMAIN pairs |-> pairs[i][2]]
<1>1. /\ over \in [1..N -> Nat] /\ under \in [1..N -> Nat]
      /\ \A n \in 1..N : over[n] > 0 /\ under[n] > 0
      /\ \A n \in 1..N : over[n] = pairs[n][1] /\ under[n] = pairs[n][2]
  BY DEF IsPair
<1>2. Ratio(pairs) = <<Product(over), Product(under)>>
  BY DEF Ratio
<1> HIDE DEF over, under
<1>3. Product(over) \in Nat /\ Product(over) > 0 /\ Product(under) \in Nat /\ Product(under) > 0
  BY <1>1, ProductPositive
<1>4. (\A n \in 1..N : pairs[n][1] >= pairs[n][2]) => Product(under) <= Product(over)
  <2> HAVE \A n \in 1..N : pairs[n][1] >= pairs[n][2]
  <2>1. \A n \in 1..N : under[n] <= over[n]
    BY <1>1
  <2> QED
    BY <1>1, <2>1, ProductOrder
<1>5. (\A n \in 1..N : pairs[n][1] = pairs[n][2]) => over = under
  BY <1>1
<1>6. /\ Ratio(pairs)[1] = Product(over) /\ Ratio(pairs)[2] = Product(under)
  BY <1>2
<1> QED
  BY <1>3, <1>4, <1>5, <1>6

(* A benchmark whose commands could be judged ran to its end: every        *)
(* command completed on each of its sides.                                 *)
LEMMA JudgedCompletes ==
  ASSUME IInv, NEW i \in DOMAIN judged, results[i].failure = "none",
         \A c \in Reported(results[i]) : ~IsError(judged[i].commands[c].result)
  PROVE  \A u \in DOMAIN results[i].sides :
           results[i].sides[u].failure = "none" /\ results[i].sides[u].ran
<1> DEFINE case == Cases[i]
           br == results[i]
           j == judged[i]
<1>1. /\ br \in Measured(case) /\ IsJudged(case, br, j) /\ br.failure = "none"
      /\ \A c \in Reported(br) : ~IsError(j.commands[c].result)
  BY JudgedAt
<1> SUFFICES ASSUME NEW u \in DOMAIN br.sides
             PROVE  br.sides[u].failure = "none" /\ br.sides[u].ran
  OBVIOUS
<1> HIDE DEF case, br, j
<1>2. u = <<u[1], u[2]>> /\ u[1] \in Reported(br) /\ u[2] \in SidesOf(ModeOf(case, u[1]))
  BY <1>1, UnitReported
<1> DEFINE c == u[1]
<1>3. FailuresOf(case, br, c) = {}
  <2> DEFINE F == FailuresOf(case, br, c)
             r == j.commands[c].result
             causes == Causes(case, br, c, j.commands[c].comparisons)
  <2>1. F \subseteq {"metric_error", "error"}
    BY <1>1, <1>2, ReportedFailures
  <2>2. r \in AllResults /\ \A q \in causes : Severity(q) <= Severity(r)
    BY <1>1, <1>2, CommandResult
  <2>3. F \subseteq causes
    BY DEF Causes
  <2>4. r \notin {"metric_error", "error"}
    BY <1>1, <1>2 DEF IsError
  <2> HIDE DEF F, r, causes
  <2>5. Severity(r) <= 5
    BY <2>2, <2>4, SeverityOf DEF AllResults
  <2>6. \A q \in F : Severity(q) > 5
    BY <2>1, SeverityOf
  <2>7. \A q \in F : Severity(q) <= Severity(r) /\ Severity(q) \in Nat /\ Severity(r) \in Nat
    BY <2>1, <2>2, <2>3, SeverityOf DEF AllResults
  <2> QED
    BY <2>5, <2>6, <2>7 DEF F
<1>4. br.sides[<<c, u[2]>>].failure # "none" =>
        br.sides[<<c, u[2]>>].failure \in FailuresOf(case, br, c)
  BY <1>1, <1>2, ReportedFailures
<1>5. br.sides[u].failure = "none"
  BY <1>2, <1>3, <1>4
<1>6. Complete(br.sides[u])
  BY <1>1, MeasuredSides
<1> QED
  BY <1>5, <1>6 DEF Complete

(* MeanIsComplete, of a mean m.                                            *)
MeanHolds(m) ==
  m # NoMean =>
    /\ \A i \in DOMAIN results :
         /\ results[i].failure = "none"
         /\ \A u \in DOMAIN results[i].sides :
              results[i].sides[u].failure = "none" /\ results[i].sides[u].ran
         /\ \A c \in CommandsOf(i) : ~IsError(judged[i].commands[c].result)
         /\ m.reference # "base" => Reported(results[i]) = DOMAIN m.ratios
    /\ \A c \in DOMAIN m.ratios : m.ratios[c][1] > 0 /\ m.ratios[c][2] > 0
    /\ m.reference = "fastest" => \A c \in DOMAIN m.ratios : m.ratios[c][1] >= m.ratios[c][2]
    /\ m.reference = "baseline" => \E c \in DOMAIN m.ratios : m.ratios[c][1] = m.ratios[c][2]

(* What is compared over base and head completed on both, or on the head   *)
(* where there is no base (compareGeoMean).                                *)
LEMMA CompareMeanHolds ==
  ASSUME IInv, Len(judged) = Len(results)
  PROVE  MeanHolds(CompareMean)
<1> DEFINE reported == UNION {{<<i, c>> : c \in Reported(results[i])} : i \in DOMAIN results}
           error(k) == IsError(judged[k[1]].commands[k[2]].result)
           alone(k) == <<k[2], "base">> \notin DOMAIN results[k[1]].sides /\ ~error(k)
           both == {k \in reported : ~alone(k)}
           compared == SetToSeq(both)
           pairs == [j \in DOMAIN compared |->
                       <<LatencyOf(results[compared[j][1]], compared[j][2], "head"),
                         LatencyOf(results[compared[j][1]], compared[j][2], "base")>>]
           shown == /\ Cardinality(both) >= 2 /\ Whole = DOMAIN results
                    /\ \A j \in DOMAIN compared : ~error(compared[j]) /\ AllPositive(pairs)
<1>1. CompareMean = IF shown
                    THEN [reference |-> "base", cases |-> Cardinality(both),
                          ratios |-> [c \in {"head/base"} |-> Ratio(pairs)]]
                    ELSE NoMean
  BY DEF CompareMean
<1> SUFFICES ASSUME CompareMean # NoMean PROVE MeanHolds(CompareMean)
  BY DEF MeanHolds
<1>2. shown
  BY <1>1
<1>3. DOMAIN judged = DOMAIN results
  BY CasesOf
<1>4. IsFiniteSet(both) /\ both \subseteq reported
  <2>1. IsFiniteSet(reported)
    BY FiniteReported
  <2> HIDE DEF reported, alone
  <2>2. both \subseteq reported
    OBVIOUS
  <2> HIDE DEF both
  <2> QED
    BY <2>1, <2>2, FS_Subset
<1> DEFINE n == Cardinality(both)
<1>5. /\ n \in Nat /\ n >= 2 /\ DOMAIN compared = 1..n
      /\ \A j \in 1..n : compared[j] \in both
      /\ \A k \in both : \E j \in 1..n : compared[j] = k
  <2>1. n >= 2
    BY <1>2
  <2> HIDE DEF both
  <2> QED
    BY <1>4, <2>1, AllInSequence
<1>6. ASSUME NEW i \in DOMAIN results, NEW c \in Reported(results[i])
      PROVE  ~IsError(judged[i].commands[c].result)
  <2> DEFINE k == <<i, c>>
  <2>1. k \in reported /\ k[1] = i /\ k[2] = c
    OBVIOUS
  <2>2. CASE alone(k)
    BY <2>2
  <2>3. CASE k \in both
    <3>1. PICK j \in 1..n : compared[j] = k
      BY <1>5, <2>3
    <3>2. ~error(compared[j])
      BY <1>2, <1>5, <3>1
    <3> QED
      BY <2>1, <3>1, <3>2
  <2> HIDE DEF reported, alone, k
  <2>4. alone(k) \/ k \in both
    BY <2>1
  <2> QED
    BY <2>2, <2>3, <2>4
<1>7. \A i \in DOMAIN results : results[i].failure = "none"
  <2>1. Whole = DOMAIN results
    BY <1>2
  <2> QED
    BY <2>1 DEF Whole
<1>8. ASSUME NEW i \in DOMAIN results
      PROVE  /\ \A u \in DOMAIN results[i].sides :
                  results[i].sides[u].failure = "none" /\ results[i].sides[u].ran
             /\ \A c \in CommandsOf(i) : ~IsError(judged[i].commands[c].result)
  <2>1. i \in DOMAIN judged /\ CommandsOf(i) = Reported(results[i])
    BY <1>3, JudgedAt
  <2> QED
    BY <1>6, <1>7, <2>1, JudgedCompletes
<1>9. Ratio(pairs)[1] > 0 /\ Ratio(pairs)[2] > 0
  <2>1. AllPositive(pairs)
    <3>1. 1 \in DOMAIN compared
      <4> HIDE DEF n, compared, both
      <4> QED
        BY <1>5
    <3> HIDE DEF pairs, compared, both
    <3> QED
      BY <1>2, <3>1
  <2>2. DOMAIN pairs = 1..n
    BY <1>5
  <2>3. ASSUME NEW j \in 1..n PROVE IsPair(pairs[j])
    <3> DEFINE k == compared[j]
    <3>1. k \in reported
      BY <1>4, <1>5
    <3>2. k[1] \in DOMAIN results
      <4> HIDE DEF k
      <4> QED
        BY <3>1
    <3>3. pairs[j] = <<LatencyOf(results[k[1]], k[2], "head"), LatencyOf(results[k[1]], k[2], "base")>>
      BY <2>2
    <3>4. pairs[j][1] > 0 /\ pairs[j][2] > 0
      BY <2>1, <2>2 DEF AllPositive
    <3> HIDE DEF k, pairs
    <3>5. \A side : LatencyOf(results[k[1]], k[2], side) \in Nat \cup {-1}
      BY <3>2, LatencyRange DEF IInv, Recording
    <3>6. pairs[j][1] \in Nat \cup {-1} /\ pairs[j][2] \in Nat \cup {-1}
      BY <3>3, <3>5
    <3> QED
      BY <3>4, <3>6 DEF IsPair
  <2> HIDE DEF pairs, n
  <2>4. n \in Nat
    BY <1>5
  <2> QED
    BY <2>2, <2>3, <2>4, RatioOf
<1> DEFINE ratio == Ratio(pairs)
           m == CompareMean
<1>10. m.reference = "base" /\ DOMAIN m.ratios = {"head/base"} /\ m.ratios["head/base"] = ratio
  <2> HIDE DEF ratio
  <2> QED
    BY <1>1, <1>2 DEF ratio
<1> HIDE DEF pairs, ratio, m
<1>11. \A c \in DOMAIN m.ratios : m.ratios[c][1] > 0 /\ m.ratios[c][2] > 0
  BY <1>9, <1>10 DEF ratio
<1>12. MeanHolds(m)
  BY <1>7, <1>8, <1>10, <1>11 DEF MeanHolds
<1> QED
  BY <1>12 DEF m

(* A number of commands is relative to the fastest of its benchmark, or to *)
(* the baseline they share, over benchmarks that all completed             *)
(* (runGeoMean).                                                           *)
LEMMA RunMeanHolds ==
  ASSUME IInv, Len(judged) = Len(results)
  PROVE  MeanHolds(RunMean)
<1> DEFINE D == DOMAIN results
           N == Len(results)
           pairs(c) == [i \in D |-> <<LatencyOf(results[i], c, "head"), ReferenceOf(i)>>]
           shown == /\ N >= 2 /\ Cardinality(CommandNames) >= 2 /\ Shared /\ CompleteCases
                    /\ \A c \in CommandNames : AllPositive(pairs(c))
           m == RunMean
<1>1. m = IF shown
          THEN [reference |-> Reference, cases |-> N, ratios |-> [c \in CommandNames |-> Ratio(pairs(c))]]
          ELSE NoMean
  BY DEF RunMean
<1> SUFFICES ASSUME m # NoMean PROVE MeanHolds(m)
  BY DEF MeanHolds
<1>2. /\ N >= 2 /\ Cardinality(CommandNames) >= 2 /\ CompleteCases
      /\ \A c \in CommandNames : AllPositive(pairs(c))
  BY <1>1
<1>3. /\ m.reference = Reference /\ DOMAIN m.ratios = CommandNames
      /\ \A c \in CommandNames : m.ratios[c] = Ratio(pairs(c))
  <2> HIDE DEF pairs
  <2> QED
    BY <1>1, <1>2
<1> HIDE DEF m, shown
<1>4. N \in Nat /\ D = 1..N /\ DOMAIN judged = D
  BY CasesOf
<1>5. ASSUME NEW i \in D
      PROVE  /\ results[i].failure = "none" /\ Reported(results[i]) = CommandNames
             /\ CommandsOf(i) = Reported(results[i])
             /\ \A c \in CommandNames : /\ ~IsError(judged[i].commands[c].result)
                                        /\ LatencyOf(results[i], c, "head") >= 0
             /\ \A u \in DOMAIN results[i].sides :
                  results[i].sides[u].failure = "none" /\ results[i].sides[u].ran
  <2>1. /\ results[i].failure = "none" /\ CommandNames \subseteq Reported(results[i])
        /\ \A c \in Reported(results[i]) :
             ~IsError(judged[i].commands[c].result) /\ LatencyOf(results[i], c, "head") >= 0
    BY <1>2 DEF CompleteCases
  <2>2. Reported(results[i]) \subseteq CommandNames
    BY <2>1 DEF CommandNames, Whole
  <2>3. i \in DOMAIN judged /\ CommandsOf(i) = Reported(results[i])
    BY <1>4, JudgedAt
  <2> QED
    BY <2>1, <2>2, <2>3, JudgedCompletes
<1>6. ASSUME NEW i \in D
      PROVE  /\ Cases[i] \in ToSet(Cases) /\ results[i] \in Measured(Cases[i])
             /\ \A c : LatencyOf(results[i], c, "head") \in Nat \cup {-1}
             /\ \A c : LatencyOf(results[i], c, "head") >= 0 => c \in CommandNames
  <2>1. Cases[i] \in ToSet(Cases) /\ results[i] \in Measured(Cases[i])
    BY CasesOf DEF IInv, Recording
  <2> DEFINE br == results[i]
             case == Cases[i]
  <2>2. br \in Measured(case) /\ Reported(br) = CommandNames
    BY <1>5, <2>1
  <2> HIDE DEF br, case
  <2>3. ASSUME NEW c
        PROVE  /\ LatencyOf(br, c, "head") \in Nat \cup {-1}
               /\ LatencyOf(br, c, "head") >= 0 => c \in CommandNames
    BY <2>2, LatencyRange
  <2> QED
    BY <2>1, <2>3 DEF br
<1>7. ASSUME NEW i \in D, NEW c \in CommandNames
      PROVE  LatencyOf(results[i], c, "head") > 0 /\ ReferenceOf(i) > 0
  <2>1. AllPositive(pairs(c)) /\ DOMAIN pairs(c) = D
    BY <1>2
  <2>2. pairs(c)[i] = <<LatencyOf(results[i], c, "head"), ReferenceOf(i)>>
    OBVIOUS
  <2> HIDE DEF pairs
  <2> QED
    BY <2>1, <2>2 DEF AllPositive
<1>8. CommandNames # {}
  BY <1>2, FS_EmptySet
<1>9. ASSUME NEW i \in D
      PROVE  /\ ReferenceOf(i) \in Nat
             /\ Reference = "fastest" =>
                  \A c \in CommandNames : ReferenceOf(i) <= LatencyOf(results[i], c, "head")
             /\ Reference # "fastest" =>
                  ReferenceOf(i) = LatencyOf(results[i], Cases[i].baseline, "head")
  <2>1. CASE Reference = "fastest"
    <3>1. \A c \in ToSet(Cases[i].commands) : LatencyOf(results[i], c, "head") # 0
      <4> SUFFICES ASSUME NEW c \in ToSet(Cases[i].commands), LatencyOf(results[i], c, "head") = 0
                   PROVE  FALSE
        OBVIOUS
      <4>1. c \in CommandNames
        BY <1>6
      <4> QED
        BY <1>7, <4>1
    <3>2. /\ Fastest(Cases[i], results[i]) \in Nat
          /\ \A c \in ToSet(Cases[i].commands) :
               LatencyOf(results[i], c, "head") >= 0 =>
                 Fastest(Cases[i], results[i]) <= LatencyOf(results[i], c, "head")
      BY <1>6, <3>1, FastestIsFastest
    <3>3. \A c \in CommandNames : c \in ToSet(Cases[i].commands)
      BY <1>5, <1>6, ReportedSides
    <3>4. ReferenceOf(i) = Fastest(Cases[i], results[i])
      BY <2>1 DEF ReferenceOf
    <3> QED
      BY <1>5, <2>1, <3>2, <3>3, <3>4
  <2>2. CASE Reference # "fastest"
    <3>1. ReferenceOf(i) = LatencyOf(results[i], Cases[i].baseline, "head")
      BY <2>2 DEF ReferenceOf
    <3>2. ReferenceOf(i) > 0
      BY <1>7, <1>8
    <3> QED
      BY <1>6, <2>2, <3>1, <3>2
  <2> QED
    BY <2>1, <2>2
<1>10. ASSUME NEW c \in CommandNames
       PROVE  LET r == Ratio(pairs(c))
              IN  /\ r[1] \in Nat /\ r[2] \in Nat /\ r[1] > 0 /\ r[2] > 0
                  /\ (\A n \in 1..N : pairs(c)[n][1] >= pairs(c)[n][2]) => r[1] >= r[2]
                  /\ (\A n \in 1..N : pairs(c)[n][1] = pairs(c)[n][2]) => r[1] = r[2]
  <2> DEFINE p == pairs(c)
  <2>1. DOMAIN p = 1..N
    BY <1>4
  <2>2. ASSUME NEW n \in 1..N PROVE IsPair(p[n])
    <3>1. n \in D
      BY <1>4
    <3>2. p[n] = <<LatencyOf(results[n], c, "head"), ReferenceOf(n)>>
      BY <3>1
    <3> HIDE DEF p
    <3> QED
      BY <1>6, <1>7, <1>9, <3>1, <3>2 DEF IsPair
  <2> HIDE DEF p
  <2>3. LET r == Ratio(p)
        IN  /\ r[1] \in Nat /\ r[2] \in Nat /\ r[1] > 0 /\ r[2] > 0
            /\ (\A n \in 1..N : p[n][1] >= p[n][2]) => r[1] >= r[2]
            /\ (\A n \in 1..N : p[n][1] = p[n][2]) => r[1] = r[2]
    BY <1>4, <2>1, <2>2, RatioOf
  <2> QED
    BY <2>3 DEF p
<1>11. ASSUME NEW c \in CommandNames, NEW i \in D
       PROVE  pairs(c)[i][1] = LatencyOf(results[i], c, "head") /\ pairs(c)[i][2] = ReferenceOf(i)
  OBVIOUS
<1> HIDE DEF pairs
<1>12. ASSUME NEW c \in DOMAIN m.ratios PROVE m.ratios[c][1] > 0 /\ m.ratios[c][2] > 0
  BY <1>3, <1>10
<1>13. ASSUME m.reference = "fastest", NEW c \in DOMAIN m.ratios
       PROVE  m.ratios[c][1] >= m.ratios[c][2]
  <2>1. c \in CommandNames /\ Reference = "fastest"
    BY <1>3, <1>13
  <2>2. \A n \in 1..N : pairs(c)[n][1] >= pairs(c)[n][2]
    <3> SUFFICES ASSUME NEW n \in 1..N PROVE pairs(c)[n][1] >= pairs(c)[n][2]
      OBVIOUS
    <3>1. n \in D
      BY <1>4
    <3>2. ReferenceOf(n) <= LatencyOf(results[n], c, "head") /\ ReferenceOf(n) \in Nat
      BY <1>9, <2>1, <3>1
    <3>3. LatencyOf(results[n], c, "head") \in Nat \cup {-1}
      BY <1>6, <3>1
    <3> QED
      BY <1>11, <2>1, <3>1, <3>2, <3>3
  <2> QED
    BY <1>3, <1>10, <2>1, <2>2
<1>14. ASSUME m.reference = "baseline"
       PROVE  \E c \in DOMAIN m.ratios : m.ratios[c][1] = m.ratios[c][2]
  <2>1. Reference = "baseline" /\ Cardinality(Baselines) = 1
    BY <1>3, <1>14 DEF Reference
  <2>2. PICK b : Baselines = {b}
    <3> DEFINE f == [i \in D |-> Cases[i].baseline]
    <3>1. Baselines = {f[i] : i \in DOMAIN f} /\ DOMAIN f = D
      BY DEF Baselines
    <3> HIDE DEF f
    <3>2. IsFiniteSet(Baselines)
      <4>1. IsFiniteSet(D)
        BY FiniteCommands
      <4> HIDE DEF D
      <4> QED
        BY <3>1, <4>1, FiniteValues
    <3> QED
      BY <2>1, <3>2, FS_Singleton
  <2>3. \A i \in D : Cases[i].baseline = b /\ ReferenceOf(i) = LatencyOf(results[i], b, "head")
    <3>1. \A i \in D : Cases[i].baseline = b
      BY <2>2 DEF Baselines
    <3> QED
      BY <1>9, <2>1, <3>1
  <2>4. b \in CommandNames
    <3>1. 1 \in D
      BY <1>2, <1>4
    <3>2. LatencyOf(results[1], b, "head") > 0
      BY <1>7, <1>8, <2>3, <3>1
    <3>3. LatencyOf(results[1], b, "head") \in Nat \cup {-1}
      BY <1>6, <3>1
    <3> QED
      BY <1>6, <3>1, <3>2, <3>3
  <2>5. \A n \in 1..N : pairs(b)[n][1] = pairs(b)[n][2]
    BY <1>4, <1>11, <2>3, <2>4
  <2>6. m.ratios[b][1] = m.ratios[b][2]
    BY <1>3, <1>10, <2>4, <2>5
  <2> QED
    BY <1>3, <2>4, <2>6
<1>15. ASSUME NEW i \in DOMAIN results
       PROVE  /\ results[i].failure = "none"
              /\ \A u \in DOMAIN results[i].sides :
                   results[i].sides[u].failure = "none" /\ results[i].sides[u].ran
              /\ \A c \in CommandsOf(i) : ~IsError(judged[i].commands[c].result)
              /\ m.reference # "base" => Reported(results[i]) = DOMAIN m.ratios
  BY <1>3, <1>5
<1> QED
  BY <1>12, <1>13, <1>14, <1>15 DEF MeanHolds

(* A mean that is shown is over what completed and could be judged, and is *)
(* relative to what it says (report.runGeoMean, report.compareGeoMean).    *)
THEOREM MeanHeld == Spec => []MeanIsComplete
<1> DEFINE Held == MeanIsComplete /\ (pc \notin {"summarize", "report", "done"} => mean = NoMean)
<1>1. Init => Held
  BY DEF Init, MeanIsComplete
<1>2. IInv /\ Held /\ [Next]_vars => Held'
  <2> SUFFICES ASSUME IInv, Held, [Next]_vars PROVE Held'
    OBVIOUS
  <2>1. CASE JudgeMean
    <3>1. Len(judged) = Len(results) /\ UNCHANGED <<results, judged>> /\ pc' = "summarize"
      BY <2>1 DEF JudgeMean, input
    <3>2. mean' = NoMean \/ mean' = CompareMean \/ mean' = RunMean
      BY <2>1 DEF JudgeMean
    <3>3. MeanHolds(mean')
      BY <3>1, <3>2, CompareMeanHolds, RunMeanHolds DEF MeanHolds
    <3>4. MeanIsComplete'
      BY <3>1, <3>3 DEF MeanHolds, MeanIsComplete, CommandsOf, Reported
    <3> QED
      BY <3>1, <3>4
  <2>2. CASE pc \in {"summarize", "report", "done"} /\ ~JudgeMean
    <3>1. UNCHANGED <<mean, results, judged>>
      BY <2>2 DEF Next, vars, input, Interrupt, Build, Measure, EndSuite, JudgeNext, Summarize, Report
    <3>2. pc' \in {"summarize", "report", "done"}
      BY <2>2 DEF Next, vars, input, Interrupt, Build, Measure, EndSuite, JudgeNext, Summarize, Report
    <3>3. MeanIsComplete'
      BY <3>1 DEF MeanIsComplete, CommandsOf, Reported
    <3> QED
      BY <3>2, <3>3
  <2>3. CASE pc \notin {"summarize", "report", "done"} /\ ~JudgeMean
    <3>1. mean' = NoMean
      BY <2>3 DEF Next, vars, input, Interrupt, Build, Measure, EndSuite, JudgeNext, Summarize, Report
    <3> QED
      BY <3>1 DEF MeanIsComplete
  <2> QED
    BY <2>1, <2>2, <2>3
<1> QED
  BY <1>1, <1>2, JudgeInvariant, PTL DEF Spec
=============================================================================
