------------------------------ MODULE Comparison ----------------------------
(***************************************************************************)
(* The judgement of one metric of one command: a budget on the head        *)
(* (report.evaluateBudget), then the comparison of base and head           *)
(* (report.compareMetric around stats.Compare).                            *)
(*                                                                         *)
(* A side is what the runs recorded: the samples and, for the peak RSS,    *)
(* the floor of each run, below which its real value is unknown.  The      *)
(* resamples of the bootstrap are any the generator could draw.            *)
(***************************************************************************)
EXTENDS Stats

CONSTANTS
  Sides,         \* what a side may have recorded
  Options,       \* the settings of the comparison and of the budget
  Statistic,     \* regression.*.statistic: "median" or "mean"
  Resamples      \* how many times the bootstrap draws

ASSUME ComparisonAssumption ==
  /\ Statistic \in {"median", "mean"} /\ Resamples \in Nat \ {0}
  /\ \A s \in Sides : /\ s.samples \in Seq(Nat) /\ s.floors \in Seq(Nat)
                      /\ Len(s.floors) = Len(s.samples)
  /\ \A o \in Options : {o.max, o.difference, o.samples, o.limit} \subseteq Nat /\ o.confidence \in 0..100

VARIABLES
  stage,      \* where the judgement is
  opt,        \* the settings
  base, head, \* what the sides recorded
  against, of,\* the samples that Compare gets of them
  iteration,  \* of the bootstrap
  drawn,      \* len(changes)
  worse, better,
  verdict, reason,
  budget      \* the status of the budget

sides == <<opt, base, head>>
draws == <<iteration, drawn, worse, better>>
vars == <<stage, sides, against, of, draws, verdict, reason, budget>>

(* The status "measured"; a metric that the platform or a run lacks is     *)
(* skipped, and has no samples.                                            *)
Measured(s) == s.samples # <<>>

(* floorOf.                                                                *)
FloorOf(s) == Max(Range(s.floors) \cup {0})

(* MetricSummary.atFloor.                                                  *)
AtFloor(s, v) == FloorOf(s) > 0 /\ ~Less(Whole(FloorOf(s)), v)

SideAtFloor(s) == AtFloor(s, Value(Summarize(s.samples), Statistic))

RaiseToFloor(s) ==
  IF SideAtFloor(s)
  THEN [i \in DOMAIN s.samples |-> Max({s.samples[i], FloorOf(s)})]
  ELSE s.samples

Init ==
  /\ stage = "budget" /\ opt \in Options
  /\ base \in Sides /\ head \in Sides
  /\ FloorOf(base) = 0 <=> FloorOf(head) = 0
  /\ against = <<>> /\ of = <<>>
  /\ iteration = 0 /\ drawn = 0 /\ worse = 0 /\ better = 0
  /\ verdict = "none" /\ reason = "none" /\ budget = "none"

-----------------------------------------------------------------------------
(* The budget.                                                             *)

(* Op.Holds.                                                               *)
Holds(op, actual, limit) ==
  CASE op = "<"  -> Less(actual, Whole(limit))
    [] op = "<=" -> ~Less(Whole(limit), actual)
    [] op = ">"  -> Less(Whole(limit), actual)
    [] op = ">=" -> ~Less(actual, Whole(limit))

Upper(op) == op \in {"<", "<="}

AllowsBelowFloor(s, actual) ==  \* mutant: the value is not at most the floor
  IF Holds(opt.op, actual, opt.limit) THEN "pass" ELSE "fail"

MeasuredBudget(s, actual) ==
  IF ~AtFloor(s, actual)
  THEN IF Holds(opt.op, actual, opt.limit) THEN "pass" ELSE "fail"
  ELSE IF Upper(opt.op) /\ Holds(opt.op, Whole(FloorOf(s)), opt.limit) THEN "pass"
  ELSE "skipped"

CheckBudget ==
  /\ stage = "budget" /\ stage' = "compare"
  /\ budget' = IF Measured(head)
               THEN MeasuredBudget(head, Aggregate(head.samples, opt.agg))
               ELSE "skipped"
  /\ UNCHANGED <<sides, against, of, draws, verdict, reason>>

-----------------------------------------------------------------------------
(* stats.Compare.                                                          *)

Decide(v, r) == verdict' = v /\ reason' = r

(* Beyond the tolerance: above it, or below its negation.  What Compare is *)
(* called for is better when lower, so a rise is a degradation.            *)
Rises(b, h) == (100 + opt.max) * b[1] * h[2] < 100 * h[1] * b[2]

Falls(b, h) == 100 * h[1] * b[2] < (100 - opt.max) * b[1] * h[2]

(* What is not measured on both sides, or unknown on both, is not compared.*)
Skip ==
  /\ stage = "compare" /\ stage' = "done"
  /\ \/ /\ ~(Measured(base) /\ Measured(head)) /\ Decide("skipped", "unsupported")
     \/ /\ Measured(base) /\ Measured(head)
        /\ SideAtFloor(base) /\ SideAtFloor(head) /\ Decide("skipped", "floor")
  /\ UNCHANGED <<sides, against, of, draws, budget>>

Prepare ==
  /\ stage = "compare" /\ Measured(base) /\ Measured(head)
  /\ ~(SideAtFloor(base) /\ SideAtFloor(head))
  /\ against' = RaiseToFloor(base) /\ of' = RaiseToFloor(head)
  /\ IF Positive(Value(Summarize(against'), Statistic))
     THEN stage' = "bootstrap" /\ UNCHANGED <<verdict, reason>>
     ELSE stage' = "settle" /\ Decide("inconclusive", "zero base")
  /\ UNCHANGED <<sides, draws, budget>>

(* metricOf: the statistic of every resample that can be drawn.            *)
Resampled(samples) ==
  {Value(Summarize([i \in DOMAIN samples |-> samples[f[i]]]), Statistic) :
     f \in [DOMAIN samples -> DOMAIN samples]}

CountDefined(b, h) ==  \* mutant: an undefined change is dropped
  /\ iteration' = iteration + 1
  /\ drawn' = drawn + (IF Positive(b) THEN 1 ELSE 0)
  /\ worse' = worse + (IF Positive(b) /\ Rises(b, h) THEN 1 ELSE 0)
  /\ better' = better + (IF Positive(b) /\ Falls(b, h) THEN 1 ELSE 0)

(* One round of bootstrapChanges, and what it counts for.                  *)
Count(b, h) ==
  IF Positive(b)
  THEN /\ iteration' = iteration + 1 /\ drawn' = drawn + 1
       /\ worse' = worse + (IF Rises(b, h) THEN 1 ELSE 0)
       /\ better' = better + (IF Falls(b, h) THEN 1 ELSE 0)
  ELSE iteration' = Resamples /\ drawn' = 0 /\ worse' = 0 /\ better' = 0

Draw ==
  /\ stage = "bootstrap" /\ iteration < Resamples
  /\ \E b \in Resampled(against), h \in Resampled(of) : Count(b, h)
  /\ UNCHANGED <<stage, sides, against, of, verdict, reason, budget>>

NeverSeparated(b, h) == FALSE  \* mutant: noise is noise

Separated(b, h) ==
  /\ b.min > 0 /\ h.min > 0
  /\ h.min > b.max \/ h.max < b.min

Confident(count) == 100 * count >= opt.confidence * drawn

(* |head - base| < min_difference.                                         *)
Within(b, h) ==
  LET low == opt.difference * b[2] * h[2]
      d   == h[1] * b[2] - b[1] * h[2]
  IN -low < d /\ d < low

Classify ==
  LET b  == Summarize(against)
      h  == Summarize(of)
      bv == Value(b, Statistic)
      hv == Value(h, Statistic)
  IN /\ stage = "bootstrap" /\ iteration = Resamples /\ stage' = "settle"
     /\ IF b.count < opt.samples \/ h.count < opt.samples
        THEN Decide("inconclusive", "few samples")
        ELSE IF /\ opt.cv > 0 /\ ~Separated(b, h)
                /\ Noisier(b, Statistic, opt.cv) \/ Noisier(h, Statistic, opt.cv)
        THEN Decide("inconclusive", "noisy")
        ELSE IF drawn = 0 THEN Decide("inconclusive", "zero bootstrap base")
        ELSE IF opt.difference > 0 /\ Within(bv, hv) THEN Decide("pass", "below min_difference")
        ELSE IF Rises(bv, hv) /\ Confident(worse) THEN Decide("regression", "none")
        ELSE IF Falls(bv, hv) /\ Confident(better) THEN Decide("improved", "none")
        ELSE IF Confident(drawn - worse) THEN Decide("pass", "none")
        ELSE Decide("inconclusive", "too close")
     /\ UNCHANGED <<sides, against, of, draws, budget>>

SettleAsFound ==  \* mutant: the floor is forgotten after the comparison
  /\ stage = "settle" /\ stage' = "done"
  /\ UNCHANGED <<sides, against, of, draws, verdict, reason, budget>>

(* The end of compareMetric: what still holds with a side at its floor.    *)
Settle ==
  /\ stage = "settle" /\ stage' = "done"
  /\ IF \/ ~SideAtFloor(base) /\ ~SideAtFloor(head)
        \/ verdict = "regression" /\ ~SideAtFloor(head)
        \/ verdict = "improved" /\ ~SideAtFloor(base)
     THEN UNCHANGED <<verdict, reason>>
     ELSE Decide("inconclusive", "floor")
  /\ UNCHANGED <<sides, against, of, draws, budget>>

Next == CheckBudget \/ Skip \/ Prepare \/ Draw \/ Classify \/ Settle

Spec == Init /\ [][Next]_vars

-----------------------------------------------------------------------------
(* Every variable keeps to the values the code can give it.                *)
TypeOK ==
  /\ stage \in {"budget", "compare", "bootstrap", "settle", "done"}
  /\ opt \in Options /\ {base, head} \subseteq Sides
  /\ {iteration, drawn, worse, better} \subseteq 0..Resamples
  /\ worse + better <= drawn /\ drawn <= iteration
  /\ verdict \in {"none", "skipped", "inconclusive", "pass", "improved", "regression"}
  /\ reason \in {"none", "unsupported", "floor", "zero base", "few samples", "noisy",
                 "zero bootstrap base", "below min_difference", "too close"}
  /\ budget \in {"none", "pass", "fail", "skipped"}
  /\ stage = "done" => verdict # "none"

(* The values the command can really have had: at most the recorded one    *)
(* for a run at or below its own floor, and that one for any other.        *)
Real(s) ==
  {t \in [DOMAIN s.samples -> 0..Max(Range(s.samples))] :
     \A i \in DOMAIN t :
       IF s.samples[i] <= s.floors[i] THEN t[i] <= s.samples[i] ELSE t[i] = s.samples[i]}

RealValues(s) == {Value(Summarize(t), Statistic) : t \in Real(s)}

(* "A comparison of such a peak reports only a regression or an            *)
(* improvement that holds whatever the real value below the floor is."     *)
CalledChangesHold ==
  stage = "done" /\ verdict \in {"regression", "improved"} =>
    \A b \in RealValues(base), h \in RealValues(head) :
      IF verdict = "regression" THEN Rises(b, h) ELSE Falls(b, h)

(* ... and a pass whose observed change is within the tolerance holds for  *)
(* the real values as well.                                                *)
HoldsBelowFloor ==
  LET observed == [s \in {"base", "head"} |->
                     Value(Summarize(IF s = "base" THEN against ELSE of), Statistic)]
  IN /\ CalledChangesHold
     /\ stage = "done" /\ verdict = "pass" /\ ~Rises(observed["base"], observed["head"]) =>
          \A b \in RealValues(base), h \in RealValues(head) :
            ~Rises(b, h) \/ Within(b, h)

(* A side whose order has a value in the middle, so that its median is one *)
(* of its runs, and the aggregates that are one of the runs.               *)
Odd(s) == Len(s.samples) % 2 = 1
OddSides == \A s \in Sides : Measured(s) => Odd(s)
OneRunBudgets ==
  \A o \in Options : o.agg \in {"min", "max"} \/ (o.agg = "median" /\ OddSides)

(* A budget that passes or fails does so whatever the real values are.     *)
BudgetHolds ==
  stage = "done" /\ budget \in {"pass", "fail"} =>
    \A t \in Real(head) :
      Holds(opt.op, Aggregate(t, opt.agg), opt.limit) <=> budget = "pass"

(* A verdict that rests on probabilities has every resample behind it:     *)
(* none was left out because its base was zero, which would condition the  *)
(* evidence on a positive base.                                            *)
FullEvidence ==
  TypeOK /\ (stage = "done" /\ verdict \in {"regression", "improved", "pass"} => drawn = Resamples)

(* Noise does not erase an order that every pair of samples shows: when    *)
(* all of the head is above all of the base, or below, by more than the    *)
(* tolerance and min_difference, the change is called, whichever samples   *)
(* the bootstrap draws.                                                    *)
SeparatedIsCalled ==
  LET b  == Summarize(against)
      h  == Summarize(of)
      up == h.min - b.max
      down == b.min - h.max
  IN /\ stage = "done" /\ drawn = Resamples
     /\ b.count >= opt.samples /\ h.count >= opt.samples /\ b.min > 0 /\ h.min > 0
     => /\ Rises(Whole(b.max), Whole(h.min)) /\ up >= opt.difference /\ ~SideAtFloor(head)
             => verdict = "regression"
        /\ Falls(Whole(b.min), Whole(h.max)) /\ down >= opt.difference /\ ~SideAtFloor(base)
             => verdict = "improved"
=============================================================================
