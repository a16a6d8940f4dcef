----------------------------- MODULE MCComparison ---------------------------
EXTENDS Comparison

(* Three runs a side, in ascending order: two values below the larger      *)
(* floor, one at it and two above, and no floor, the same floor or a       *)
(* floor that rises between the runs.                                      *)
Rising == {s \in [1..3 -> {0, 1, 2, 3, 5}] : s[1] <= s[2] /\ s[2] <= s[3]}
Recorded == [samples : Rising, floors : {<<0, 0, 0>>, <<2, 2, 2>>, <<1, 1, 2>>}]
MCSides == {[samples |-> <<>>, floors |-> <<>>]} \cup Recorded

Setting(confidence, samples, cv, difference, op, limit, agg) ==
  [max |-> 50, confidence |-> confidence, samples |-> samples, cv |-> cv,
   difference |-> difference, op |-> op, limit |-> limit, agg |-> agg]

MCOptions ==
  {Setting(95, 3, 10, 0, "<=", 2, "median"), Setting(60, 2, 0, 2, "<", 2, "max"),
   Setting(50, 4, 0, 0, "<=", 1, "min")}

(* A side whose mean is above its floor although two of its runs are at    *)
(* it, and one that is at its floor.  Of all the resamples of the first    *)
(* 1 - (2/5)^5, or 98.9%, have a mean more than 5% above the floor.        *)
FewSides == [samples : {<<2, 2, 3, 3, 3>>, <<2, 2, 2, 2, 2>>}, floors : {<<2, 2, 2, 2, 2>>}]
OneOption == {[Setting(95, 5, 25, 0, "<=", 2, "max") EXCEPT !.max = 5]}

(* Every measured side here has an odd number of runs, which is what two   *)
(* of the theorems about Comparison ask for.                               *)
ASSUME MCHypotheses == OddSides /\ OneRunBudgets
=============================================================================
