------------------------------- MODULE MCJudge ------------------------------
EXTENDS Judge

Recorded(fails, ran, latency, rss, skipped, work) ==
  [failure |-> fails, ran |-> ran, latency |-> latency, rss |-> rss, floor |-> 2,
   skipped |-> skipped, work |-> work]

MCMeasurements ==
  {Recorded("none", TRUE, 1, 3, FALSE, 1), Recorded("none", TRUE, 2, 1, FALSE, 1),
   Recorded("none", TRUE, 3, 0, TRUE, 2), Recorded("none", TRUE, 0, 4, FALSE, 1),
   Recorded("error", TRUE, 1, 3, FALSE, 1), Recorded("metric_error", FALSE, 0, 0, FALSE, 0)}

Budget(command, metric, upper, limit) ==
  [command |-> command, metric |-> metric, upper |-> upper, limit |-> limit]

(* In a comparison "b" of the first case is measured on the head alone,    *)
(* and "b" of the second not at all.  A budget on the latency stands for   *)
(* one on any metric without a floor, which is bounded from either side.   *)
MCCases ==
  <<[commands |-> <<"a", "b">>, baseline |-> "a", compares |-> {"a"}, gates |-> {"peak_rss"},
     memory |-> TRUE, throughput |-> TRUE,
     budgets |-> {Budget("b", "peak_rss", TRUE, 3), Budget("b", "peak_rss", TRUE, 1)}],
    [commands |-> <<"a", "b">>, baseline |-> "a", compares |-> {"a"}, gates |-> {"latency"},
     memory |-> FALSE, throughput |-> FALSE,
     budgets |-> {Budget("a", "latency", TRUE, 2), Budget("a", "latency", FALSE, 1)}]>>
=============================================================================
