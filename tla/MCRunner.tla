------------------------------ MODULE MCRunner ------------------------------
(* Instances of Runner for model checking.                                 *)
EXTENDS Runner

CONSTANTS c1, c2

(* One side, measured with a skip policy: cpu is skipped for the whole run *)
(* where the platform lacks it, memory whenever a run cannot collect it.   *)
Plain ==
  [sides |-> 1, compared |-> {}, budgeted |-> {}, warmup |-> 1, runs |-> 3,
   minRuns |-> 1, maxRuns |-> 3, minTime |-> 0, minSamples |-> 2, setup |-> 1,
   prepareEach |-> 0, cleanup |-> 1, metrics |-> {"cpu", "memory"},
   skip |-> TRUE, terminal |-> FALSE, stdin |-> "none"]

(* A comparison: c1 on both sides, c2 on head only for its budget.         *)
Comparison ==
  [Plain EXCEPT !.sides = 2, !.compared = {c1}, !.budgeted = {c2},
                !.runs = 2, !.metrics = {"memory"}, !.skip = FALSE,
                !.cleanup = 2, !.stdin = "content"]

(* Adaptive measuring, raised from min_runs 1 to min_samples 2 in the      *)
(* comparison and kept at min_runs in the plain run.                       *)
AdaptiveComparison ==
  [Comparison EXCEPT !.runs = 0, !.warmup = 0, !.maxRuns = 3, !.minTime = 2,
                     !.metrics = {}, !.cleanup = 1, !.budgeted = {}]

AdaptivePlain ==
  [Plain EXCEPT !.runs = 0, !.minTime = 2, !.warmup = 0,
                !.metrics = {"memory", "throughput"}, !.prepareEach = 1,
                !.stdin = "file", !.skip = FALSE]

(* Benchmarks this platform refuses before it prepares anything.           *)
Refused ==
  {[Plain EXCEPT !.skip = FALSE], [Plain EXCEPT !.terminal = TRUE]}

MCBenchmarks == {Plain, Comparison, AdaptiveComparison, AdaptivePlain} \cup Refused
=============================================================================
