--------------------------- MODULE InvocationProofs ---------------------------
(***************************************************************************)
(* What Invocation promises of every run and compare, for any number of    *)
(* suites, benchmarks and reports, proved from InvocationAssumption.       *)
(***************************************************************************)
EXTENDS Invocation, SequenceTheorems, TLAPS

(***************************************************************************)
(* The inductive invariant.  What was made and what is going to be removed *)
(* are related step by step (Deferred); how much was measured is known     *)
(* exactly as long as nothing went wrong (Progress); and what went wrong   *)
(* is carried by the results to the summary and by the summary to the      *)
(* status (FailuresKept, StatusFollows), so that the three properties of   *)
(* an exit can be read off the state before it.                            *)
(***************************************************************************)
Preparing == {"destinations", "base", "metrics", "temp", "git", "checkout", "comparable"}
Measuring == {"suite", "build", "benchmarks", "measure"}
Reporting == {"log", "write"}
Working == Preparing \cup Measuring \cup {"judge"} \cup Reporting

Deferred ==
  /\ pc \in Preparing \ {"git", "checkout", "comparable"} => defers = <<>> /\ ~temp
  /\ pc \in {"git", "checkout"} => defers = <<"temp">>
  /\ pc \in Preparing \ {"comparable"} => ~worktree
  /\ pc \in Working /\ temp => defers # <<>>
  /\ pc \in Working /\ worktree => defers = <<"temp", "worktree">>
  /\ pc = "deferred" /\ temp => defers # <<>> \/ code # OK
  /\ pc = "deferred" /\ worktree => defers = <<"temp", "worktree">> \/ code # OK
  /\ pc = "exited" /\ (temp \/ worktree) => code # OK

(* Nothing has kept a benchmark of the suites so far from being measured.  *)
Intact == ~cancelled /\ "error" \notin results

(* How many benchmarks come before the one that is being measured.         *)
Expected ==
  IF pc \in {"benchmarks", "measure"}
  THEN (suite - 1) * NumBenchmarks + (bench - 1)
  ELSE (suite - 1) * NumBenchmarks

Progress ==
  /\ pc \in {"build", "benchmarks", "measure"} => suite <= NumSuites /\ bench >= 1
  /\ pc = "build" => bench = 1
  /\ pc = "measure" => bench <= NumBenchmarks
  /\ pc \in Preparing \cup Measuring =>
       /\ done <= Expected
       /\ Intact => done = Expected
  /\ pc = "judge" /\ Intact => done = NumSuites * NumBenchmarks
  /\ summary = OK => done = NumSuites * NumBenchmarks

FailuresKept ==
  /\ cause \in failures \cup {NoFailure}
  /\ \A k \in failures : Rank(k) <= Rank(cause) /\ ErrorResult(k) \in results

StatusFollows ==
  /\ pc \in Working => ~early /\ ~panicked
  /\ pc \in Preparing \cup Measuring \cup {"judge"} => summary = Unset
  /\ pc \in Reporting => summary # Unset
  /\ pc = "write" /\ Actions => logged # "no"
  /\ "error" \in results /\ summary # Unset => summary = Execution
  /\ "metric_error" \in results => summary \in {Metric, Execution, Unset}
  /\ pc \in {"deferred", "exited"} /\ ~panicked /\ summary = Unset => code # OK
  /\ pc = "deferred" /\ panicked => code \in {OK, Execution} /\ ~early
  /\ pc = "exited" /\ panicked => code = Internal /\ ~early
  /\ pc \in {"deferred", "exited"} =>
       /\ early => code = Execution
       /\ ~panicked /\ summary # Unset =>
            \/ code = Execution
            \/ /\ code = summary
               /\ \A d \in Dests : written[d] = "ok"
               /\ Actions => logged = "ok"

IInv == TypeOK /\ Deferred /\ Progress /\ FailuresKept /\ StatusFollows

USE DEF OK, Failed, Config, Usage, Execution, Internal, Metric, Statuses, Unset,
        Failures, NoFailure

-----------------------------------------------------------------------------
(* The operators of the model.                                             *)

(* Recording a failure keeps the graver of the two (recordFailure).        *)
LEMMA RecordFailureType ==
  ASSUME NEW old \in Failures \cup {NoFailure}, NEW kind \in Failures \cup {NoFailure}
  PROVE  /\ RecordFailure(old, kind) \in {old, kind}
         /\ RecordFailure(old, kind) = NoFailure => kind = NoFailure
         /\ Rank(old) <= Rank(RecordFailure(old, kind))
         /\ Rank(kind) <= Rank(RecordFailure(old, kind))
  BY DEF RecordFailure, Rank

(* A rank is a number.                                                     *)
LEMMA RankType == \A k \in Failures \cup {NoFailure} : Rank(k) \in Nat
  BY DEF Rank

(* The status of a report is that of its gravest result                    *)
(* (Summary.ExitCode).                                                     *)
LEMMA ExitCodeType ==
  /\ ExitCode(results) \in {OK, Failed, Execution, Metric}
  /\ "error" \in results => ExitCode(results) = Execution
  /\ "metric_error" \in results => ExitCode(results) \in {Metric, Execution}
  /\ ExitCode(results) = OK => "error" \notin results
  BY DEF ExitCode

(* The removals that can be deferred, one deferred and one run.            *)
LEMMA DefersFacts ==
  /\ Append(<<>>, "temp") = <<"temp">>
  /\ Append(<<"temp">>, "worktree") = <<"temp", "worktree">>
  /\ Last(<<"temp">>) = "temp" /\ Front(<<"temp">>) = <<>>
  /\ Last(<<"temp", "worktree">>) = "worktree"
  /\ Front(<<"temp", "worktree">>) = <<"temp">>
  <1> DEFINE S == {"temp", "worktree"}
             one == <<"temp">>
             two == <<"temp", "worktree">>
  <1>1. /\ one \in Seq(S) /\ Len(one) = 1 /\ one[1] = "temp"
        /\ two \in Seq(S) /\ Len(two) = 2 /\ two[1] = "temp" /\ two[2] = "worktree"
    <2>1. ASSUME NEW T, NEW x \in T, NEW y \in T
          PROVE  /\ <<x>> \in Seq(T) /\ Len(<<x>>) = 1 /\ <<x>>[1] = x
                 /\ <<x, y>> \in Seq(T) /\ Len(<<x, y>>) = 2
                 /\ <<x, y>>[1] = x /\ <<x, y>>[2] = y
      OBVIOUS
    <2>2. QED
      BY <2>1
  <1>2. Append(<<>>, "temp") = one
    <2>1. ASSUME NEW T, NEW x \in T PROVE Append(<<>>, x) = <<x>>
      OBVIOUS
    <2>2. QED
      BY <2>1
  <1>3. Last(one) = "temp" /\ Last(two) = "worktree"
    BY <1>1 DEF Last
  <1>4. Front(one) = <<>>
    BY <1>1, SubSeqEmpty DEF Front
  <1>5. Append(one, "worktree") = two
    <2> DEFINE u == Append(one, "worktree")
    <2>1. "worktree" \in S
      OBVIOUS
    <2> HIDE DEF one, two, S
    <2>2. /\ u \in Seq(S) /\ Len(u) = Len(one) + 1
          /\ \A i \in 1..Len(one) : u[i] = one[i]
          /\ u[Len(one) + 1] = "worktree"
      BY <1>1, <2>1, AppendProperties, SMTT(30)
    <2> HIDE DEF u
    <2>3. u \in Seq(S) /\ Len(u) = 2 /\ u[1] = "temp" /\ u[2] = "worktree"
      BY <1>1, <2>2
    <2>4. u = two
      BY <1>1, <2>3, SeqEqual
    <2>5. QED
      BY <2>4 DEF u
  <1>6. Front(two) = one
    <2> DEFINE u == Front(two)
    <2> HIDE DEF one, two
    <2>1. u \in Seq(S) /\ Len(u) = 1 /\ u[1] = "temp"
      BY <1>1, SubSeqProperties DEF Front
    <2> HIDE DEF u
    <2>2. u = one
      BY <1>1, <2>1, SeqEqual
    <2>3. QED
      BY <2>2 DEF u
  <1>7. QED
    BY <1>2, <1>3, <1>4, <1>5, <1>6

(* The benchmarks of the suites before the nth.                            *)
LEMMA PlannedBound ==
  ASSUME NEW n \in 1..(NumSuites + 1)
  PROVE  /\ (n - 1) * NumBenchmarks \in Nat
         /\ n * NumBenchmarks = (n - 1) * NumBenchmarks + NumBenchmarks
         /\ (n - 1) * NumBenchmarks <= NumSuites * NumBenchmarks
         /\ n <= NumSuites => n * NumBenchmarks <= NumSuites * NumBenchmarks
         /\ NumSuites * NumBenchmarks \in Nat
  BY InvocationAssumption

(* Recording two results keeps the gravest of all the failures.            *)
LEMMA NoteKeepsGravest ==
  ASSUME NEW f \in Failures \cup {NoFailure}, NEW g \in Failures \cup {NoFailure},
         cause \in Failures \cup {NoFailure}, failures \subseteq Failures,
         FailuresKept, Note(f, g),
         results \subseteq results', 
         \A k \in {f, g} \ {NoFailure} : ErrorResult(k) \in results'
  PROVE  /\ cause' \in Failures \cup {NoFailure} /\ failures' \subseteq Failures
         /\ FailuresKept'
  <1> DEFINE c == RecordFailure(cause, f)
  <1>1. c \in {cause, f} /\ Rank(cause) <= Rank(c) /\ Rank(f) <= Rank(c)
        /\ (c = NoFailure => f = NoFailure)
    BY RecordFailureType
  <1>2. /\ cause' \in {c, g} /\ Rank(c) <= Rank(cause') /\ Rank(g) <= Rank(cause')
        /\ (cause' = NoFailure => g = NoFailure)
    <2>1. c \in Failures \cup {NoFailure}
      BY <1>1
    <2>2. cause' = RecordFailure(c, g)
      BY DEF Note
    <2> HIDE DEF c
    <2>3. QED
      BY <2>1, <2>2, RecordFailureType
  <1>3. failures' = failures \cup ({f, g} \ {NoFailure})
    BY DEF Note
  <1> HIDE DEF c
  <1>4. c \in Failures \cup {NoFailure} /\ cause' \in Failures \cup {NoFailure}
    BY <1>1, <1>2
  <1>5. cause' \in failures' \cup {NoFailure}
    BY <1>1, <1>2, <1>3 DEF FailuresKept
  <1>6. ASSUME NEW k \in failures'
        PROVE  Rank(k) <= Rank(cause') /\ ErrorResult(k) \in results'
    <2>1. Rank(cause) \in Nat /\ Rank(c) \in Nat /\ Rank(cause') \in Nat /\ Rank(k) \in Nat
      BY <1>3, <1>4, <1>6, RankType
    <2>2. CASE k \in failures
      BY <2>1, <2>2, <1>1, <1>2 DEF FailuresKept
    <2>3. CASE k \in {f, g} \ {NoFailure}
      BY <2>1, <2>3, <1>1, <1>2
    <2>4. QED
      BY <1>3, <1>6, <2>2, <2>3
  <1>7. QED
    <2>1. FailuresKept'
      BY <1>5, <1>6 DEF FailuresKept, Rank, ErrorResult
    <2>2. QED
      BY <1>3, <1>4, <2>1

-----------------------------------------------------------------------------
(* The initial states satisfy the invariant.                               *)
LEMMA IInvInit == Init => IInv
  <1> SUFFICES ASSUME Init PROVE IInv
    OBVIOUS
  <1>1. TypeOK
    <2>1. 0 \in 0..(NumSuites * NumBenchmarks) /\ 1 \in 1..(NumSuites + 1)
          /\ 0 \in 0..(NumBenchmarks + 1)
      BY PlannedBound, InvocationAssumption
    <2>2. QED
      BY <2>1 DEF Init, TypeOK
  <1>2. Deferred /\ FailuresKept /\ StatusFollows
    BY DEF Init, Deferred, FailuresKept, StatusFollows, Working, Preparing, Measuring,
           Reporting
  <1>3. Progress
    BY InvocationAssumption
       DEF Init, Progress, Expected, Intact, Preparing, Measuring
  <1>4. QED
    BY <1>1, <1>2, <1>3 DEF IInv

USE DEF Working, Preparing, Measuring, Reporting

(* A step before anything is measured, and the return it may end with.     *)
LEMMA PreparingStep ==
  ASSUME IInv, pc \in Preparing,
         \/ pc' \in Preparing \cup {"suite"} /\ code' = code
         \/ pc' = "deferred" /\ code' \in Statuses \ {OK},
         UNCHANGED <<cancelled, measuring, reporting, panicked, early>>,
         TypeOK', Deferred'
  PROVE  IInv'
  <1>1. Progress'
    BY InvocationAssumption
       DEF IInv, Progress, Expected, Intact, measuring, reporting, TypeOK
  <1>2. FailuresKept' /\ StatusFollows'
    BY DEF IInv, FailuresKept, StatusFollows, measuring, reporting, TypeOK
  <1>3. QED
    BY <1>1, <1>2 DEF IInv

(* Every step keeps the invariant: the options, the preparation, the       *)
(* suites, the deferred cleanups and the interrupts.                       *)
LEMMA IInvNext == IInv /\ [Next]_vars => IInv'
  <1> SUFFICES ASSUME IInv, [Next]_vars
               PROVE  IInv'
    OBVIOUS
  <1>1. CASE CheckDestinations \/ BaseRef \/ CheckMetrics \/ OpenGit \/ CheckComparable
    <2>1. /\ pc \in Preparing
          /\ \/ pc' \in Preparing \cup {"suite"} /\ code' = code
             \/ pc' = "deferred" /\ code' \in Statuses \ {OK}
          /\ UNCHANGED <<cancelled, made, measuring, reporting, panicked, early>>
          /\ pc' \in {"git", "checkout", "comparable", "temp", "metrics", "base", "suite", "deferred"}
      BY <1>1 DEF CheckDestinations, BaseRef, CheckMetrics, OpenGit, CheckComparable,
         Return, Continue
    <2>3. TypeOK'
      BY <2>1 DEF made, measuring, reporting, IInv, TypeOK
    <2>4. Deferred'
      BY <1>1, <2>1 DEF CheckDestinations, BaseRef, CheckMetrics, OpenGit, CheckComparable, Return, Continue, made, IInv, Deferred
    <2>2. QED
      BY <2>1, <2>3, <2>4, PreparingStep
         DEF CheckDestinations, BaseRef, CheckMetrics, OpenGit, CheckComparable,
             Return, Continue
  <1>2. CASE MakeTemp \/ Checkout
    <2>1. /\ pc \in Preparing
          /\ \/ pc' \in Preparing \cup {"suite"} /\ code' = code
             \/ pc' = "deferred" /\ code' \in Statuses \ {OK}
          /\ UNCHANGED <<cancelled, measuring, reporting, panicked, early>>
      BY <1>2 DEF MakeTemp, Checkout, Return, Continue
    <2>2. defers' = defers \/ defers' = <<"temp">> \/ defers' = <<"temp", "worktree">>
      BY <1>2, DefersFacts DEF MakeTemp, Checkout, IInv, Deferred
    <2>3. TypeOK'
      <3>1. defers' \in {<<>>, <<"temp">>, <<"temp", "worktree">>}
        BY <2>2 DEF IInv, TypeOK
      <3>2. temp' \in BOOLEAN /\ worktree' \in BOOLEAN
        BY <1>2 DEF MakeTemp, Checkout, IInv, TypeOK
      <3>3. QED
        BY <2>1, <3>1, <3>2 DEF measuring, reporting, IInv, TypeOK
    <2>4. Deferred'
      BY <1>2, <2>1, DefersFacts
         DEF MakeTemp, Checkout, Return, Continue, IInv, Deferred
    <2>5. QED
      BY <2>1, <2>3, <2>4, PreparingStep
  <1>3. CASE NextSuite
    <2>1. TypeOK'
      <3>1. bench' \in 0..(NumBenchmarks + 1) /\ new' \in BOOLEAN
            /\ pc' \in {"judge", "build"} /\ code' = code
        <4>1. 1 \in 0..(NumBenchmarks + 1)
          BY InvocationAssumption
        <4>2. bench \in 0..(NumBenchmarks + 1) /\ new \in BOOLEAN
          BY DEF IInv, TypeOK
        <4>3. QED
          BY <1>3, <4>1, <4>2 DEF NextSuite, Continue
      <3>2. UNCHANGED <<cancelled, made, suite, results, cause, failures, done,
                        reporting, panicked, early>>
        BY <1>3 DEF NextSuite
      <3>3. QED
        BY <3>1, <3>2 DEF made, reporting, IInv, TypeOK
    <2>2. Deferred' /\ FailuresKept' /\ StatusFollows'
      BY <1>3 DEF NextSuite, Continue, made, reporting, IInv, Deferred, FailuresKept,
         StatusFollows
    <2>3. Progress'
      <3>1. suite \in 1..(NumSuites + 1) /\ NumSuites \in Nat /\ NumBenchmarks \in Nat
        BY InvocationAssumption DEF IInv, TypeOK
      <3>2. suite > NumSuites => (suite - 1) * NumBenchmarks = NumSuites * NumBenchmarks
        BY <3>1
      <3>3. done <= (suite - 1) * NumBenchmarks
            /\ (Intact => done = (suite - 1) * NumBenchmarks)
        BY <1>3 DEF NextSuite, IInv, Progress, Expected
      <3>4. (suite - 1) * NumBenchmarks \in Nat
        BY <3>1, PlannedBound
      <3> DEFINE before == (suite - 1) * NumBenchmarks
      <3> HIDE DEF before
      <3>5. CASE cancelled \/ suite > NumSuites
        BY <1>3, <3>2, <3>3, <3>5
           DEF NextSuite, Continue, reporting, IInv, Progress, Expected, Intact, StatusFollows
      <3>6. CASE ~(cancelled \/ suite > NumSuites)
        BY <1>3, <3>1, <3>3, <3>4, <3>6
           DEF NextSuite, Continue, reporting, IInv, Progress, Expected, Intact, StatusFollows
      <3>7. QED
        BY <3>5, <3>6
    <2>4. QED
      BY <2>1, <2>2, <2>3 DEF IInv
  <1>4. CASE Build
    <2>0. /\ pc = "build" /\ code' = code
          /\ UNCHANGED <<cancelled, made, new, bench, done, reporting, panicked, early>>
          /\ suite \in 1..(NumSuites + 1) /\ suite <= NumSuites /\ bench = 1
          /\ NumSuites \in Nat /\ NumBenchmarks \in Nat /\ done \in Nat
      BY <1>4, InvocationAssumption DEF Build, Continue, IInv, TypeOK, Progress
    <2>1. PICK before \in Nat : before = (suite - 1) * NumBenchmarks
                               /\ suite * NumBenchmarks = before + NumBenchmarks
      BY <2>0, PlannedBound
    <2>2. done <= before /\ (Intact => done = before)
      BY <2>0, <2>1 DEF IInv, Progress, Expected
    <2>3. CASE pc' = "benchmarks" /\ UNCHANGED <<suite, results, cause, failures>>
      <3>1. TypeOK' /\ Deferred' /\ FailuresKept' /\ StatusFollows'
        BY <2>0, <2>3 DEF made, reporting, IInv, TypeOK, Deferred, FailuresKept,
           StatusFollows
      <3>2. Progress'
        BY <2>0, <2>1, <2>2, <2>3 DEF reporting, IInv, Progress, Expected, Intact
      <3>3. QED
        BY <3>1, <3>2 DEF IInv
    <2>4. ASSUME NEW kind \in Possible \ {"metric"},
                 pc' = "suite", suite' = suite + 1, Note(NoFailure, kind),
                 results' = results \cup {ErrorResult(kind)}
          PROVE  IInv'
      <3>1. kind \in Failures /\ ErrorResult(kind) = "error"
        BY <2>4 DEF Possible, ErrorResult
      <3>2. FailuresKept' /\ cause' \in Failures \cup {NoFailure} /\ failures' \subseteq Failures
        BY <2>4, <3>1, NoteKeepsGravest DEF IInv, TypeOK
      <3>3. TypeOK' /\ Deferred' /\ StatusFollows'
        BY <2>0, <2>4, <3>1, <3>2 DEF made, reporting, IInv, TypeOK, Deferred, StatusFollows
      <3>4. Progress'
        <4>1. (suite' - 1) * NumBenchmarks = before + NumBenchmarks /\ ~Intact'
          BY <2>0, <2>1, <2>4, <3>1 DEF Intact
        <4>2. QED
          BY <2>0, <2>2, <2>4, <4>1 DEF reporting, IInv, Progress, Expected
      <3>5. QED
        BY <3>2, <3>3, <3>4 DEF IInv
    <2>5. QED
      BY <1>4, <2>3, <2>4 DEF Build, Continue
  <1>5. CASE NextBenchmark
    <2>1. suite \in 1..(NumSuites + 1) /\ bench \in 1..(NumBenchmarks + 1)
          /\ suite <= NumSuites /\ NumSuites \in Nat /\ NumBenchmarks \in Nat
          /\ pc = "benchmarks" /\ UNCHANGED <<code, bench, results, done, summary>>
          /\ done \in Nat
      BY <1>5, InvocationAssumption
         DEF NextBenchmark, Continue, reporting, IInv, TypeOK, Progress
    <2>2. TypeOK' /\ Deferred' /\ FailuresKept' /\ StatusFollows'
      BY <1>5, <2>1 DEF NextBenchmark,
         Continue, made, reporting, IInv, TypeOK, Deferred, FailuresKept, StatusFollows
    <2>3. Progress'
      <3>1. PICK before \in Nat : before = (suite - 1) * NumBenchmarks
                                 /\ suite * NumBenchmarks = before + NumBenchmarks
        BY <2>1, PlannedBound
      <3>2. done <= before + (bench - 1) /\ (Intact => done = before + (bench - 1))
        BY <2>1, <3>1 DEF IInv, Progress, Expected
      <3>3. CASE cancelled \/ bench > NumBenchmarks
        <4>1. /\ pc' = "suite" /\ suite' = suite + 1 /\ cancelled' = cancelled
              /\ (suite' - 1) * NumBenchmarks = before + NumBenchmarks
          BY <1>5, <2>1, <3>1, <3>3 DEF NextBenchmark, Continue
        <4>2. done <= before + NumBenchmarks /\ (Intact => done = before + NumBenchmarks)
          BY <2>1, <3>2, <3>3 DEF Intact
        <4>3. QED
          BY <2>1, <4>1, <4>2 DEF IInv, Progress, Expected, Intact
      <3>4. CASE ~(cancelled \/ bench > NumBenchmarks)
        BY <1>5, <2>1, <3>1, <3>2, <3>4
           DEF NextBenchmark, Continue, IInv, Progress, Expected, Intact
      <3>5. QED
        BY <3>3, <3>4
    <2>4. QED
      BY <2>2, <2>3 DEF IInv
  <1>6. CASE Measure
    <2>0. /\ pc = "measure" /\ pc' = "benchmarks" /\ code' = code
          /\ bench' = bench + 1 /\ done' = done + 1
          /\ UNCHANGED <<cancelled, made, suite, new, reporting, panicked, early>>
          /\ suite \in 1..(NumSuites + 1) /\ suite <= NumSuites
          /\ bench \in 1..NumBenchmarks
          /\ NumSuites \in Nat /\ NumBenchmarks \in Nat /\ done \in Nat
      BY <1>6, InvocationAssumption DEF Measure, Continue, IInv, TypeOK, Progress
    <2>1. PICK before \in Nat : before = (suite - 1) * NumBenchmarks
                               /\ before + NumBenchmarks <= NumSuites * NumBenchmarks
      BY <2>0, PlannedBound
    <2>2. done <= before + (bench - 1) /\ (Intact => done = before + (bench - 1))
      BY <2>0, <2>1 DEF IInv, Progress, Expected
    <2>3. PICK f \in Possible \cup {NoFailure}, g \in Possible \cup {NoFailure},
               v \in Verdicts :
            /\ Note(f, g)
            /\ results' = results \cup {ErrorResult(k) : k \in {f, g} \ {NoFailure}}
                          \cup (IF f = NoFailure THEN {v} ELSE {})
      BY <1>6 DEF Measure
    <2>4. f \in Failures \cup {NoFailure} /\ g \in Failures \cup {NoFailure}
      BY DEF Possible
    <2>5. FailuresKept' /\ cause' \in Failures \cup {NoFailure} /\ failures' \subseteq Failures
      BY <2>3, <2>4, NoteKeepsGravest DEF IInv, TypeOK
    <2>6. TypeOK'
      <3>1. done' \in 0..(NumSuites * NumBenchmarks) /\ bench' \in 0..(NumBenchmarks + 1)
        <4>1. NumSuites * NumBenchmarks \in Nat
          BY <2>0, PlannedBound
        <4>2. QED
          BY <2>0, <2>1, <2>2, <4>1
      <3>2. results' \subseteq {"pass", "improved", "inconclusive", "over_budget",
                               "regression", "metric_error", "error"}
        BY <2>3 DEF IInv, TypeOK, Verdicts, ErrorResult
      <3>3. QED
        BY <2>0, <2>5, <3>1, <3>2 DEF made, reporting, IInv, TypeOK
    <2>7. Deferred' /\ StatusFollows'
      BY <2>0 DEF made, reporting, IInv, Deferred, StatusFollows
    <2>8. Progress'
      <3>1. Intact' => Intact
        BY <2>0, <2>3 DEF Intact
      <3>2. QED
        BY <2>0, <2>1, <2>2, <3>1 DEF reporting, IInv, Progress, Expected
    <2>9. QED
      BY <2>5, <2>6, <2>7, <2>8 DEF IInv
  <1>7. CASE Judge
    <2>1. TypeOK' /\ Deferred' /\ FailuresKept' /\ StatusFollows'
      BY <1>7, ExitCodeType DEF Judge,
         Continue, made, measuring, IInv, TypeOK, Deferred, FailuresKept, StatusFollows
    <2>2. Progress'
      BY <1>7, ExitCodeType DEF Judge, Continue, measuring,
         IInv, TypeOK, Progress, Expected, Intact, StatusFollows
    <2>3. QED
      BY <2>1, <2>2 DEF IInv
  <1>8. ASSUME WriteLog \/ \E d \in Dests : WriteReport(d) PROVE IInv'
    <2>1. /\ pc \in Reporting /\ pc' = "write" /\ code' = code
          /\ UNCHANGED <<cancelled, made, measuring, summary, panicked, early>>
          /\ logged' \in {"no", "ok", "failed"}
          /\ Actions => logged' # "no" 
          /\ written' \in [Dests -> {"no", "ok", "failed"}]
      BY <1>8 DEF WriteLog, WriteReport, Continue, IInv, TypeOK, StatusFollows
    <2>2. TypeOK' /\ Deferred' /\ FailuresKept' /\ StatusFollows'
      BY <2>1 DEF made, measuring, IInv, TypeOK, Deferred, FailuresKept, StatusFollows
    <2>3. Progress'
      BY <2>1 DEF measuring, IInv, Progress, Expected, Intact
    <2>4. QED
      BY <2>2, <2>3 DEF IInv
  <1>9. CASE Finish
    <2>1. TypeOK' /\ Deferred' /\ FailuresKept'
      BY <1>9 DEF Finish, Return, made, measuring, reporting, IInv, TypeOK, Deferred,
         FailuresKept, StatusFollows
    <2>2. StatusFollows'
      BY <1>9 DEF Finish, Return, Range, made, measuring, reporting, IInv, TypeOK, StatusFollows
    <2>3. Progress'
      BY <1>9 DEF Finish, Return, measuring, reporting, IInv, Progress, Expected, Intact
    <2>4. QED
      BY <2>1, <2>2, <2>3 DEF IInv
  <1>10. CASE RunDeferred
    <2>1. \/ defers = <<"temp">> /\ defers' = <<>> /\ Last(defers) = "temp"
          \/ /\ defers = <<"temp", "worktree">> /\ defers' = <<"temp">>
             /\ Last(defers) = "worktree"
      BY <1>10, DefersFacts DEF RunDeferred, IInv, TypeOK
    <2>a. TypeOK'
      <3>1. defers' \in {<<>>, <<"temp">>, <<"temp", "worktree">>}
        BY <2>1
      <3>2. temp' \in BOOLEAN /\ worktree' \in BOOLEAN /\ code' \in Statuses
        BY <1>10 DEF RunDeferred, CleanupFailed, IInv, TypeOK
      <3>3. QED
        BY <1>10, <3>1, <3>2 DEF RunDeferred, measuring, reporting, IInv, TypeOK
    <2>b. Deferred'
      BY <1>10, <2>1 DEF RunDeferred, CleanupFailed, IInv, TypeOK, Deferred
    <2>2. FailuresKept' /\ StatusFollows'
      BY <1>10 DEF RunDeferred, CleanupFailed, measuring, reporting, IInv, TypeOK,
         FailuresKept, StatusFollows
    <2>3. Progress'
      BY <1>10 DEF RunDeferred, measuring, reporting, IInv, Progress, Expected, Intact
    <2>4. QED
      BY <2>a, <2>b, <2>2, <2>3 DEF IInv
  <1>11. CASE Leave
    <2>1. TypeOK' /\ Deferred' /\ FailuresKept' /\ StatusFollows'
      BY <1>11 DEF Leave, made, measuring, reporting, IInv,
         TypeOK, Deferred, FailuresKept, StatusFollows
    <2>2. Progress'
      BY <1>11 DEF Leave, measuring, reporting, IInv, Progress, Expected, Intact
    <2>3. QED
      BY <2>1, <2>2 DEF IInv
  <1>12. CASE Panic
    <2>0. pc \in Working
      BY <1>12 DEF Panic, IInv, TypeOK
    <2>1. TypeOK' /\ Deferred' /\ FailuresKept' /\ StatusFollows'
      BY <1>12, <2>0 DEF Panic, Return, made, measuring, reporting, IInv,
         TypeOK, Deferred, FailuresKept, StatusFollows
    <2>2. Progress'
      BY <1>12 DEF Panic, Return, measuring, reporting, IInv, Progress, Expected, Intact
    <2>3. QED
      BY <2>1, <2>2 DEF IInv
  <1>13. CASE Interrupt \/ InterruptAgain \/ UNCHANGED vars
    <2>0. /\ pc' = pc \/ pc' = "killed"
          /\ cancelled' \in BOOLEAN
          /\ UNCHANGED <<made, measuring, reporting, code, panicked, early>>
      BY <1>13 DEF Interrupt, InterruptAgain, vars, IInv, TypeOK
    <2>1. TypeOK' /\ Deferred' /\ FailuresKept' /\ StatusFollows'
      BY <2>0 DEF made, measuring, reporting, IInv,
         TypeOK, Deferred, FailuresKept, StatusFollows
    <2>2. Progress'
      BY <1>13 DEF Interrupt, InterruptAgain, vars, measuring, reporting, IInv, Progress, Expected, Intact
    <2>3. QED
      BY <2>1, <2>2 DEF IInv
  <1>14. QED
    BY <1>1, <1>2, <1>3, <1>4, <1>5, <1>6, <1>7, <1>8, <1>9, <1>10, <1>11, <1>12, <1>13
       DEF Next, Execute

(* Every state of every invocation satisfies the inductive invariant.      *)
THEOREM InvocationInvariant == Spec => []IInv
  <1>1. IInv /\ [Next]_vars => IInv'
    BY IInvNext
  <1>2. QED
    BY IInvInit, <1>1, PTL DEF Spec

(* Whatever was made is removed, or the status says it could not be.       *)
THEOREM LeftoversHold == Spec => []LeftoversAccounted
  <1>1. IInv => LeftoversAccounted
    BY DefersFacts DEF IInv, Deferred, TypeOK, LeftoversAccounted, Range
  <1>2. QED
    BY <1>1, InvocationInvariant, PTL

(* A success means that every benchmark was measured and every report      *)
(* written, and no interruption in between.                                *)
THEOREM SuccessHolds == Spec => []SuccessIsEarned
  <1>1. IInv => SuccessIsEarned
    BY DEF IInv, TypeOK, Progress, StatusFollows, SuccessIsEarned
  <1>2. QED
    BY <1>1, InvocationInvariant, PTL

(* The last diagnostic is the gravest failure, and the status follows it.  *)
THEOREM CauseHolds == Spec => []CauseIsGravest
  <1>1. IInv => CauseIsGravest
    <2> SUFFICES ASSUME IInv, pc = "exited", summary # Unset, ~panicked
                 PROVE  /\ failures \ {"metric"} # {} => code = Execution
                        /\ failures = {"metric"} => code \in {Metric, Execution}
      BY DEF IInv, FailuresKept, CauseIsGravest
    <2>1. code \in {summary, Execution}
      BY DEF IInv, StatusFollows
    <2>2. ASSUME NEW k \in failures, k # "metric" PROVE code = Execution
      BY <2>1, <2>2 DEF IInv, FailuresKept, ErrorResult, StatusFollows
    <2>3. ASSUME "metric" \in failures PROVE code \in {Metric, Execution}
      BY <2>1, <2>3 DEF IInv, FailuresKept, ErrorResult, StatusFollows
    <2>4. QED
      BY <2>2, <2>3
  <1>2. QED
    BY <1>1, InvocationInvariant, PTL
=============================================================================
