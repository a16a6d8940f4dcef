---------------------------- MODULE RunnerProofs ----------------------------
(***************************************************************************)
(* What Runner promises for every set of benchmarks, number of units,      *)
(* rounds and hooks, proved from RunnerAssumption.                         *)
(***************************************************************************)
EXTENDS Runner, TLAPS

USE DEF Sides, None

(* The value of a loop that is at no unit is typed as one.                 *)
LEMMA NoUnitInAllUnits == NoUnit \in AllUnits
  <1>1. PICK c \in Commands : TRUE
    BY RunnerAssumption
  <1>2. <<1, c>> \in AllUnits
    BY DEF AllUnits
  <1>3. QED
    BY <1>2 DEF NoUnit

(* What membership in Benchmarks says of the benchmark, field by field.    *)
LEMMA BenchmarkFields ==
  ASSUME b \in Benchmarks
  PROVE  /\ b.sides \in 1..2 /\ b.warmup \in Nat /\ b.runs \in Nat
         /\ b.minRuns \in Nat /\ b.maxRuns \in Nat /\ b.minTime \in Nat
         /\ b.minSamples \in Nat /\ b.setup \in Nat
         /\ b.prepareEach \in Nat /\ b.cleanup \in Nat
         /\ b.metrics \in SUBSET Groups
         /\ b.skip \in BOOLEAN
         /\ Measurable(b)
  <1>1. b \in Benchmark /\ Measurable(b)
    BY RunnerAssumption
  <1>2. QED
    BY <1>1 DEF Benchmark

(* What reading the resource usage says is one of the failures             *)
(* (recordUsage).                                                          *)
LEMMA UsageFailureType ==
  ASSUME NEW wanted \in BOOLEAN, NEW error \in {"ok", "unsupported", "failed"}
  PROVE  UsageFailure(wanted, error) \in Failures
  BY DEF UsageFailure, Failures

(* Every variable keeps its type.                                          *)
THEOREM TypeCorrect == Spec => []TypeOK
  <1>1. Init => TypeOK
    <2> SUFFICES ASSUME Init PROVE TypeOK
      OBVIOUS
    <2>1. /\ b \in Benchmarks /\ pc \in PCs /\ side \in 1..b.sides /\ hook \in Nat
          /\ exec \in {"idle", "running"} /\ failure \in Failures
          /\ cur \in AllUnits
      BY NoUnitInAllUnits, BenchmarkFields DEF Init, PCs, Failures
    <2>2. /\ failed \in [AllUnits -> Failures]
          /\ slice \in [AllUnits -> [Groups -> Nat]]
          /\ skipped \in [AllUnits -> SUBSET Groups]
      BY DEF Init, Failures
    <2>3. QED
      BY <2>1, <2>2 DEF Init, TypeOK
  <1>2. TypeOK /\ [Next]_vars => TypeOK'
    <2> SUFFICES ASSUME TypeOK, [Next]_vars
                 PROVE  TypeOK'
      OBVIOUS
    <2> USE NoUnitInAllUnits DEF TypeOK, PCs, Failures, interrupt, dirs, loop, units, history, control
    <2>0. b.sides \in 1..2 /\ b.minTime \in Nat /\ Elapsed \subseteq Nat
      BY BenchmarkFields, RunnerAssumption
    <2>a. ASSUME NEW outcome \in Outcomes, Fail(outcome) \/ UNCHANGED <<pc, failure>>,
                 outcome # "ok"
          PROVE  pc' \in PCs /\ failure' \in Failures
      BY <2>a DEF Fail, Outcomes
    <2>b. ASSUME NEW outcome \in Outcomes, outcome # "ok", RunFails(outcome)
          PROVE  /\ pc' \in PCs /\ failure' \in Failures /\ cur' \in AllUnits
                 /\ failed' \in [AllUnits -> Failures]
                 /\ warmups' \in [AllUnits -> Nat]
      <3>1. CASE outcome = "interrupted"
        BY <2>b, <3>1 DEF RunFails, Fail
      <3>2. CASE outcome = "failed"
        <4>1. /\ failed' = [failed EXCEPT ![cur] = "failed"]
              /\ cur' = NoUnit /\ pc' = "round" /\ failure' = failure
              /\ warmups' = IF Recording THEN warmups
                             ELSE [warmups EXCEPT ![cur] = @ + 1]
          BY <2>b, <3>2 DEF RunFails
        <4>2. QED
          BY <4>1
      <3>3. QED
        BY <2>b, <3>1, <3>2 DEF Outcomes
    <2>c. ASSUME NEW kind \in Failures, KeepFirst(kind)
          PROVE  failure' \in Failures
      BY <2>c DEF KeepFirst
    <2>1. CASE CheckMetrics
      BY <2>1 DEF CheckMetrics, Fail
    <2>2. CASE MakeWorkdir
      <3>1. pc' \in PCs /\ failure' \in Failures /\ hook' \in Nat
        BY <2>2 DEF MakeWorkdir, Fail
      <3>2. workdir' \in [1..2 -> BOOLEAN] /\ setupOK' \in [1..2 -> BOOLEAN]
        BY <2>2 DEF MakeWorkdir
      <3>3. QED
        BY <2>2, <3>1, <3>2 DEF MakeWorkdir
    <2>3. CASE FinishSide
      <3>1. side' \in 1..b.sides
        BY <2>3, <2>0 DEF FinishSide
      <3>2. pc' \in PCs /\ failure' \in Failures
        BY <2>3 DEF FinishSide, Fail
      <3>3. QED
        BY <2>3, <3>1, <3>2 DEF FinishSide
    <2>4. CASE MakeUnits
      BY <2>4, BenchmarkFields DEF MakeUnits, Units
    <2>5. CASE NextRound
      BY <2>5 DEF NextRound, Units
    <2>6. ASSUME NEW u \in AllUnits, PickUnit(u) PROVE TypeOK'
      BY <2>6 DEF PickUnit
    <2>7. CASE EndRound
      BY <2>7 DEF EndRound
    <2>8. CASE ProcessStarts
      <3>1. attempted' \in [1..2 -> Nat]
        BY <2>8, <2>0 DEF ProcessStarts
      <3>2. touched' \in [1..2 -> BOOLEAN]
        BY <2>8 DEF ProcessStarts
      <3>3. QED
        BY <2>8, <3>1, <3>2 DEF ProcessStarts
    <2>9. ASSUME NEW o \in Outcomes, SetupReturns(o) PROVE TypeOK'
      BY <2>9 DEF SetupReturns, Returns, Fail, Outcomes
    <2>10. ASSUME NEW o \in Outcomes, PrepareEachReturns(o) PROVE TypeOK'
      <3>1. CASE o = "ok"
        BY <2>10, <3>1 DEF PrepareEachReturns, Returns
      <3>2. CASE o # "ok"
        BY <2>10, <2>b, <3>2 DEF PrepareEachReturns, Returns
      <3>3. QED
        BY <3>1, <3>2
    <2>11. ASSUME NEW o \in Outcomes, CommandFails(o) PROVE TypeOK'
      BY <2>11, <2>b DEF CommandFails, Returns
    <2>12. ASSUME NEW o \in Outcomes, CleanupReturns(o) PROVE TypeOK'
      BY <2>12, <2>0 DEF CleanupReturns, Returns, KeepFirst, Outcomes
    <2>13. CASE CommandExits
      <3>1. PICK cpuErr \in {"ok", "unsupported", "failed"},
                 memErr \in {"ok", "unsupported", "failed"}, e \in Elapsed :
              RecordRun(cpuErr, memErr, e)
        BY <2>13 DEF CommandExits
      <3>2. failed' \in [AllUnits -> Failures]
        <4>1. DEFINE wantCPU == "cpu" \in b.metrics \ skipped[cur]
                     wantMemory == "memory" \in b.metrics \ skipped[cur]
                     cpuFailure == UsageFailure(wantCPU, cpuErr)
                     usage == IF cpuFailure # None THEN cpuFailure
                              ELSE UsageFailure(wantMemory, memErr)
        <4>2. cpuFailure \in Failures /\ usage \in Failures
          <5>1. wantCPU \in BOOLEAN /\ wantMemory \in BOOLEAN
            OBVIOUS
          <5>2. cpuFailure \in Failures
            BY <5>1, UsageFailureType
          <5>3. UsageFailure(wantMemory, memErr) \in Failures
            BY <5>1, UsageFailureType
          <5>4. QED
            BY <5>2, <5>3
        <4>3. failed' = [failed EXCEPT ![cur] = usage]
          BY <3>1 DEF RecordRun
        <4>4. QED
          BY <4>2, <4>3
      <3>3. skipped' \in [AllUnits -> SUBSET Groups]
        BY <3>1 DEF RecordRun, Groups
      <3>4. samples' \in [AllUnits -> Nat]
        BY <3>1 DEF RecordRun
      <3>5. total' \in [AllUnits -> Nat]
        <4>1. AddElapsed(total[cur], e) \in Nat
          BY <2>0 DEF AddElapsed
        <4>2. QED
          BY <3>1, <4>1 DEF RecordRun
      <3>6. slice' \in [AllUnits -> [Groups -> Nat]]
        BY <3>1 DEF RecordRun
      <3>7. QED
        BY <2>13, <3>2, <3>3, <3>4, <3>5, <3>6 DEF CommandExits, Returns
    <2>14. CASE BeginTeardown
      BY <2>14, <2>0 DEF BeginTeardown
    <2>15. CASE RemoveWorkdir
      <3>1. side' \in 1..b.sides /\ pc' \in PCs
        BY <2>15, <2>0 DEF RemoveWorkdir
      <3>2. failure' \in Failures /\ workdir' \in [1..2 -> BOOLEAN]
        BY <2>15, <2>c DEF RemoveWorkdir
      <3>3. QED
        BY <2>15, <3>1, <3>2 DEF RemoveWorkdir
    <2>16. CASE Finish
      BY <2>16 DEF Finish, KeepFirst
    <2>17. CASE Interrupt
      BY <2>17 DEF Interrupt
    <2>18. CASE GraceExpires
      BY <2>18 DEF GraceExpires
    <2>19. CASE UNCHANGED vars
      BY <2>19 DEF vars
    <2>20. QED
      BY <2>1, <2>2, <2>3, <2>4, <2>5, <2>6, <2>7, <2>8, <2>9, <2>10, <2>11,
         <2>12, <2>13, <2>14, <2>15, <2>16, <2>17, <2>18, <2>19
         DEF Next, Measure, Terminated
  <1>3. QED
    BY <1>1, <1>2, PTL DEF Spec

-----------------------------------------------------------------------------
(***************************************************************************)
(* The inductive invariant of the measuring loop.  Lockstep alone is not   *)
(* inductive: a round adds one sample to every healthy unit only because   *)
(* the unit being run is healthy and out of left, and a unit out of left   *)
(* has made the round active.  The last conjunct carries the reason the    *)
(* loop stopped through teardown.                                          *)
(***************************************************************************)
Early == {"start", "prepare", "setup", "units"}
Looping == {"rounds", "round", "unit"}
Ending == {"teardown", "cleanup", "finish", "done"}

Limit == IF b.runs > 0 THEN b.runs ELSE b.maxRuns

(* Why done may stop the loop, as far as one unit is concerned.            *)
Enough(u) ==
  IF b.runs > 0
  THEN rounds >= b.runs
  ELSE \/ rounds >= b.maxRuns
       \/ samples[u] >= MinRunsFor /\ total[u] >= b.minTime

NothingRun ==
  pc \in Early =>
    /\ warm = 0 /\ rounds = 0 /\ failure = None
    /\ \A u \in AllUnits : Healthy(u) /\ samples[u] = 0 /\ warmups[u] = 0

RoundsBounded ==
  /\ warm <= b.warmup
  /\ ~Recording => rounds = 0
  /\ rounds <= Limit
  /\ pc \in Looping => failure = None
  /\ pc \in {"round", "unit"} /\ Recording => rounds < Limit

RoundShape ==
  /\ pc \in {"round", "unit"} =>
       /\ left \subseteq Units
       /\ \A u \in Units : u \notin left => active
  /\ pc = "unit" => cur \in Units /\ cur \notin left /\ Healthy(cur)

StoppedForAReason ==
  pc \in Ending /\ failure = None =>
    \A u \in Units : Healthy(u) => samples[u] = rounds /\ Enough(u)

LoopInv == NothingRun /\ RoundsBounded /\ RoundShape /\ Lockstep /\ StoppedForAReason

USE DEF Early, Looping, Ending

(* The units of a benchmark are sides and commands.                        *)
LEMMA UnitsType == Units \subseteq AllUnits
  BY DEF Units

(* The initial states satisfy the invariant of the loop.                   *)
LEMMA LoopInvInit == Init => LoopInv
  BY BenchmarkFields
     DEF Init, LoopInv, NothingRun, RoundsBounded, RoundShape, Lockstep,
         StoppedForAReason, Limit, Healthy, RanThisRound, Recording

(* A step that leaves the loop and the units alone and either stays before *)
(* the rounds or goes to teardown with a failure.                          *)
LEMMA EarlyStep ==
  ASSUME TypeOK, LoopInv, pc \in Early, UNCHANGED <<b, loop, units>>,
         \/ pc' \in Early /\ UNCHANGED failure
         \/ pc' = "teardown" /\ failure' # None
  PROVE  LoopInv'
  BY BenchmarkFields
     DEF loop, units, LoopInv, NothingRun, RoundsBounded, RoundShape, Lockstep,
         StoppedForAReason, Limit, Healthy, RanThisRound, Recording, Units, Enough, TypeOK

(* A step of teardown: it leaves the loop and the units alone, and it may  *)
(* record a failure but never forgets one.                                 *)
LEMMA EndingStep ==
  ASSUME TypeOK, LoopInv, pc \in Ending, pc' \in Ending,
         UNCHANGED <<b, loop, units>>, failure' = None => failure = None
  PROVE  LoopInv'
  BY DEF loop, units, LoopInv, NothingRun, RoundsBounded, RoundShape, Lockstep,
         StoppedForAReason, Limit, Healthy, RanThisRound, Recording, Units, Enough,
         MinRunsFor

(* The interrupt of a running round.                                       *)
LEMMA AbandonedRound ==
  ASSUME TypeOK, LoopInv, pc = "unit", pc' = "teardown", failure' # None,
         UNCHANGED <<b, warm, rounds, samples>>
  PROVE  LoopInv'
  BY DEF LoopInv, NothingRun, RoundsBounded, RoundShape, Lockstep,
         StoppedForAReason, Limit, Recording, RanThisRound

(* A run of cur that returned, and left every other unit alone.            *)
LEMMA RunStep ==
  ASSUME TypeOK, LoopInv, pc = "unit", pc' = "round",
         UNCHANGED <<b, failure, warm, rounds, left, active>>,
         \A u \in AllUnits : u # cur =>
           /\ failed'[u] = failed[u] /\ samples'[u] = samples[u]
           /\ warmups'[u] = warmups[u],
         failed'[cur] = None =>
           /\ samples'[cur] = samples[cur] + (IF Recording THEN 1 ELSE 0)
           /\ warmups'[cur] = warmups[cur] + (IF Recording THEN 0 ELSE 1)
  PROVE  LoopInv'
  <1>1. NothingRun' /\ RoundsBounded' /\ StoppedForAReason'
    BY DEF LoopInv, NothingRun, RoundsBounded, StoppedForAReason, Limit, Recording
  <1>2. Units' = Units
    BY DEF Units
  <1>3. RoundShape'
    BY <1>2 DEF LoopInv, RoundShape
  <1>4. Lockstep'
    <2> SUFFICES ASSUME NEW u \in Units, Healthy(u)'
                 PROVE  /\ samples'[u] = rounds + (IF Recording /\ u \notin left THEN 1 ELSE 0)
                        /\ warmups'[u] = warm + (IF ~Recording /\ u \notin left THEN 1 ELSE 0)
      BY <1>2 DEF Lockstep, RanThisRound, Recording
    <2>1. u \in AllUnits
      BY UnitsType
    <2>2. CASE u = cur
      BY <2>1, <2>2 DEF LoopInv, Lockstep, RoundShape, RanThisRound, Healthy, TypeOK
    <2>3. CASE u # cur
      BY <2>1, <2>3 DEF LoopInv, Lockstep, RanThisRound, Healthy
    <2>4. QED
      BY <2>2, <2>3
  <1>5. QED
    BY <1>1, <1>3, <1>4 DEF LoopInv

(* The usage of a run fails it, or its measured run adds one sample.       *)
LEMMA RecordRunStep ==
  ASSUME TypeOK,
         NEW cpuErr \in {"ok", "unsupported", "failed"},
         NEW memErr \in {"ok", "unsupported", "failed"},
         NEW e \in Elapsed, RecordRun(cpuErr, memErr, e)
  PROVE  /\ \A u \in AllUnits : u # cur =>
              failed'[u] = failed[u] /\ samples'[u] = samples[u]
         /\ failed'[cur] = None =>
              samples'[cur] = samples[cur] + (IF Recording THEN 1 ELSE 0)
  <1> DEFINE usage == failed'[cur]
  <1>1. failed' = [failed EXCEPT ![cur] = usage]
    BY DEF RecordRun, TypeOK
  <1>2. samples' = IF Recording /\ usage = None
                   THEN [samples EXCEPT ![cur] = @ + 1] ELSE samples
    BY DEF RecordRun, TypeOK
  <1>3. QED
    BY <1>1, <1>2 DEF TypeOK

(* Every step keeps the invariant of the loop.                             *)
LEMMA LoopInvNext == TypeOK /\ LoopInv /\ [Next]_vars => LoopInv'
  <1> SUFFICES ASSUME TypeOK, LoopInv, [Next]_vars
               PROVE  LoopInv'
    OBVIOUS
  <1>0. NoUnit \in AllUnits
    BY NoUnitInAllUnits
  <1>1. CASE CheckMetrics
    <2>1. \/ pc' \in Early /\ UNCHANGED failure
          \/ pc' = "teardown" /\ failure' # None
      BY <1>1 DEF CheckMetrics, Fail
    <2>2. QED
      BY <1>1, <2>1, EarlyStep DEF CheckMetrics
  <1>2. CASE MakeWorkdir
    <2>1. \/ pc' \in Early /\ UNCHANGED failure
          \/ pc' = "teardown" /\ failure' # None
      BY <1>2 DEF MakeWorkdir, Fail
    <2>2. QED
      BY <1>2, <2>1, EarlyStep DEF MakeWorkdir
  <1>3. CASE FinishSide
    <2>1. \/ pc' \in Early /\ UNCHANGED failure
          \/ pc' = "teardown" /\ failure' # None
      BY <1>3 DEF FinishSide, Fail
    <2>2. QED
      BY <1>3, <2>1, EarlyStep DEF FinishSide
  <1>4. CASE MakeUnits
    BY <1>4, UnitsType, BenchmarkFields
       DEF MakeUnits, loop, LoopInv, NothingRun, RoundsBounded, RoundShape, Lockstep,
           StoppedForAReason, Limit, Healthy, RanThisRound, Recording, Units, TypeOK
  <1>5. CASE NextRound
    <2>1. CASE Recording /\ Done
      <3>1. \A u \in Units : Healthy(u) => samples[u] = rounds /\ Enough(u)
        BY <1>5, <2>1, UnitsType
           DEF NextRound, LoopInv, Lockstep, RanThisRound, Done, Enough, TypeOK
      <3>2. QED
        BY <1>5, <2>1, <3>1
           DEF NextRound, LoopInv, NothingRun, RoundsBounded, RoundShape, Lockstep,
               StoppedForAReason, Limit, Healthy, RanThisRound, Recording, Units,
               Enough, MinRunsFor, units
    <2>2. CASE ~(Recording /\ Done)
      <3>1. Recording => rounds < Limit
        BY <2>2, BenchmarkFields DEF Done, Limit, TypeOK
      <3>2. QED
        BY <1>5, <2>2, <3>1, UnitsType
           DEF NextRound, LoopInv, NothingRun, RoundsBounded, RoundShape, Lockstep,
               StoppedForAReason, Limit, Healthy, RanThisRound, Recording, Units, units
    <2>3. QED
      BY <2>1, <2>2
  <1>6. ASSUME NEW u \in AllUnits, PickUnit(u) PROVE LoopInv'
    <2>1. NothingRun' /\ RoundsBounded' /\ StoppedForAReason'
      BY <1>6 DEF PickUnit, LoopInv, NothingRun, RoundsBounded, StoppedForAReason,
                  Limit, Recording
    <2>2. RoundShape'
      BY <1>6 DEF PickUnit, LoopInv, RoundShape, Units, Healthy, units, TypeOK
    <2>3. Lockstep'
      BY <1>6, UnitsType
         DEF PickUnit, LoopInv, Lockstep, RanThisRound, Recording, Healthy, Units, units
    <2>4. QED
      BY <2>1, <2>2, <2>3 DEF LoopInv
  <1>7. CASE EndRound
    <2>1. \A u \in Units : Healthy(u) =>
             /\ u \notin left /\ active
             /\ samples[u] = rounds + (IF Recording THEN 1 ELSE 0)
             /\ warmups[u] = warm + (IF Recording THEN 0 ELSE 1)
      BY <1>7 DEF EndRound, LoopInv, Lockstep, RanThisRound, RoundShape
    <2>2. NothingRun' /\ RoundsBounded' /\ RoundShape'
      <3>1. /\ b.warmup \in Nat /\ Limit \in Nat /\ warm \in Nat /\ rounds \in Nat
            /\ b' = b /\ Limit' = Limit /\ UNCHANGED failure
        BY <1>7, BenchmarkFields DEF EndRound, Limit, TypeOK
      <3>2. NothingRun' /\ RoundShape'
        BY <1>7 DEF EndRound, NothingRun, RoundShape
      <3>3. RoundsBounded'
        BY <1>7, <3>1 DEF EndRound, LoopInv, RoundsBounded, Recording
      <3>4. QED
        BY <3>2, <3>3
    <2>3. Lockstep' /\ StoppedForAReason'
      BY <1>7, <2>1, UnitsType
         DEF EndRound, Lockstep, StoppedForAReason, RanThisRound, Recording, Healthy,
             Units, units, LoopInv, RoundsBounded, TypeOK
    <2>4. QED
      BY <2>2, <2>3 DEF LoopInv
  <1>8. CASE ProcessStarts
    BY <1>8 DEF ProcessStarts, loop, units, LoopInv, NothingRun, RoundsBounded,
                RoundShape, Lockstep, StoppedForAReason, Limit, Healthy, RanThisRound,
                Recording, Units, Enough, MinRunsFor
  <1>9. ASSUME NEW o \in Outcomes, SetupReturns(o) PROVE LoopInv'
    <2>1. \/ pc' \in Early /\ UNCHANGED failure
          \/ pc' = "teardown" /\ failure' # None
      BY <1>9 DEF SetupReturns, Fail, Outcomes
    <2>2. QED
      BY <1>9, <2>1, EarlyStep DEF SetupReturns
  <1>10. ASSUME NEW o \in Outcomes, PrepareEachReturns(o) PROVE LoopInv'
    <2>1. CASE o = "ok"
      BY <1>10, <2>1 DEF PrepareEachReturns, LoopInv, NothingRun, RoundsBounded,
                RoundShape, Lockstep, StoppedForAReason, Limit, Healthy, RanThisRound,
                Recording, Units, Enough, MinRunsFor
    <2>2. CASE o = "interrupted"
      BY <1>10, <2>2, AbandonedRound DEF PrepareEachReturns, RunFails, Fail
    <2>3. CASE o = "failed"
      BY <1>10, <2>3, RunStep DEF PrepareEachReturns, RunFails, TypeOK
    <2>4. QED
      BY <2>1, <2>2, <2>3 DEF Outcomes
  <1>11. ASSUME NEW o \in Outcomes, CommandFails(o) PROVE LoopInv'
    <2>1. CASE o = "interrupted"
      BY <1>11, <2>1, AbandonedRound DEF CommandFails, RunFails, Fail
    <2>2. CASE o = "failed"
      BY <1>11, <2>2, RunStep DEF CommandFails, RunFails, TypeOK
    <2>3. QED
      BY <1>11, <2>1, <2>2 DEF CommandFails, Outcomes
  <1>12. ASSUME NEW o \in Outcomes, CleanupReturns(o) PROVE LoopInv'
    BY <1>12, EndingStep DEF CleanupReturns, KeepFirst
  <1>13. CASE CommandExits
    <2>1. PICK cpuErr \in {"ok", "unsupported", "failed"},
               memErr \in {"ok", "unsupported", "failed"}, e \in Elapsed :
            RecordRun(cpuErr, memErr, e)
      BY <1>13 DEF CommandExits
    <2>2. /\ \A u \in AllUnits : u # cur =>
               failed'[u] = failed[u] /\ samples'[u] = samples[u]
          /\ failed'[cur] = None =>
               samples'[cur] = samples[cur] + (IF Recording THEN 1 ELSE 0)
      BY <2>1, RecordRunStep
    <2>3. /\ \A u \in AllUnits : u # cur => warmups'[u] = warmups[u]
          /\ warmups'[cur] = warmups[cur] + (IF Recording THEN 0 ELSE 1)
      BY <1>13 DEF CommandExits, TypeOK
    <2>4. QED
      BY <1>13, <2>2, <2>3, RunStep DEF CommandExits
  <1>14. CASE BeginTeardown
    BY <1>14, EndingStep DEF BeginTeardown
  <1>15. CASE RemoveWorkdir
    BY <1>15, EndingStep DEF RemoveWorkdir, KeepFirst
  <1>16. CASE Finish
    BY <1>16, EndingStep DEF Finish, KeepFirst
  <1>17. CASE Interrupt \/ GraceExpires \/ UNCHANGED vars
    BY <1>17 DEF Interrupt, GraceExpires, vars, control, loop, units, LoopInv,
                NothingRun, RoundsBounded, RoundShape, Lockstep, StoppedForAReason,
                Limit, Healthy, RanThisRound, Recording, Units, Enough, MinRunsFor
  <1>18. QED
    BY <1>1, <1>2, <1>3, <1>4, <1>5, <1>6, <1>7, <1>8, <1>9, <1>10, <1>11, <1>12,
       <1>13, <1>14, <1>15, <1>16, <1>17 DEF Next, Measure, Terminated

(* In every state the rounds are bounded, every healthy unit has run in    *)
(* the rounds that are complete, and the loop stopped for a reason         *)
(* (measureUnits).                                                         *)
THEOREM LoopInvariant == Spec => []LoopInv
  <1>1. TypeOK /\ LoopInv /\ [Next]_vars => LoopInv'
    BY LoopInvNext
  <1>2. QED
    BY LoopInvInit, <1>1, TypeCorrect, PTL DEF Spec

(* All healthy units hold the same sample count, one per completed round.  *)
THEOREM LockstepHolds == Spec => []Lockstep
  <1>1. LoopInv => Lockstep
    BY DEF LoopInv
  <1>2. QED
    BY <1>1, LoopInvariant, PTL

(* A benchmark without a failure was measured to the end, with enough      *)
(* samples for the verdict of a comparison.                                *)
THEOREM CompletenessHolds == Spec => []CompleteUnlessFailed
  <1>1. TypeOK /\ LoopInv => CompleteUnlessFailed
    <2> SUFFICES ASSUME TypeOK, LoopInv, pc = "done", failure = None,
                        NEW u \in Units, Healthy(u)
                 PROVE  /\ b.runs > 0 => samples[u] = b.runs
                        /\ b.runs = 0 =>
                             /\ samples[u] <= b.maxRuns
                             /\ \/ samples[u] = b.maxRuns
                                \/ samples[u] >= MinRunsFor /\ total[u] >= b.minTime
                        /\ b.sides = 2 => samples[u] >= b.minSamples
      BY DEF CompleteUnlessFailed
    <2>1. samples[u] = rounds /\ Enough(u) /\ rounds <= Limit
      BY DEF LoopInv, StoppedForAReason, RoundsBounded
    <2>2. /\ b.runs \in Nat /\ b.maxRuns \in Nat /\ b.minRuns \in Nat
          /\ b.minSamples \in Nat /\ rounds \in Nat /\ Measurable(b)
      BY BenchmarkFields DEF TypeOK
    <2>3. QED
      BY <2>1, <2>2 DEF Enough, Limit, MinRunsFor, Measurable
  <1>2. QED
    BY <1>1, LoopInvariant, TypeCorrect, PTL

-----------------------------------------------------------------------------
(* The slices of a unit stay aligned with its samples.                     *)
SliceInv ==
  /\ pc \in Early => \A u \in AllUnits :
       samples[u] = 0 /\ \A g \in Groups : slice[u][g] = 0
  /\ SlicesAligned

(* What recordRun does to one slice of the unit it was called for.         *)
LEMMA RecordRunSlices ==
  ASSUME TypeOK, SlicesAligned, cur \in Units,
         NEW cpuErr \in {"ok", "unsupported", "failed"},
         NEW memErr \in {"ok", "unsupported", "failed"},
         NEW e \in Elapsed, RecordRun(cpuErr, memErr, e),
         NEW g \in Groups
  PROVE  slice'[cur][g] = IF g \in b.metrics \ skipped'[cur] THEN samples'[cur] ELSE 0
  <1> DEFINE wantCPU == "cpu" \in b.metrics \ skipped[cur]
             wantMemory == "memory" \in b.metrics \ skipped[cur]
             cpuFailure == UsageFailure(wantCPU, cpuErr)
             usage == IF cpuFailure # None THEN cpuFailure
                      ELSE UsageFailure(wantMemory, memErr)
             skips == (IF wantCPU /\ cpuErr = "unsupported" /\ b.skip THEN {"cpu"} ELSE {})
                      \cup (IF cpuFailure = None /\ wantMemory /\ memErr = "unsupported" /\ b.skip
                            THEN {"memory"} ELSE {})
             grows == Recording /\ usage = None
             kept == b.metrics \ (skipped[cur] \cup skips)
  <1>1. /\ skipped'[cur] = skipped[cur] \cup skips
        /\ samples'[cur] = IF grows THEN samples[cur] + 1 ELSE samples[cur]
        /\ slice'[cur][g] = IF g \in skips THEN 0
                            ELSE IF grows /\ g \in kept THEN slice[cur][g] + 1
                            ELSE slice[cur][g]
    BY DEF RecordRun, TypeOK
  <1>2. slice[cur][g] = IF g \in b.metrics \ skipped[cur] THEN samples[cur] ELSE 0
    BY DEF SlicesAligned
  <1> HIDE DEF usage, skips, grows
  <1>3. QED
    BY <1>1, <1>2

(* Every step keeps what was recorded aligned with the samples.            *)
LEMMA SliceInvNext == TypeOK /\ LoopInv /\ SliceInv /\ [Next]_vars => SliceInv'
  <1> SUFFICES ASSUME TypeOK, LoopInv, SliceInv, [Next]_vars
               PROVE  SliceInv'
    OBVIOUS
  <1>1. CASE UNCHANGED <<b, samples, slice, skipped>> /\ (pc' \in Early => pc \in Early)
    BY <1>1 DEF SliceInv, SlicesAligned, Units
  <1>2. CASE MakeUnits
    BY <1>2, UnitsType, BenchmarkFields
       DEF MakeUnits, SliceInv, SlicesAligned, Units, TypeOK
  <1>3. CASE CommandExits
    <2>1. PICK cpuErr \in {"ok", "unsupported", "failed"},
               memErr \in {"ok", "unsupported", "failed"}, e \in Elapsed :
            RecordRun(cpuErr, memErr, e)
      BY <1>3 DEF CommandExits
    <2>2. pc = "unit" /\ pc' = "round" /\ b' = b
      BY <1>3 DEF CommandExits
    <2>3. SUFFICES ASSUME NEW u \in Units, NEW g \in Groups
                   PROVE  slice'[u][g] = IF g \in b.metrics \ skipped'[u]
                                         THEN samples'[u] ELSE 0
      BY <2>2 DEF SliceInv, SlicesAligned, Units
    <2>4. CASE u = cur
      BY <2>1, <2>4, RecordRunSlices DEF SliceInv
    <2>5. CASE u # cur
      <3>1. slice'[u] = slice[u] /\ skipped'[u] = skipped[u] /\ samples'[u] = samples[u]
        BY <2>1, <2>5, UnitsType DEF RecordRun, TypeOK
      <3>2. QED
        BY <3>1 DEF SliceInv, SlicesAligned
    <2>6. QED
      BY <2>4, <2>5
  <1>4. QED
    <2>1. CASE CheckMetrics \/ MakeWorkdir \/ FinishSide \/ NextRound \/ EndRound
      BY <2>1, <1>1 DEF CheckMetrics, MakeWorkdir, FinishSide, NextRound, EndRound, Fail, units
    <2>2. ASSUME NEW u \in AllUnits, PickUnit(u) PROVE SliceInv'
      BY <2>2, <1>1 DEF PickUnit, units
    <2>3. ASSUME NEW o \in Outcomes,
                 \/ SetupReturns(o) \/ PrepareEachReturns(o)
                 \/ CommandFails(o) \/ CleanupReturns(o)
          PROVE  SliceInv'
      BY <2>3, <1>1 DEF SetupReturns, PrepareEachReturns, CommandFails, CleanupReturns,
                        RunFails, Fail, units
    <2>4. CASE ProcessStarts \/ BeginTeardown \/ RemoveWorkdir \/ Finish
      BY <2>4, <1>1 DEF ProcessStarts, BeginTeardown, RemoveWorkdir, Finish, units
    <2>5. CASE Interrupt \/ GraceExpires \/ UNCHANGED vars
      BY <2>5, <1>1 DEF Interrupt, GraceExpires, vars, control, units
    <2>6. QED
      BY <1>2, <1>3, <2>1, <2>2, <2>3, <2>4, <2>5 DEF Next, Measure, Terminated

(* Every slice has one entry per sample, whatever was skipped or failed.   *)
THEOREM SlicesAlignedHolds == Spec => []SlicesAligned
  <1>1. Init => SliceInv
    BY UnitsType DEF Init, SliceInv, SlicesAligned
  <1>2. TypeOK /\ LoopInv /\ SliceInv /\ [Next]_vars => SliceInv'
    BY SliceInvNext
  <1>3. SliceInv => SlicesAligned
    BY DEF SliceInv
  <1>4. QED
    BY <1>1, <1>2, <1>3, TypeCorrect, LoopInvariant, PTL DEF Spec

(* SamplesAligned: in every state of every measured benchmark the samples  *)
(* can be paired, across the sides and with what was collected beside them.*)
THEOREM SamplesAlignedHolds == Spec => []SamplesAligned
BY TypeCorrect, LockstepHolds, SlicesAlignedHolds, PTL DEF SamplesAligned

-----------------------------------------------------------------------------
(* No step replaces the first failure of a benchmark: before teardown      *)
(* there is none (RoundsBounded and NothingRun), and teardown keeps it.    *)
THEOREM FirstFailureHolds == Spec => FirstFailureKept
  <1>1. TypeOK /\ LoopInv /\ [Next]_vars => [failure # None => failure' = failure]_vars
    <2> SUFFICES ASSUME TypeOK, LoopInv, Next, failure # None
                 PROVE  failure' = failure
      OBVIOUS
    <2>1. pc \in Ending
      BY DEF TypeOK, PCs, LoopInv, NothingRun, RoundsBounded
    <2>2. QED
      BY <2>1 DEF Next, Measure, CheckMetrics, MakeWorkdir, FinishSide, MakeUnits,
          NextRound, EndRound, PickUnit, ProcessStarts, SetupReturns, PrepareEachReturns,
          CommandFails, CleanupReturns, CommandExits, BeginTeardown, RemoveWorkdir,
          Finish, KeepFirst, Interrupt, GraceExpires, Terminated, vars
  <1>2. QED
    BY <1>1, TypeCorrect, LoopInvariant, PTL DEF Spec, FirstFailureKept
-----------------------------------------------------------------------------
(***************************************************************************)
(* The inductive invariant of teardown.  TornDown alone is not inductive:  *)
(* the hooks of a side add up only because the processes of a phase are    *)
(* counted one by one (HooksCounted), because no process is started on a   *)
(* side before that side is marked for cleanup (SidesPrepared), and        *)
(* because the context of the hooks is chosen once, after the interrupt it *)
(* has to survive (ContextChosen).                                         *)
(***************************************************************************)
Removing == {"cleanup", "finish", "done"}

(* Nothing keeps teardown from attempting the cleanup hooks.               *)
Spared == cancelled => grace /\ ~expired

(* The sides prepareSide has reached, as far as the program counter tells. *)
Prepared(s) ==
  CASE pc \in {"start", "prepare"} -> s < side
    [] pc = "setup" -> s <= side
    [] pc \in {"units"} \cup Looping -> s <= b.sides
    [] OTHER -> FALSE

(* The sides whose workdir and hooks teardown is done with.                *)
Removed(s) ==
  /\ pc \in Removing
  /\ pc = "cleanup" => s < side

ContextChosen ==
  /\ grace => cancelled /\ pc \in Removing
  /\ expired => grace
  /\ pc = "done" /\ cancelled => failure # None

HooksCounted ==
  exec = "running" => pc \in {"setup", "unit", "cleanup"} /\ hook < Processes

SidesPrepared ==
  /\ pc = "start" => side = 1
  /\ \A s \in Sides :
       /\ Prepared(s) => setupOK[s]
       /\ touched[s] => setupOK[s] /\ s <= b.sides
       /\ s > b.sides => ~workdir[s]
       /\ Removed(s) /\ failure = None => ~workdir[s]

HooksAttempted ==
  /\ pc = "cleanup" => hook <= Processes
  /\ \A s \in Sides :
       /\ pc \notin Removing \/ (pc = "cleanup" /\ s > side) => attempted[s] = 0
       /\ Spared /\ pc = "cleanup" /\ s = side =>
            attempted[s] = hook + (IF exec = "running" THEN 1 ELSE 0)
       /\ Spared /\ Removed(s) /\ touched[s] => attempted[s] = b.cleanup

TeardownInv == ContextChosen /\ HooksCounted /\ SidesPrepared /\ HooksAttempted

(* The initial states satisfy the invariant of the teardown.               *)
LEMMA TeardownInvInit == Init => TeardownInv
  BY BenchmarkFields
     DEF Init, TeardownInv, ContextChosen, HooksCounted, SidesPrepared,
         HooksAttempted, Prepared, Removed, Removing

(* How many processes a phase has.                                         *)
LEMMA ProcessesType == TypeOK => Processes \in Nat
  BY BenchmarkFields DEF Processes, TypeOK

(* Every step keeps the invariant of the teardown.                         *)
LEMMA TeardownInvNext == TypeOK /\ LoopInv /\ TeardownInv /\ [Next]_vars => TeardownInv'
  <1> SUFFICES ASSUME TypeOK, LoopInv, TeardownInv, [Next]_vars
               PROVE  TeardownInv'
    OBVIOUS
  <1> USE DEF TeardownInv, Removing
  <1>0. /\ b.sides \in 1..2 /\ b.cleanup \in Nat /\ b.setup \in Nat
        /\ b.prepareEach \in Nat /\ Processes \in Nat /\ hook \in Nat
        /\ side \in 1..b.sides
    BY BenchmarkFields, ProcessesType DEF TypeOK
  <1>1. CASE CheckMetrics
    BY <1>1, <1>0 DEF CheckMetrics, Fail, interrupt, dirs, history, ContextChosen,
       HooksCounted, SidesPrepared, HooksAttempted, Prepared, Removed, Processes
  <1>2. CASE MakeWorkdir
    BY <1>2, <1>0 DEF MakeWorkdir, Fail, interrupt, dirs, history, ContextChosen,
       HooksCounted, SidesPrepared, HooksAttempted, Prepared, Removed, Processes, TypeOK
  <1>3. CASE FinishSide
    BY <1>3, <1>0 DEF FinishSide, Fail, interrupt, dirs, history, ContextChosen,
       HooksCounted, SidesPrepared, HooksAttempted, Prepared, Removed, Processes
  <1>4. CASE MakeUnits \/ NextRound \/ EndRound
    BY <1>4, <1>0 DEF MakeUnits, NextRound, EndRound, interrupt, dirs, history,
       ContextChosen, HooksCounted, SidesPrepared, HooksAttempted, Prepared, Removed,
       Processes
  <1>5. ASSUME NEW u \in AllUnits, PickUnit(u) PROVE TeardownInv'
    BY <1>5, <1>0 DEF PickUnit, interrupt, dirs, history,
       ContextChosen, HooksCounted, SidesPrepared, HooksAttempted, Prepared, Removed,
       Processes
  <1>6. CASE ProcessStarts
    <2>1. pc \in {"setup", "unit", "cleanup"}
      BY <1>6, <1>0 DEF ProcessStarts, Processes
    <2>2. Owner \in Sides /\ Owner <= b.sides /\ setupOK[Owner]
      <3>1. CASE pc = "unit"
        <4>1. cur \in AllUnits /\ cur[1] <= b.sides
          BY <3>1 DEF LoopInv, RoundShape, Units
        <4>2. cur[1] \in Sides
          BY <4>1 DEF AllUnits
        <4>3. Prepared(cur[1])
          BY <3>1, <4>1 DEF Prepared
        <4>4. QED
          BY <3>1, <4>1, <4>2, <4>3 DEF Owner, SidesPrepared
      <3>2. CASE pc = "setup"
        BY <3>2, <1>0 DEF Owner, SidesPrepared, Prepared
      <3>3. CASE pc = "cleanup"
        BY <1>6, <3>3, <1>0 DEF ProcessStarts, Processes, Owner, TypeOK
      <3>4. QED
        BY <2>1, <3>1, <3>2, <3>3
    <2>3. ContextChosen' /\ HooksCounted'
      BY <1>6, <2>1 DEF ProcessStarts, interrupt, dirs, ContextChosen, HooksCounted,
         Processes
    <2>4. SidesPrepared'
      BY <1>6, <2>2 DEF ProcessStarts, dirs, SidesPrepared, Prepared, Removed, TypeOK
    <2>5. HooksAttempted'
      BY <1>6, <1>0 DEF ProcessStarts, interrupt, dirs, Owner,
         HooksAttempted, Removed, Processes, Spared, TypeOK
    <2>6. QED
      BY <2>3, <2>4, <2>5
  <1>7. ASSUME NEW o \in Outcomes, SetupReturns(o) PROVE TeardownInv'
    BY <1>7, <1>0 DEF SetupReturns, Returns, Fail, interrupt, dirs, history,
       ContextChosen, HooksCounted, SidesPrepared, HooksAttempted, Prepared, Removed,
       Processes
  <1>8. ASSUME NEW o \in Outcomes, PrepareEachReturns(o) \/ CommandFails(o)
        PROVE  TeardownInv'
    BY <1>8, <1>0 DEF PrepareEachReturns, CommandFails, RunFails, Returns, Fail,
       interrupt, dirs, history,
       ContextChosen, HooksCounted, SidesPrepared, HooksAttempted, Prepared, Removed,
       Processes
  <1>9. CASE CommandExits
    BY <1>9, <1>0 DEF CommandExits, Returns, interrupt, dirs, history,
       ContextChosen, HooksCounted, SidesPrepared, HooksAttempted, Prepared, Removed,
       Processes
  <1>10. CASE BeginTeardown
    BY <1>10, <1>0 DEF BeginTeardown, interrupt, dirs, history,
       ContextChosen, HooksCounted, SidesPrepared, HooksAttempted, Prepared, Removed,
       Processes, Spared, TypeOK
  <1>11. ASSUME NEW o \in Outcomes, CleanupReturns(o) PROVE TeardownInv'
    BY <1>11, <1>0 DEF CleanupReturns, Returns, KeepFirst, ContextDone, Outcomes,
       interrupt, dirs,
       ContextChosen, HooksCounted, SidesPrepared, HooksAttempted, Prepared, Removed,
       Processes, Spared, TypeOK
  <1>12. CASE RemoveWorkdir
    BY <1>12, <1>0 DEF RemoveWorkdir, KeepFirst, interrupt, dirs, history,
       ContextChosen, HooksCounted, SidesPrepared, HooksAttempted, Prepared, Removed,
       Processes, Spared, TypeOK
  <1>13. CASE Finish
    BY <1>13, <1>0 DEF Finish, KeepFirst, interrupt, dirs, history,
       ContextChosen, HooksCounted, SidesPrepared, HooksAttempted, Prepared, Removed,
       Processes, Spared
  <1>14. CASE Interrupt \/ GraceExpires
    BY <1>14, <1>0 DEF Interrupt, GraceExpires, control, dirs, history,
       ContextChosen, HooksCounted, SidesPrepared, HooksAttempted, Prepared, Removed,
       Processes, Spared, TypeOK
  <1>15. CASE UNCHANGED vars
    BY <1>15 DEF vars, control, interrupt, dirs, history,
       ContextChosen, HooksCounted, SidesPrepared, HooksAttempted, Prepared, Removed,
       Processes, Spared
  <1>16. QED
    BY <1>1, <1>2, <1>3, <1>4, <1>5, <1>6, <1>7, <1>8, <1>9, <1>10, <1>11, <1>12,
       <1>13, <1>14, <1>15 DEF Next, Measure, Terminated

(* The hooks of every side that was touched are attempted, no workdir and  *)
(* no interrupt is passed over in silence.                                 *)
THEOREM TornDownHolds == Spec => []TornDown
  <1>1. TypeOK /\ LoopInv /\ TeardownInv /\ [Next]_vars => TeardownInv'
    BY TeardownInvNext
  <1>2. TypeOK /\ TeardownInv => TornDown
    BY BenchmarkFields
       DEF TypeOK, TeardownInv, ContextChosen, SidesPrepared, HooksAttempted, Removed,
           Removing, Spared, TornDown
  <1>3. QED
    BY <1>1, <1>2, TeardownInvInit, TypeCorrect, LoopInvariant, PTL DEF Spec
=============================================================================
