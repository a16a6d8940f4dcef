------------------------------ MODULE ProcRun -------------------------------
(***************************************************************************)
(* proc.run: himorime starts a command itself.  On Unix the command joins  *)
(* its process group before it executes anything; on Windows (suspends) it *)
(* is created suspended, put in a Job Object and only then resumed.  One   *)
(* goroutine waits for the command, another watches the timeout and the    *)
(* context and kills the tree.                                             *)
(*                                                                         *)
(* A command is its leader and the rest of its tree: its job, or on Unix   *)
(* its process group, which a descendant may leave at any time (setsid,    *)
(* setpgid) and is then out of himorime's reach.  The leader is assumed to *)
(* stay: it leads the group and cannot make a new session, and nothing but *)
(* an explicit move into another group of its session takes it out.  A     *)
(* killed process is "doomed": it runs no more code of its own, but the    *)
(* system takes its time to remove it.                                     *)
(***************************************************************************)
EXTENDS Naturals

CONSTANTS
  Suspending, \* the values of suspendedUntilAttached to check: see suspends
  MaxCommands,\* how many commands are run
  MaxRSS      \* the largest resident set of himorime, in some unit

ASSUME ProcRunAssumption ==
  /\ Suspending \subseteq BOOLEAN
  /\ MaxCommands \in Nat \ {0}
  /\ MaxRSS \in Nat \ {0}

Commands == 1..MaxCommands

VARIABLES
  suspends,  \* does a command start suspended? (Windows; never changes)
  cancelled, \* is the context canceled?
  n,         \* the command of the current call; 0 before the first
  pc,        \* where the call is
  expired,   \* has the timeout of the call expired?
  watcher,   \* the goroutine of each call that runs watch
  killed,    \* why the current command was killed
  outcome,   \* what the last call returned
  tree,      \* the tree handle of each command
  leader,    \* the first process of each command
  member,    \* does the leader belong to the tree?
  rest,      \* the other processes of the tree
  stray,     \* history: how a process of the command came to be outside the tree
  ran,       \* history: has the leader executed any code?
  ended,     \* history: did the leader end by itself or killed?
  rss,       \* the resident set of himorime now
  peak,      \* its peak since the last reset
  inherited, \* the peak the kernel folded into the command's own
  floor      \* the peak himorime reads for the command

call == <<n, pc, outcome>>
timing == <<expired, killed>>
processes == <<leader, member, rest, stray, ran, ended>>
memory == <<rss, peak, inherited, floor>>
vars == <<suspends, cancelled, call, timing, watcher, tree, processes, memory>>

Init ==
  /\ suspends \in Suspending /\ cancelled = FALSE
  /\ n = 0 /\ pc = "idle" /\ outcome = "none"
  /\ expired = FALSE /\ killed = "none"
  /\ watcher = [c \in Commands |-> "off"]
  /\ tree = [c \in Commands |-> "none"]
  /\ leader = [c \in Commands |-> "none"]
  /\ member = [c \in Commands |-> FALSE]
  /\ rest = [c \in Commands |-> "none"]
  /\ stray = [c \in Commands |-> "no"] /\ ran = [c \in Commands |-> FALSE]
  /\ ended = [c \in Commands |-> "no"]
  /\ rss = 1 /\ peak = 1 /\ inherited = 0 /\ floor = 0

-----------------------------------------------------------------------------
(* Killing.                                                                *)

CanDie(c) == leader[c] \in {"suspended", "running"}

KillLeader(c) ==
  /\ leader' = IF CanDie(c) THEN [leader EXCEPT ![c] = "doomed"] ELSE leader
  /\ ended' = IF CanDie(c) THEN [ended EXCEPT ![c] = "killed"] ELSE ended

(* tree.kill, and what closing the last handle of a job does: every member *)
(* of the tree is killed, and nothing else.                                *)
KillTree(c) ==
  /\ IF member[c] THEN KillLeader(c) ELSE UNCHANGED <<leader, ended>>
  /\ rest' = IF rest[c] = "running" THEN [rest EXCEPT ![c] = "doomed"] ELSE rest
  /\ UNCHANGED <<member, stray, ran>>

-----------------------------------------------------------------------------
(* The call.                                                               *)

Return(o) == pc' = "idle" /\ outcome' = o /\ UNCHANGED n

Call ==
  /\ pc = "idle" /\ n < MaxCommands
  /\ n' = n + 1 /\ pc' = "check" /\ outcome' = "none"
  /\ expired' = FALSE /\ killed' = "none" /\ inherited' = 0 /\ floor' = 0
  /\ UNCHANGED <<suspends, cancelled, watcher, tree, processes, rss, peak>>

(* resetFloor lowers the recorded peak to what is resident now; where the  *)
(* system does not allow it the peak stays.                                *)
CheckContext ==
  /\ pc = "check"
  /\ \/ Return("start_error") /\ UNCHANGED peak
     \/ cancelled /\ Return("canceled") /\ UNCHANGED peak
     \/ /\ ~cancelled /\ pc' = "start"
        /\ peak' \in {rss, peak}
        /\ UNCHANGED <<n, outcome>>
  /\ UNCHANGED <<suspends, cancelled, timing, watcher, tree, processes, rss, inherited,
                 floor>>

(* A new process joins its group before it executes, or starts suspended.  *)
(* On Unix its peak starts from the one himorime has reached.              *)
InGroupAtStart == ~suspends
Folded == IF suspends THEN 0 ELSE peak

StartRunning ==  \* mutant: created without CREATE_SUSPENDED
  /\ pc = "start"
  /\ leader' = [leader EXCEPT ![n] = "running"]
  /\ ran' = [ran EXCEPT ![n] = TRUE]
  /\ inherited' = Folded
  /\ pc' = "attach"
  /\ UNCHANGED <<suspends, cancelled, n, outcome, timing, watcher, tree, member, rest,
                 stray, ended, rss, peak, floor>>

Start ==
  /\ pc = "start"
  /\ \/ Return("start_error") /\ UNCHANGED <<processes, inherited>>
     \/ /\ leader' = [leader EXCEPT ![n] = IF suspends THEN "suspended" ELSE "running"]
        /\ member' = [member EXCEPT ![n] = InGroupAtStart]
        /\ ran' = [ran EXCEPT ![n] = ~suspends]
        /\ inherited' = Folded
        /\ pc' = "attach"
        /\ UNCHANGED <<n, outcome, rest, stray, ended>>
  /\ UNCHANGED <<suspends, cancelled, timing, watcher, tree, rss, peak, floor>>

StartWatcher ==
  /\ watcher' = [watcher EXCEPT ![n] = "watching"]
  /\ pc' = "wait"

(* attach on Unix only records the process group; on Windows a job is made *)
(* and the suspended process assigned to it, and each of these may fail.   *)
Attach ==
  /\ pc = "attach"
  /\ IF ~suspends
     THEN /\ tree' = [tree EXCEPT ![n] = "open"]
          /\ StartWatcher
          /\ UNCHANGED member
     ELSE /\ \/ /\ tree' = [tree EXCEPT ![n] = "open"]
                /\ member' = [member EXCEPT ![n] = TRUE]
                /\ pc' = "resume"
             \/ /\ tree' = [tree EXCEPT ![n] = "closed"]
                /\ pc' = "abort" /\ UNCHANGED member
          /\ UNCHANGED watcher
  /\ UNCHANGED <<suspends, cancelled, n, outcome, timing, leader, rest, stray, ran, ended,
                 memory>>

(* resumeProcess fails before it reached the thread of the process, or     *)
(* after it resumed it, when the list of threads cannot be read to its end.*)
Resume ==
  /\ pc = "resume"
  /\ \/ pc' = "unresumed" /\ UNCHANGED <<leader, ran, watcher>>
     \/ /\ leader' = [leader EXCEPT ![n] = "running"]
        /\ ran' = [ran EXCEPT ![n] = TRUE]
        /\ \/ StartWatcher
           \/ pc' = "unresumed" /\ UNCHANGED watcher
  /\ UNCHANGED <<suspends, cancelled, n, outcome, timing, tree, member, rest, stray,
                 ended, memory>>

(* The job is closed when the process could not be resumed, which kills    *)
(* its members.                                                            *)
CloseUnresumed ==
  /\ pc = "unresumed"
  /\ tree' = [tree EXCEPT ![n] = "closed"] /\ KillTree(n)
  /\ pc' = "abort"
  /\ UNCHANGED <<suspends, cancelled, n, outcome, timing, watcher, memory>>

(* Without a tree the process is killed, then waited for.                  *)
Abort ==
  /\ pc = "abort" /\ KillLeader(n)
  /\ pc' = "reapAborted"
  /\ UNCHANGED <<suspends, cancelled, n, outcome, timing, watcher, tree, member, rest,
                 stray, ran, memory>>

ReapAborted ==
  /\ pc = "reapAborted" /\ leader[n] = "zombie"
  /\ leader' = [leader EXCEPT ![n] = "reaped"]
  /\ Return("tree_error")
  /\ UNCHANGED <<suspends, cancelled, timing, watcher, tree, member, rest, stray, ran,
                 ended, memory>>

Wait ==
  /\ pc = "wait" /\ leader[n] = "zombie"
  /\ leader' = [leader EXCEPT ![n] = "reaped"]
  /\ pc' = "readFloor"
  /\ UNCHANGED <<suspends, cancelled, n, outcome, timing, watcher, tree, member, rest,
                 stray, ran, ended, memory>>

(* What the kernel may have folded into the command's peak: at least the   *)
(* peak since the reset, as VmHWM with its slack or as getrusage's peak of *)
(* all time; 0 when neither can be read, and on Windows.  done closes.     *)
ReadResident ==  \* mutant: the resident set instead of its peak
  /\ pc = "readFloor"
  /\ floor' = rss /\ pc' = "join"
  /\ UNCHANGED <<suspends, cancelled, n, outcome, timing, watcher, tree, processes, rss,
                 peak, inherited>>

ReadFloor ==
  /\ pc = "readFloor"
  /\ floor' \in IF suspends THEN {0} ELSE {0} \cup (peak..MaxRSS)
  /\ pc' = "join"
  /\ UNCHANGED <<suspends, cancelled, n, outcome, timing, watcher, tree, processes, rss,
                 peak, inherited>>

(* The tree handle is only released once the watcher has ended.            *)
NotJoined == TRUE  \* mutant: the watcher is not waited for

WatcherJoined == watcher[n] = "done"

(* tree.close: the rest of the tree is killed; on Windows the handle stays *)
(* open until the job is empty or five seconds have passed.                *)
CloseOnly ==  \* mutant: the handle is released and nothing killed
  /\ pc = "join" /\ WatcherJoined
  /\ pc' = "return" /\ tree' = [tree EXCEPT ![n] = "closed"]
  /\ UNCHANGED <<suspends, cancelled, n, outcome, timing, watcher, processes, memory>>

CloseTree ==
  /\ pc = "join" /\ WatcherJoined
  /\ KillTree(n)
  /\ IF suspends
     THEN pc' = "drain" /\ UNCHANGED tree
     ELSE pc' = "return" /\ tree' = [tree EXCEPT ![n] = "closed"]
  /\ UNCHANGED <<suspends, cancelled, n, outcome, timing, watcher, memory>>

Drain ==
  /\ pc = "drain"
  /\ tree' = [tree EXCEPT ![n] = "closed"]
  /\ pc' = "return"
  /\ UNCHANGED <<suspends, cancelled, n, outcome, timing, watcher, processes, memory>>

Finish ==
  /\ pc = "return"
  /\ \/ Return("error")
     \/ Return(IF killed = "none" THEN "exited" ELSE killed)
  /\ UNCHANGED <<suspends, cancelled, timing, watcher, tree, processes, memory>>

-----------------------------------------------------------------------------
(* The goroutine of watch.                                                 *)

(* The timer is started with the watch.                                    *)
Expire ==
  /\ pc \in {"wait", "readFloor", "join"} /\ ~expired
  /\ expired' = TRUE
  /\ UNCHANGED <<suspends, cancelled, call, killed, watcher, tree, processes, memory>>

Cancel ==
  /\ ~cancelled /\ cancelled' = TRUE
  /\ UNCHANGED <<suspends, call, timing, watcher, tree, processes, memory>>

DoneClosed(c) == c < n \/ pc \notin {"wait", "readFloor"}

WatcherEnds(c) ==
  /\ watcher[c] = "watching" /\ DoneClosed(c)
  /\ watcher' = [watcher EXCEPT ![c] = "done"]
  /\ UNCHANGED <<suspends, cancelled, call, timing, tree, processes, memory>>

FiresHarmlessly(c, reason) ==  \* mutant: the reason is recorded, nothing killed
  /\ watcher[c] = "watching" /\ ~DoneClosed(c)
  /\ IF reason = "timed_out" THEN expired ELSE cancelled
  /\ killed' = reason
  /\ watcher' = [watcher EXCEPT ![c] = "done"]
  /\ UNCHANGED <<suspends, cancelled, call, expired, tree, processes, memory>>

(* The timer or the context fires, and the command is not known to be done.*)
WatcherFires(c, reason) ==
  /\ watcher[c] = "watching" /\ ~DoneClosed(c)
  /\ IF reason = "timed_out" THEN expired ELSE cancelled
  /\ killed' = reason
  /\ watcher' = [watcher EXCEPT ![c] = "killing"]
  /\ UNCHANGED <<suspends, cancelled, call, expired, tree, processes, memory>>

WatcherKills(c) ==
  /\ watcher[c] = "killing"
  /\ KillTree(c)
  /\ watcher' = [watcher EXCEPT ![c] = "done"]
  /\ UNCHANGED <<suspends, cancelled, call, timing, tree, memory>>

-----------------------------------------------------------------------------
(* The command, and the memory of himorime.                                *)

LeaderExits(c) ==
  /\ leader[c] = "running"
  /\ leader' = [leader EXCEPT ![c] = "zombie"] /\ ended' = [ended EXCEPT ![c] = "self"]
  /\ UNCHANGED <<suspends, cancelled, call, timing, watcher, tree, member, rest, stray,
                 ran, memory>>

LeaderDies(c) ==
  /\ leader[c] = "doomed"
  /\ leader' = [leader EXCEPT ![c] = "zombie"]
  /\ UNCHANGED <<suspends, cancelled, call, timing, watcher, tree, member, rest, stray,
                 ran, ended, memory>>

(* A process the command starts belongs to the tree when the leader does.  *)
Spawns(c) ==
  /\ leader[c] = "running"
  /\ IF member[c]
     THEN rest' = [rest EXCEPT ![c] = "running"] /\ UNCHANGED stray
     ELSE stray' = [stray EXCEPT ![c] = "started"] /\ UNCHANGED rest
  /\ UNCHANGED <<suspends, cancelled, call, timing, watcher, tree, leader, member, ran,
                 ended, memory>>

(* On Unix a descendant leaves the group: kill(-pgid) no longer reaches it *)
(* and it may outlive the call.  A job lets nothing leave.                 *)
Leaves(c) ==
  /\ ~suspends /\ rest[c] = "running"
  /\ stray' = [stray EXCEPT ![c] = "left"]
  /\ \E others \in {"running", "none"} : rest' = [rest EXCEPT ![c] = others]
  /\ UNCHANGED <<suspends, cancelled, call, timing, watcher, tree, leader, member, ran,
                 ended, memory>>

RestEnds(c) ==
  /\ rest[c] # "none" /\ rest' = [rest EXCEPT ![c] = "none"]
  /\ UNCHANGED <<suspends, cancelled, call, timing, watcher, tree, leader, member, stray,
                 ran, ended, memory>>

(* The resident set of himorime changes; its peak follows.                 *)
Resident(m) ==
  /\ rss' = m /\ peak' = IF m > peak THEN m ELSE peak
  /\ m # rss
  /\ UNCHANGED <<suspends, cancelled, call, timing, watcher, tree, processes, inherited,
                 floor>>

Main ==
  \/ CheckContext \/ Start \/ Attach \/ Resume \/ CloseUnresumed \/ Abort
  \/ ReapAborted \/ Wait \/ ReadFloor \/ CloseTree \/ Drain \/ Finish

Watcher(c) ==
  \/ WatcherEnds(c) \/ WatcherKills(c)
  \/ \E reason \in {"timed_out", "canceled"} : WatcherFires(c, reason)

Next ==
  \/ Call \/ Main \/ Expire \/ Cancel
  \/ \E c \in Commands :
       Watcher(c) \/ LeaderExits(c) \/ LeaderDies(c) \/ Spawns(c) \/ Leaves(c)
       \/ RestEnds(c)
  \/ \E m \in 1..MaxRSS : Resident(m)

(* The goroutines run, the timer goes off and a killed process dies; a     *)
(* command may run for as long as it likes.                                *)
Fairness ==
  /\ WF_vars(Main) /\ WF_vars(Expire)
  /\ \A c \in Commands : WF_vars(Watcher(c)) /\ WF_vars(LeaderDies(c))

Spec == Init /\ [][Next]_vars /\ Fairness

-----------------------------------------------------------------------------
(* Every variable keeps to the values the code can give it.                *)
TypeOK ==
  /\ suspends \in BOOLEAN /\ cancelled \in BOOLEAN /\ n \in 0..MaxCommands
  /\ pc \in {"idle", "check", "start", "attach", "resume", "unresumed", "abort",
             "reapAborted", "wait", "readFloor", "join", "drain", "return"}
  /\ pc # "idle" => n > 0
  /\ expired \in BOOLEAN /\ killed \in {"none", "timed_out", "canceled"}
  /\ watcher \in [Commands -> {"off", "watching", "killing", "done"}]
  /\ outcome \in {"none", "exited", "timed_out", "canceled", "start_error",
                  "tree_error", "error"}
  /\ tree \in [Commands -> {"none", "open", "closed"}]
  /\ leader \in [Commands -> {"none", "suspended", "running", "doomed",
                              "zombie", "reaped"}]
  /\ member \in [Commands -> BOOLEAN] /\ stray \in [Commands -> {"no", "left", "started"}]
  /\ rest \in [Commands -> {"none", "running", "doomed"}]
  /\ ran \in [Commands -> BOOLEAN]
  /\ ended \in [Commands -> {"no", "self", "killed"}]
  /\ rss \in 1..MaxRSS /\ peak \in 1..MaxRSS
  /\ inherited \in 0..MaxRSS /\ floor \in 0..MaxRSS

(* The watcher never kills through a handle that was released, or, once    *)
(* the handle of the next command is open, through the wrong one; and a    *)
(* run reported as neither timed out nor canceled ended by itself.         *)
KillsReachTheirCommand ==
  /\ TypeOK
  /\ \A c \in Commands : watcher[c] = "killing" => c = n /\ tree[c] = "open"
  /\ pc = "idle" /\ outcome = "exited" => ended[n] = "self"

(* "No descendant can start outside it": nothing a command starts is born  *)
(* outside of the tree that timeout, cancellation and exit stop, although  *)
(* on Windows the tree is made after the process.  A process is outside    *)
(* only because it left its group itself, on Unix; on Windows none is.     *)
NothingEscapes ==
  \A c \in Commands : stray[c] = "no" \/ (~suspends /\ stray[c] = "left")

(* A floor that is reported for a run, which 0 is not, is never below the  *)
(* peak the kernel folded into the command: a peak above it is the         *)
(* command's own.                                                          *)
FloorCoversInherited ==
  pc = "idle" /\ outcome # "tree_error" /\ floor # 0 => inherited <= floor

(* Every call returns, however long the command would run.                 *)
CallsReturn == (pc # "idle") ~> (pc = "idle")

(* What proc.Run promises of the command's tree.  A process that was       *)
(* killed is not alive.                                                    *)
Contract == INSTANCE CommandRun WITH
  phase <- IF pc = "idle" THEN "idle" ELSE "called",
  started <- n > 0 /\ leader[n] # "none",
  alive <- n > 0 /\ (CanDie(n) \/ rest[n] = "running"),
  outcome <- IF outcome = "tree_error" THEN "error" ELSE outcome

(* Running a command directly keeps the contract of proc.Run.              *)
Implements == Contract!Spec
=============================================================================
