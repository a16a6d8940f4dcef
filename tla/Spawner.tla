------------------------------ MODULE Spawner -------------------------------
(***************************************************************************)
(* Measured commands started through a spawner (proc.runSpawned on one     *)
(* side of a socket pair, serveSpawner on the other).  himorime's client   *)
(* takes a spawner from the pool, sends one run request, watches the       *)
(* timeout and the context, and may send a kill request; the spawner       *)
(* starts the command, watches the socket while it runs, stops its process *)
(* group and answers once.  himorime may disappear at any step.            *)
(*                                                                         *)
(* Messages are whole and the socket is a FIFO each way.  A command is its *)
(* leader and whether any other process of its group is alive.             *)
(***************************************************************************)
EXTENDS Naturals, Sequences

CONSTANTS
  Spawners,     \* the spawner processes that may ever be started
  MaxCommands,  \* how many commands are run
  Envs,         \* the environments a command may ask for
  NoEnv,        \* no environment was sent yet
  NoSpawner,    \* the client holds no spawner
  Faults        \* what may go wrong: see FaultKinds

(* "start": a spawner does not start or does not answer its handshake;     *)
(* "io": the pipes of a command cannot be made; "send": a request cannot   *)
(* be sent; "poll": a spawner cannot poll; "crash": a spawner is killed.   *)
FaultKinds == {"start", "io", "send", "poll", "crash"}

ASSUME SpawnerAssumption ==
  /\ MaxCommands \in Nat \ {0}
  /\ NoEnv \notin Envs
  /\ NoSpawner \notin Spawners
  /\ Faults \subseteq FaultKinds

Commands == 1..MaxCommands

VARIABLES
  up,         \* is himorime running?
  cancelled,  \* is the context canceled?
  n,          \* the command of the current call; 0 before the first
  pc,         \* where the client is
  env,        \* the environment of the current command
  sp,         \* the spawner each call took
  expired,    \* has the timeout of the command expired?
  watcher,    \* each call's goroutine watching the timeout and the context
  killed,     \* why that goroutine asked for a kill
  got,        \* what the client received
  outcome,    \* what the last call returned
  lock,       \* who holds the pool's mutex while a spawner starts
  idle,       \* the idle spawners, a stack
  poolFailed, \* could a spawner not be started?
  prep,       \* the goroutine of PrepareSpawner
  status,     \* of each spawner process
  requests,   \* the socket towards each spawner
  replies,    \* the socket towards himorime
  sentEnv,    \* the environment himorime sent each spawner last
  lastEnv,    \* the environment each spawner keeps
  at,         \* where each spawner's main goroutine is
  watch,      \* where the goroutine watching himorime is
  gone,       \* did that goroutine find himorime gone?
  stopped,    \* runningTree.stopped
  pgid,       \* is runningTree.pgid set?
  wake,       \* is the wake pipe readable?
  job,        \* the command each spawner runs
  leader,     \* the first process of each command
  rest,       \* is another process of the command's group alive?
  ended,      \* history: did the leader end by itself or killed?
  ranWith     \* history: the environment the current command started with

client == <<n, pc, env, sp, got, outcome>>
timing == <<expired, watcher, killed>>
pool == <<lock, idle, poolFailed, prep>>
sockets == <<requests, replies>>
server == <<lastEnv, at, gone, job>>
tree == <<watch, stopped, pgid, wake>>
processes == <<leader, rest, ended, ranWith>>
vars == <<up, cancelled, client, timing, pool, status, sockets, sentEnv, server,
          tree, processes>>

KillRequest == [kind |-> "kill"]
RunRequest(same, e) == [kind |-> "run", same |-> same, env |-> IF same THEN NoEnv ELSE e]

(* The spawner the current call took.                                      *)
Mine == sp[n]

Alive(c) == leader[c] = "running" \/ rest[c]

(* SIGKILL to the process group of a command; with the leader reaped and   *)
(* nobody left in the group it reaches nothing.                            *)
KillGroup(c) ==
  /\ leader' = IF leader[c] = "running" THEN [leader EXCEPT ![c] = "zombie"] ELSE leader
  /\ ended' = IF leader[c] = "running" THEN [ended EXCEPT ![c] = "killed"] ELSE ended
  /\ rest' = [rest EXCEPT ![c] = FALSE]
  /\ UNCHANGED ranWith

CommandStarts(c, e) ==
  /\ leader' = [leader EXCEPT ![c] = "running"]
  /\ ranWith' = e
  /\ UNCHANGED <<rest, ended>>

Reap(c) ==
  /\ leader[c] = "zombie"
  /\ leader' = [leader EXCEPT ![c] = "reaped"]

Init ==
  /\ up = TRUE /\ cancelled = FALSE
  /\ n = 0 /\ pc = "idle" /\ env = NoEnv /\ sp = [c \in Commands |-> NoSpawner]
  /\ got = "none" /\ outcome = "none"
  /\ expired = FALSE /\ watcher = [c \in Commands |-> "off"] /\ killed = "none"
  /\ lock = "free" /\ idle = <<>> /\ poolFailed = FALSE /\ prep = "ready"
  /\ status = [s \in Spawners |-> "unused"]
  /\ requests = [s \in Spawners |-> <<>>] /\ replies = [s \in Spawners |-> <<>>]
  /\ sentEnv = [s \in Spawners |-> NoEnv] /\ lastEnv = [s \in Spawners |-> NoEnv]
  /\ at = [s \in Spawners |-> "recv"] /\ gone = [s \in Spawners |-> FALSE]
  /\ job = [s \in Spawners |-> 0]
  /\ watch = [s \in Spawners |-> "done"] /\ wake = [s \in Spawners |-> FALSE]
  /\ stopped = [s \in Spawners |-> FALSE] /\ pgid = [s \in Spawners |-> FALSE]
  /\ leader = [c \in Commands |-> "none"] /\ rest = [c \in Commands |-> FALSE]
  /\ ended = [c \in Commands |-> "no"] /\ ranWith = NoEnv

-----------------------------------------------------------------------------
(* The pool.                                                               *)

(* startSpawner: a process is started and its handshake awaited, the mutex *)
(* held; NoSpawner stands for a failure, after which none is started again.*)
(* The model fails when it has no spawner left to start.                   *)
StartSpawner(s) ==
  IF s = NoSpawner
  THEN /\ "start" \in Faults \/ \A t \in Spawners : status[t] # "unused"
       /\ poolFailed' = TRUE /\ UNCHANGED status
  ELSE /\ status[s] = "unused"
       /\ status' = [status EXCEPT ![s] = "up"] /\ UNCHANGED poolFailed

(* prepareSpawner does nothing when a spawner is idle or none can start.   *)
PrepareSpawner ==
  /\ up /\ prep = "ready" /\ lock = "free"
  /\ IF idle # <<>> \/ poolFailed
     THEN prep' = "done" /\ UNCHANGED lock
     ELSE prep' = "starting" /\ lock' = "prep"
  /\ UNCHANGED <<up, cancelled, client, timing, idle, poolFailed, status,
                 sockets, sentEnv, server, tree, processes>>

Prepared ==
  /\ up /\ prep = "starting"
  /\ \E s \in Spawners \cup {NoSpawner} :
       /\ StartSpawner(s)
       /\ idle' = IF s = NoSpawner THEN idle ELSE Append(idle, s)
  /\ prep' = "done" /\ lock' = "free"
  /\ UNCHANGED <<up, cancelled, client, timing, sockets, sentEnv, server, tree,
                 processes>>

(* takeSpawner: the last one returned, or a new one, or none.              *)
TakeSpawner ==
  /\ up /\ pc = "take" /\ lock = "free"
  /\ IF idle # <<>>
     THEN /\ sp' = [sp EXCEPT ![n] = idle[Len(idle)]] /\ idle' = SubSeq(idle, 1, Len(idle) - 1)
          /\ pc' = "send" /\ UNCHANGED lock
     ELSE IF poolFailed
     THEN pc' = "direct" /\ UNCHANGED <<sp, idle, lock>>
     ELSE pc' = "starting" /\ lock' = "client" /\ UNCHANGED <<sp, idle>>
  /\ UNCHANGED <<up, cancelled, n, env, got, outcome, timing, poolFailed, prep,
                 status, sockets, sentEnv, server, tree, processes>>

TakeStarted ==
  /\ up /\ pc = "starting"
  /\ \E s \in Spawners \cup {NoSpawner} :
       /\ StartSpawner(s)
       /\ sp' = [sp EXCEPT ![n] = s]
       /\ pc' = IF s = NoSpawner THEN "direct" ELSE "send"
  /\ lock' = "free"
  /\ UNCHANGED <<up, cancelled, n, env, got, outcome, timing, idle, prep,
                 sockets, sentEnv, server, tree, processes>>

ReturnSpawner ==
  /\ lock = "free"
  /\ idle' = Append(idle, Mine)
  /\ UNCHANGED <<lock, poolFailed, prep>>

(* discard: the spawner is killed and himorime's end of the socket closed. *)
Discard == status' = [status EXCEPT ![Mine] = "dead"]

-----------------------------------------------------------------------------
(* The client: proc.Run.                                                   *)

Return(o) == pc' = "idle" /\ outcome' = o

Call(e) ==
  /\ up /\ pc = "idle" /\ n < MaxCommands
  /\ n' = n + 1 /\ env' = e /\ pc' = "check"
  /\ got' = "none" /\ outcome' = "none"
  /\ expired' = FALSE /\ killed' = "none"
  /\ ranWith' = NoEnv
  /\ UNCHANGED <<up, cancelled, sp, watcher, pool, status, sockets, sentEnv,
                 server, tree, leader, rest, ended>>

(* A program that is not found is a start failure; a context that is done  *)
(* already cancels the command before it starts.                           *)
CheckContext ==
  /\ up /\ pc = "check"
  /\ \/ Return("start_error")
     \/ cancelled /\ Return("canceled")
     \/ ~cancelled /\ pc' = "take" /\ UNCHANGED outcome
  /\ UNCHANGED <<up, cancelled, n, env, sp, got, timing, pool, status, sockets,
                 sentEnv, server, tree, processes>>

(* newSpawnIO fails: the spawner is returned and Run starts the command.   *)
PipesFail ==
  /\ up /\ pc = "send" /\ "io" \in Faults
  /\ ReturnSpawner
  /\ pc' = "direct"
  /\ UNCHANGED <<up, cancelled, n, env, sp, got, outcome, timing, status, sockets,
                 sentEnv, server, tree, processes>>

SentBefore == sentEnv[Mine] # NoEnv  \* mutant: whatever environment it was

SameEnv == sentEnv[Mine] # NoEnv /\ sentEnv[Mine] = env

(* The request is sent, with the environment unless the spawner has it.    *)
SendRequest ==
  /\ up /\ pc = "send" /\ status[Mine] = "up"
  /\ requests' = [requests EXCEPT ![Mine] = Append(@, RunRequest(SameEnv, env))]
  /\ sentEnv' = [sentEnv EXCEPT ![Mine] = env]
  /\ watcher' = [watcher EXCEPT ![n] = "watching"]
  /\ pc' = "wait"
  /\ UNCHANGED <<up, cancelled, n, env, sp, got, outcome, expired, killed, pool,
                 status, replies, server, tree, processes>>

(* The request could not be sent whole, so the command has not started.    *)
SendFails ==
  /\ up /\ pc = "send"
  /\ status[Mine] = "dead" \/ "send" \in Faults
  /\ Discard
  /\ pc' = "direct"
  /\ UNCHANGED <<up, cancelled, n, env, sp, got, outcome, timing, pool, sockets,
                 sentEnv, server, tree, processes>>

(* recv returns a reply, or an error once the spawner is gone; done is     *)
(* closed at once.                                                         *)
Receive ==
  /\ up /\ pc = "wait"
  /\ \/ /\ replies[Mine] # <<>>
        /\ got' = Head(replies[Mine])
        /\ replies' = [replies EXCEPT ![Mine] = Tail(@)]
     \/ /\ replies[Mine] = <<>> /\ status[Mine] = "dead"
        /\ got' = "lost" /\ UNCHANGED replies
  /\ pc' = "join"
  /\ UNCHANGED <<up, cancelled, n, env, sp, outcome, timing, pool, status,
                 requests, sentEnv, server, tree, processes>>

WatcherJoined == watcher[n] = "done"

ConcludeAgain ==  \* mutant: a command whose spawner is lost is run directly
  /\ up /\ pc = "join" /\ WatcherJoined
  /\ got = "lost"
  /\ Discard
  /\ pc' = "direct"
  /\ UNCHANGED <<up, cancelled, n, env, sp, got, outcome, timing, pool, sockets,
                 sentEnv, server, tree, processes>>

(* The watcher has ended.  A lost spawner is discarded and the command not *)
(* started again; another is returned, whatever the reply says.            *)
Conclude ==
  /\ up /\ pc = "join" /\ WatcherJoined
  /\ IF got = "lost"
     THEN Discard /\ Return("error") /\ UNCHANGED pool
     ELSE /\ ReturnSpawner /\ UNCHANGED status
          /\ IF got = "start_error" THEN Return("start_error")
             ELSE \/ Return("error")
                  \/ Return(IF killed = "none" THEN "exited" ELSE killed)
  /\ UNCHANGED <<up, cancelled, n, env, sp, got, timing, sockets, sentEnv,
                 server, tree, processes>>

(* proc.run, which starts the command from himorime itself, in outline:    *)
(* ProcRun has the detail.                                                 *)
DirectStart ==
  /\ up /\ pc = "direct"
  /\ \/ CommandStarts(n, env) /\ pc' = "directWait" /\ UNCHANGED outcome
     \/ Return("start_error") /\ UNCHANGED processes
     \/ cancelled /\ Return("canceled") /\ UNCHANGED processes
  /\ UNCHANGED <<up, cancelled, n, env, sp, got, timing, pool, status, sockets,
                 sentEnv, server, tree>>

DirectKill(reason) ==
  /\ up /\ pc = "directWait" /\ killed = "none"
  /\ IF reason = "timed_out" THEN expired ELSE cancelled
  /\ killed' = reason /\ KillGroup(n)
  /\ UNCHANGED <<up, cancelled, client, expired, watcher, pool, status, sockets,
                 sentEnv, server, tree>>

DirectReap ==
  /\ up /\ pc = "directWait" /\ Reap(n)
  /\ rest' = [rest EXCEPT ![n] = FALSE]
  /\ pc' = "directReturn"
  /\ UNCHANGED <<up, cancelled, n, env, sp, got, outcome, timing, pool, status,
                 sockets, sentEnv, server, tree, ended, ranWith>>

DirectReturn ==
  /\ up /\ pc = "directReturn"
  /\ \/ Return("error")
     \/ Return(IF killed = "none" THEN "exited" ELSE killed)
  /\ UNCHANGED <<up, cancelled, n, env, sp, got, timing, pool, status, sockets,
                 sentEnv, server, tree, processes>>

-----------------------------------------------------------------------------
(* The goroutine that runs proc.watch.                                     *)

Expire ==
  /\ up /\ pc \in {"wait", "join", "directWait"} /\ ~expired
  /\ expired' = TRUE
  /\ UNCHANGED <<up, cancelled, client, watcher, killed, pool, status, sockets,
                 sentEnv, server, tree, processes>>

(* done is closed as soon as the reply was received.                       *)
DoneClosed(c) == c < n \/ pc # "wait"

WatcherEnds(c) ==
  /\ up /\ watcher[c] = "watching" /\ DoneClosed(c)
  /\ watcher' = [watcher EXCEPT ![c] = "done"]
  /\ UNCHANGED <<up, cancelled, client, expired, killed, pool, status, sockets,
                 sentEnv, server, tree, processes>>

(* The timer or the context fires and done is not closed yet.              *)
WatcherFires(c, reason) ==
  /\ up /\ watcher[c] = "watching" /\ ~DoneClosed(c)
  /\ IF reason = "timed_out" THEN expired ELSE cancelled
  /\ killed' = reason /\ watcher' = [watcher EXCEPT ![c] = "killing"]
  /\ UNCHANGED <<up, cancelled, client, expired, pool, status, sockets, sentEnv,
                 server, tree, processes>>

(* The kill request is sent; nobody looks whether it could be.             *)
WatcherKills(c) ==
  /\ up /\ watcher[c] = "killing"
  /\ requests' = IF status[sp[c]] = "up"
                 THEN [requests EXCEPT ![sp[c]] = Append(@, KillRequest)]
                 ELSE requests
  /\ watcher' = [watcher EXCEPT ![c] = "done"]
  /\ UNCHANGED <<up, cancelled, client, expired, killed, pool, status, replies,
                 sentEnv, server, tree, processes>>

-----------------------------------------------------------------------------
(* The spawner: serveSpawner and serveRequest.                             *)

Exits(s) == status' = [status EXCEPT ![s] = "dead"]

(* A request is received.  The watch starts before the command does; a     *)
(* kill request here was meant for a command that has already finished.    *)
ServeRequest(s) ==
  /\ status[s] = "up" /\ at[s] = "recv" /\ requests[s] # <<>>
  /\ LET req == Head(requests[s])
         e == IF req.same THEN lastEnv[s] ELSE req.env
     IN IF req.kind = "kill"
        THEN UNCHANGED <<server, tree>>
        ELSE /\ lastEnv' = [lastEnv EXCEPT ![s] = e]
             /\ job' = [job EXCEPT ![s] = n]
             /\ at' = [at EXCEPT ![s] = "start"]
             /\ watch' = [watch EXCEPT ![s] = "poll"]
             /\ gone' = [gone EXCEPT ![s] = FALSE]
             /\ stopped' = [stopped EXCEPT ![s] = FALSE]
             /\ pgid' = [pgid EXCEPT ![s] = FALSE]
             /\ UNCHANGED wake
  /\ requests' = [requests EXCEPT ![s] = Tail(@)]
  /\ UNCHANGED <<up, cancelled, client, timing, pool, status, replies, sentEnv,
                 processes>>

(* himorime closed the socket, at the latest by exiting.                   *)
OwnerLeft(s) ==
  /\ status[s] = "up" /\ at[s] = "recv" /\ requests[s] = <<>> /\ ~up
  /\ Exits(s)
  /\ UNCHANGED <<up, cancelled, client, timing, pool, sockets, sentEnv, server,
                 tree, processes>>

StartCommand(s) ==
  /\ status[s] = "up" /\ at[s] = "start"
  /\ \/ CommandStarts(job[s], lastEnv[s]) /\ at' = [at EXCEPT ![s] = "started"]
     \/ at' = [at EXCEPT ![s] = "failed"] /\ UNCHANGED processes
  /\ UNCHANGED <<up, cancelled, client, timing, pool, status, sockets, sentEnv,
                 lastEnv, gone, job, tree>>

NoteUnstopped(s) ==  \* mutant: a kill that came before the command is lost
  /\ status[s] = "up" /\ at[s] = "started"
  /\ pgid' = [pgid EXCEPT ![s] = TRUE]
  /\ at' = [at EXCEPT ![s] = "running"]
  /\ UNCHANGED <<up, cancelled, client, timing, pool, status, sockets, sentEnv,
                 lastEnv, gone, job, watch, stopped, wake, processes>>

(* runningTree.started: a kill that came before the command is made good.  *)
NoteStarted(s) ==
  /\ status[s] = "up" /\ at[s] = "started"
  /\ pgid' = [pgid EXCEPT ![s] = TRUE]
  /\ IF stopped[s] THEN KillGroup(job[s]) ELSE UNCHANGED processes
  /\ at' = [at EXCEPT ![s] = "running"]
  /\ UNCHANGED <<up, cancelled, client, timing, pool, status, sockets, sentEnv,
                 lastEnv, gone, job, watch, stopped, wake>>

ReapCommand(s) ==
  /\ status[s] = "up" /\ at[s] = "running"
  /\ Reap(job[s])
  /\ at' = [at EXCEPT ![s] = "reaped"]
  /\ UNCHANGED <<up, cancelled, client, timing, pool, status, sockets, sentEnv,
                 lastEnv, gone, job, tree, rest, ended, ranWith>>

(* The watch is told to end, whether the command ran or did not start.     *)
WakeWatch(s) ==
  /\ status[s] = "up" /\ at[s] \in {"reaped", "failed"}
  /\ wake' = [wake EXCEPT ![s] = TRUE]
  /\ at' = [at EXCEPT ![s] = IF @ = "reaped" THEN "join" ELSE "joinFailed"]
  /\ UNCHANGED <<up, cancelled, client, timing, pool, status, sockets, sentEnv,
                 lastEnv, gone, job, watch, stopped, pgid, processes>>

Watched(s) == watch[s] = "done"

LeaveTree(s) ==  \* mutant: what the command left running is left alone
  /\ status[s] = "up" /\ at[s] = "join" /\ Watched(s)
  /\ at' = [at EXCEPT ![s] = "reply"]
  /\ UNCHANGED <<up, cancelled, client, timing, pool, status, sockets, sentEnv,
                 lastEnv, gone, job, tree, processes>>

(* runningTree.close, once the watch has ended.                            *)
CloseTree(s) ==
  /\ status[s] = "up" /\ at[s] = "join" /\ Watched(s)
  /\ KillGroup(job[s])
  /\ at' = [at EXCEPT ![s] = "reply"]
  /\ UNCHANGED <<up, cancelled, client, timing, pool, status, sockets, sentEnv,
                 lastEnv, gone, job, tree>>

(* The one answer to a request; without himorime the spawner exits.        *)
SendReply(s) ==
  /\ status[s] = "up"
  /\ \/ at[s] = "reply"
     \/ at[s] = "joinFailed" /\ Watched(s)
  /\ IF gone[s] \/ ~up
     THEN Exits(s) /\ UNCHANGED <<replies, at>>
     ELSE /\ replies' = [replies EXCEPT ![s] =
                           Append(@, IF at[s] = "reply" THEN "done" ELSE "start_error")]
          /\ at' = [at EXCEPT ![s] = "recv"]
          /\ UNCHANGED status
  /\ UNCHANGED <<up, cancelled, client, timing, pool, requests, sentEnv, lastEnv,
                 gone, job, tree, processes>>

-----------------------------------------------------------------------------
(* The spawner's watch on himorime.  "deaf" no longer polls the socket.    *)

WatchWakes(s) ==
  /\ status[s] = "up" /\ watch[s] \in {"poll", "deaf"} /\ wake[s]
  /\ watch' = [watch EXCEPT ![s] = "done"]
  /\ wake' = [wake EXCEPT ![s] = FALSE]
  /\ UNCHANGED <<up, cancelled, client, timing, pool, status, sockets, sentEnv,
                 server, stopped, pgid, processes>>

(* A message arrived and the wake pipe is silent.  Only a kill counts.     *)
WatchReceives(s) ==
  /\ status[s] = "up" /\ watch[s] = "poll" /\ ~wake[s]
  /\ requests[s] # <<>>
  /\ requests' = [requests EXCEPT ![s] = Tail(@)]
  /\ watch' = [watch EXCEPT ![s] =
                 IF Head(requests[s]).kind = "kill" THEN "kill" ELSE "poll"]
  /\ UNCHANGED <<up, cancelled, client, timing, pool, status, replies, sentEnv,
                 server, stopped, pgid, wake, processes>>

WatchGivesUp(s) ==  \* mutant: end of file only ends the polling
  /\ status[s] = "up" /\ watch[s] = "poll" /\ ~wake[s]
  /\ requests[s] = <<>> /\ ~up
  /\ gone' = [gone EXCEPT ![s] = TRUE]
  /\ watch' = [watch EXCEPT ![s] = "deaf"]
  /\ UNCHANGED <<up, cancelled, client, timing, pool, status, sockets, sentEnv,
                 lastEnv, at, job, stopped, pgid, wake, processes>>

(* End of file: himorime is gone, and nothing else would stop the command. *)
WatchLosesHimorime(s) ==
  /\ status[s] = "up" /\ watch[s] = "poll" /\ ~wake[s]
  /\ requests[s] = <<>> /\ ~up
  /\ gone' = [gone EXCEPT ![s] = TRUE]
  /\ watch' = [watch EXCEPT ![s] = "kill"]
  /\ UNCHANGED <<up, cancelled, client, timing, pool, status, sockets, sentEnv,
                 lastEnv, at, job, stopped, pgid, wake, processes>>

(* runningTree.kill.                                                       *)
WatchKills(s) ==
  /\ status[s] = "up" /\ watch[s] = "kill"
  /\ stopped' = [stopped EXCEPT ![s] = TRUE]
  /\ IF pgid[s] THEN KillGroup(job[s]) ELSE UNCHANGED processes
  /\ watch' = [watch EXCEPT ![s] = IF gone[s] THEN "deaf" ELSE "poll"]
  /\ UNCHANGED <<up, cancelled, client, timing, pool, status, sockets, sentEnv,
                 server, pgid, wake>>

(* "Nothing to watch with: the command runs to its end."                   *)
WatchFails(s) ==
  /\ status[s] = "up" /\ watch[s] = "poll" /\ "poll" \in Faults
  /\ watch' = [watch EXCEPT ![s] = "deaf"]
  /\ UNCHANGED <<up, cancelled, client, timing, pool, status, sockets, sentEnv,
                 server, stopped, pgid, wake, processes>>

-----------------------------------------------------------------------------
(* The processes of a command, and what happens to the processes.          *)

LeaderExits(c) ==
  /\ leader[c] = "running"
  /\ leader' = [leader EXCEPT ![c] = "zombie"] /\ ended' = [ended EXCEPT ![c] = "self"]
  /\ UNCHANGED <<up, cancelled, client, timing, pool, status, sockets, sentEnv,
                 server, tree, rest, ranWith>>

(* The command starts a process in its group, or the last of them ends.    *)
RestChanges(c) ==
  /\ rest[c] \/ leader[c] = "running"
  /\ rest' = [rest EXCEPT ![c] = ~@]
  /\ UNCHANGED <<up, cancelled, client, timing, pool, status, sockets, sentEnv,
                 server, tree, leader, ended, ranWith>>

Cancel ==
  /\ up /\ ~cancelled /\ cancelled' = TRUE
  /\ UNCHANGED <<up, client, timing, pool, status, sockets, sentEnv, server,
                 tree, processes>>

(* himorime exits or is killed; a command it started itself is beyond      *)
(* anybody's reach then, so such a call is not interrupted here.           *)
Leave ==
  /\ up /\ pc # "directWait" /\ up' = FALSE
  /\ UNCHANGED <<cancelled, client, timing, pool, status, sockets, sentEnv,
                 server, tree, processes>>

SpawnerCrashes(s) ==
  /\ "crash" \in Faults /\ status[s] = "up"
  /\ Exits(s)
  /\ UNCHANGED <<up, cancelled, client, timing, pool, sockets, sentEnv, server,
                 tree, processes>>

Client ==
  \/ CheckContext \/ TakeSpawner \/ TakeStarted
  \/ PipesFail \/ SendRequest \/ SendFails \/ Receive \/ Conclude
  \/ DirectStart \/ DirectReap \/ DirectReturn
  \/ \E reason \in {"timed_out", "canceled"} : DirectKill(reason)

Watcher(c) ==
  \/ WatcherEnds(c) \/ WatcherKills(c)
  \/ \E reason \in {"timed_out", "canceled"} : WatcherFires(c, reason)

Prepare == PrepareSpawner \/ Prepared

Server(s) ==
  \/ ServeRequest(s) \/ OwnerLeft(s) \/ StartCommand(s) \/ NoteStarted(s)
  \/ ReapCommand(s) \/ WakeWatch(s) \/ CloseTree(s) \/ SendReply(s)

Watch(s) ==
  \/ WatchWakes(s) \/ WatchReceives(s) \/ WatchLosesHimorime(s) \/ WatchKills(s)

Next ==
  \/ \E e \in Envs : Call(e)
  \/ Client \/ Prepare \/ Expire \/ Cancel \/ Leave
  \/ \E s \in Spawners : Server(s) \/ Watch(s) \/ WatchFails(s) \/ SpawnerCrashes(s)
  \/ \E c \in Commands : Watcher(c) \/ LeaderExits(c) \/ RestChanges(c)

(* Every goroutine is scheduled and the timer goes off; a command may run  *)
(* for as long as it likes.                                                *)
Fairness ==
  /\ WF_vars(Client) /\ WF_vars(Prepare) /\ WF_vars(Expire)
  /\ \A c \in Commands : WF_vars(Watcher(c))
  /\ \A s \in Spawners : WF_vars(Server(s)) /\ WF_vars(Watch(s))

Spec == Init /\ [][Next]_vars /\ Fairness

-----------------------------------------------------------------------------
(* The client holds the spawner it took.                                   *)
Held == pc \in {"send", "wait", "join"}

(* Every variable keeps to the values the code can give it.                *)
TypeOK ==
  /\ up \in BOOLEAN /\ cancelled \in BOOLEAN
  /\ n \in 0..MaxCommands
  /\ pc \in {"idle", "check", "take", "starting", "send", "wait", "join",
             "direct", "directWait", "directReturn"}
  /\ env \in Envs \cup {NoEnv} /\ ranWith \in Envs \cup {NoEnv}
  /\ sp \in [Commands -> Spawners \cup {NoSpawner}]
  /\ Held => Mine \in Spawners
  /\ pc # "idle" => n > 0 /\ env \in Envs
  /\ expired \in BOOLEAN /\ watcher \in [Commands -> {"off", "watching", "killing", "done"}]
  /\ killed \in {"none", "timed_out", "canceled"}
  /\ got \in {"none", "done", "start_error", "lost"}
  /\ outcome \in {"none", "exited", "timed_out", "canceled", "start_error", "error"}
  /\ lock \in {"free", "client", "prep"} /\ poolFailed \in BOOLEAN
  /\ idle \in Seq(Spawners) /\ prep \in {"ready", "starting", "done"}
  /\ status \in [Spawners -> {"unused", "up", "dead"}]
  /\ requests \in [Spawners -> Seq([kind : {"kill"}] \cup
                    [kind : {"run"}, same : BOOLEAN, env : Envs \cup {NoEnv}])]
  /\ replies \in [Spawners -> Seq({"done", "start_error"})]
  /\ sentEnv \in [Spawners -> Envs \cup {NoEnv}]
  /\ lastEnv \in [Spawners -> Envs \cup {NoEnv}]
  /\ at \in [Spawners -> {"recv", "start", "started", "failed", "running",
                          "reaped", "join", "joinFailed", "reply"}]
  /\ watch \in [Spawners -> {"poll", "kill", "deaf", "done"}]
  /\ gone \in [Spawners -> BOOLEAN] /\ stopped \in [Spawners -> BOOLEAN]
  /\ pgid \in [Spawners -> BOOLEAN] /\ wake \in [Spawners -> BOOLEAN]
  /\ job \in [Spawners -> 0..MaxCommands]
  /\ \A s \in Spawners : at[s] # "recv" => job[s] > 0
  /\ leader \in [Commands -> {"none", "running", "zombie", "reaped"}]
  /\ rest \in [Commands -> BOOLEAN] /\ ended \in [Commands -> {"no", "self", "killed"}]

(* A run that is reported as neither timed out nor canceled was not        *)
(* touched: its command ended by itself.  A kill request meant for an      *)
(* earlier command must never reach a later one.                           *)
ReportedRunsUndisturbed ==
  pc = "idle" /\ outcome = "exited" => ended[n] = "self"

(* A command always starts with the environment it asks for, although the  *)
(* environment is only sent when himorime believes the spawner lacks it.   *)
EnvAgreement ==
  n > 0 /\ leader[n] # "none" => ranWith = env

(* An idle spawner that lives owes no answer and has no command to start   *)
(* and none running: taking it from the pool is safe.                      *)
IdleSpawnersQuiet ==
  \A i \in 1..Len(idle) :
    LET s == idle[i] IN
    /\ replies[s] = <<>>
    /\ \A j \in 1..Len(requests[s]) : requests[s][j].kind = "kill"
    /\ status[s] = "up" => at[s] = "recv" /\ watch[s] = "done" /\ ~wake[s]

(* Nothing meant for one command reaches another: no kill request, no      *)
(* environment and no answer, over all the spawners there are.             *)
CommandsKeptApart ==
  TypeOK /\ ReportedRunsUndisturbed /\ EnvAgreement /\ IdleSpawnersQuiet

(* A command is started at most once: when its spawner is lost it may have *)
(* run already, so it is never started again by another way.               *)
StartedOnce ==
  [][\A c \in Commands : leader'[c] = "running" => leader[c] \in {"none", "running"}]_vars

(* Every call returns, however long its command would run: the timeout     *)
(* reaches the command, and no goroutine takes another's message.          *)
CallsReturn == (pc # "idle") ~> (pc = "idle" \/ ~up)

(* A command whose spawner died while it served it is beyond reach.        *)
Lost(c) == \E s \in Spawners : job[s] = c /\ status[s] = "dead" /\ at[s] # "recv"

(* With himorime gone nothing else would stop the command: the spawner     *)
(* stops it, and exits itself.                                             *)
NothingOutlivesHimorime ==
  ~up ~> /\ \A s \in Spawners : status[s] # "up"
         /\ \A c \in Commands : Alive(c) => Lost(c)

(* What proc.Run promises; "called" is a call in progress.                 *)
Contract == INSTANCE CommandRun WITH
  phase <- IF ~up THEN "gone" ELSE IF pc = "idle" THEN "idle" ELSE "called",
  started <- n > 0 /\ leader[n] # "none",
  alive <- n > 0 /\ Alive(n)

(* Running a command through a spawner keeps the contract of proc.Run, as  *)
(* long as no spawner dies.                                                *)
Implements == Contract!Spec
=============================================================================
