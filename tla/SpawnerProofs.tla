---------------------------- MODULE SpawnerProofs -----------------------------
(***************************************************************************)
(* What Spawner promises for any number of spawners, commands and          *)
(* environments, whatever may go wrong, and that it implements the         *)
(* contract of proc.Run (CommandRun) as long as no spawner is killed by    *)
(* somebody else, proved from SpawnerAssumption.                           *)
(***************************************************************************)
EXTENDS Spawner, SequenceTheorems, TLAPS

(***************************************************************************)
(* The inductive invariant.  A spawner is fresh, in the pool, held by the  *)
(* client or dead (PoolSound).  Until a request is sent to it, it owes     *)
(* nothing and knows the environment himorime believes it to know          *)
(* (RestingQuiet); after that it is in one of the stages of the one        *)
(* request it serves (BusySound).                                          *)
(***************************************************************************)
AllKills(q) == \A j \in 1..Len(q) : q[j].kind = "kill"
Pooled(s) == \E i \in 1..Len(idle) : idle[i] = s

(* Who has a spawner: nobody has one twice, and a living one is not lost.  *)
PoolSound ==
  /\ \A i, j \in 1..Len(idle) : idle[i] = idle[j] => i = j
  /\ \A i \in 1..Len(idle) : status[idle[i]] # "unused"
  /\ Held => status[Mine] # "unused" /\ ~Pooled(Mine)
  /\ \A s \in Spawners : status[s] = "up" => Pooled(s) \/ (Held /\ s = Mine)
  /\ up /\ "crash" \notin Faults =>
       /\ \A i \in 1..Len(idle) : status[idle[i]] = "up"
       /\ Held => status[Mine] = "up"

(* Nothing is owed by the spawner or to it but kills that came too late.   *)
Quiet(s) ==
  /\ replies[s] = <<>> /\ AllKills(requests[s])
  /\ sentEnv[s] = lastEnv[s]
  /\ at[s] = "recv" /\ watch[s] = "done" /\ ~wake[s]

Resting(s) == status[s] = "unused" \/ Pooled(s) \/ (pc = "send" /\ s = Mine)

RestingQuiet == \A s \in Spawners : Resting(s) => Quiet(s)

(* Nobody has a reason to kill the current command.                        *)
Undisturbed == up /\ killed = "none"

(* The request is in the socket, behind late kills of earlier commands;    *)
(* behind it are only kills of its own.                                    *)
Requested(s) ==
  /\ pc = "wait"
  /\ at[s] = "recv" /\ watch[s] = "done" /\ ~wake[s] /\ replies[s] = <<>>
  /\ leader[n] = "none"
  /\ \E k \in 1..Len(requests[s]) :
       /\ requests[s][k].kind = "run"
       /\ IF requests[s][k].same THEN lastEnv[s] = env ELSE requests[s][k].env = env
       /\ \A j \in 1..Len(requests[s]) : j # k => requests[s][j].kind = "kill"
       /\ Undisturbed => k = Len(requests[s])

(* The request was received: the spawner and its watch work on it.         *)
Serving(s) ==
  /\ pc = "wait"
  /\ at[s] # "recv" /\ job[s] = n /\ lastEnv[s] = env
  /\ replies[s] = <<>> /\ AllKills(requests[s])
  /\ Undisturbed => requests[s] = <<>> /\ watch[s] # "kill" /\ ~stopped[s]
  /\ at[s] \in {"start", "failed", "joinFailed"} => leader[n] = "none"
  /\ at[s] \in {"started", "running"} => leader[n] \in {"running", "zombie"}
  /\ at[s] \in {"reaped", "join", "reply"} => leader[n] = "reaped"
  /\ at[s] \in {"start", "started", "failed", "joinFailed"} => ~pgid[s]
  /\ at[s] \in {"start", "started", "failed", "running", "reaped"} => watch[s] # "done"
  /\ at[s] \in {"join", "joinFailed"} => (wake[s] <=> watch[s] # "done")
  /\ at[s] \notin {"join", "joinFailed"} => ~wake[s]
  /\ at[s] = "reply" => watch[s] = "done" /\ ~rest[n]

(* The answer w was sent, and the spawner waits for the next request.      *)
Answered(s, w) ==
  /\ at[s] = "recv" /\ watch[s] = "done" /\ ~wake[s]
  /\ AllKills(requests[s]) /\ lastEnv[s] = env
  /\ w = "done" => leader[n] = "reaped" /\ ~rest[n]
  /\ w = "start_error" => leader[n] = "none"

(* The spawner the client waits for is in a stage of the request, or lost. *)
BusySound ==
  pc \in {"wait", "join"} =>
    /\ sentEnv[Mine] = env
    /\ \/ Requested(Mine)
       \/ Serving(Mine)
       \/ /\ pc = "wait"
          /\ \E w \in {"done", "start_error"} : replies[Mine] = <<w>> /\ Answered(Mine, w)
       \/ /\ pc = "join" /\ replies[Mine] = <<>>
          /\ got \in {"done", "start_error"} /\ Answered(Mine, got)
       \/ pc = "join" /\ got = "lost" /\ status[Mine] = "dead"

(* What every command is, wherever the call is.                            *)
CommandSound(c) ==
  /\ c > n => leader[c] = "none"
  /\ leader[c] = "none" => ~rest[c]
  /\ leader[c] \in {"none", "running"} => ended[c] = "no"
  /\ leader[c] \in {"zombie", "reaped"} => ended[c] # "no"

(* What has become of the current command, by where the call is.           *)
ClientSound ==
  /\ \A c \in Commands : CommandSound(c)
  /\ n > 0 =>
       /\ pc \in {"check", "take", "starting", "send", "direct"} => leader[n] = "none"
       /\ pc = "directWait" => leader[n] \in {"running", "zombie"}
       /\ pc = "directReturn" => leader[n] = "reaped" /\ ~rest[n]
       /\ pc = "idle" /\ outcome = "exited" => leader[n] = "reaped" /\ ended[n] = "self"
       /\ pc = "idle" /\ "crash" \notin Faults => leader[n] \in {"none", "reaped"} /\ ~rest[n]
       /\ leader[n] # "none" => ranWith = env
       /\ Undisturbed => ended[n] # "killed"

(* Only the watcher of the current call may still act, and only while the  *)
(* client waits.                                                           *)
WatcherSound ==
  /\ \A c \in Commands :
       /\ c < n => watcher[c] \in {"off", "done"}
       /\ c > n => watcher[c] = "off"
  /\ n > 0 =>
       /\ pc \notin {"wait", "join"} => watcher[n] \in {"off", "done"}
       /\ watcher[n] = "killing" => killed # "none"

ReasonsHold ==
  /\ killed = "timed_out" => expired
  /\ killed = "canceled" => cancelled
  /\ n = 0 => outcome = "none"
  /\ \A s \in Spawners : gone[s] => ~up

StepInv ==
  PoolSound /\ RestingQuiet /\ BusySound /\ ClientSound /\ WatcherSound /\ ReasonsHold

IInv == TypeOK /\ StepInv

Messages == [kind : {"kill"}] \cup [kind : {"run"}, same : BOOLEAN, env : Envs \cup {NoEnv}]

-----------------------------------------------------------------------------
USE DEF client, timing, pool, sockets, server, tree, processes

(* The constants, and the command of a call.                               *)
LEMMA CommandsType ==
  Commands = 1..MaxCommands /\ MaxCommands \in Nat \ {0} /\ NoSpawner \notin Spawners
  BY SpawnerAssumption DEF Commands

(* The requests are messages.                                              *)
LEMMA RequestsAreMessages ==
  /\ KillRequest \in Messages /\ KillRequest.kind = "kill"
  /\ \A b \in BOOLEAN, e \in Envs :
       /\ RunRequest(b, e) \in Messages /\ RunRequest(b, e).kind = "run"
       /\ RunRequest(b, e).same = b /\ (~b => RunRequest(b, e).env = e)
  BY DEF Messages, KillRequest, RunRequest

(* The environment of a request that carries one is an environment.        *)
LEMMA MessageType ==
  ASSUME NEW m \in Messages, m.kind # "kill"
  PROVE  m.kind = "run" /\ m.same \in BOOLEAN /\ m.env \in Envs \cup {NoEnv}
  BY DEF Messages

(* SIGKILL to the group of a command, and to no other.                     *)
LEMMA KillGroupEffect ==
  ASSUME TypeOK, NEW c \in Commands, KillGroup(c)
  PROVE  /\ leader' \in [Commands -> {"none", "running", "zombie", "reaped"}]
         /\ rest' \in [Commands -> BOOLEAN] /\ ended' \in [Commands -> {"no", "self", "killed"}]
         /\ ranWith' = ranWith
         /\ \A d \in Commands \ {c} :
              leader'[d] = leader[d] /\ rest'[d] = rest[d] /\ ended'[d] = ended[d]
         /\ rest'[c] = FALSE
         /\ IF leader[c] = "running"
            THEN leader'[c] = "zombie" /\ ended'[c] = "killed"
            ELSE leader'[c] = leader[c] /\ ended'[c] = ended[c]
  BY DEF TypeOK, KillGroup

(* A message appended to a socket, and one taken from it.                  *)
LEMMA SocketAppend ==
  ASSUME NEW S, NEW q \in Seq(S), NEW x \in S
  PROVE  /\ Append(q, x) \in Seq(S) /\ Len(Append(q, x)) = Len(q) + 1
         /\ \A i \in 1..Len(q) : Append(q, x)[i] = q[i]
         /\ Append(q, x)[Len(q) + 1] = x
         /\ Append(q, x) # <<>>
  BY AppendProperties

(* Taking the first message of a socket leaves the others in order.        *)
LEMMA SocketTake ==
  ASSUME NEW S, NEW q \in Seq(S), q # <<>>
  PROVE  /\ Head(q) \in S /\ Head(q) = q[1] /\ Len(q) \in Nat \ {0}
         /\ Tail(q) \in Seq(S) /\ Len(Tail(q)) = Len(q) - 1
         /\ \A i \in 1..Len(Tail(q)) : Tail(q)[i] = q[i + 1]
  BY HeadTailProperties

(* Popping the stack of idle spawners.                                     *)
LEMMA StackPop ==
  ASSUME NEW S, NEW q \in Seq(S), q # <<>>
  PROVE  /\ Len(q) \in Nat \ {0} /\ q[Len(q)] \in S
         /\ SubSeq(q, 1, Len(q) - 1) \in Seq(S) /\ Len(SubSeq(q, 1, Len(q) - 1)) = Len(q) - 1
         /\ \A i \in 1..Len(q) - 1 : SubSeq(q, 1, Len(q) - 1)[i] = q[i]
  <1> DEFINE k == Len(q) - 1
  <1>1. Len(q) \in Nat \ {0}
    BY EmptySeq
  <1>2. q[Len(q)] \in S /\ \A i \in 1..k : q[i] \in S
    BY <1>1, ElementOfSeq
  <1>3. k \in Nat /\ k \in Int /\ 1 \in Int
    BY <1>1
  <1> HIDE DEF k
  <1>4. /\ SubSeq(q, 1, k) \in Seq(S)
        /\ Len(SubSeq(q, 1, k)) = IF 1 <= k THEN k - 1 + 1 ELSE 0
        /\ \A i \in 1..k - 1 + 1 : SubSeq(q, 1, k)[i] = q[1 + i - 1]
    BY <1>2, <1>3, SubSeqProperties
  <1>5. \A i \in 1..k : i \in 1..k - 1 + 1 /\ 1 + i - 1 = i
    BY <1>3
  <1>6. Len(SubSeq(q, 1, k)) = k
    BY <1>3, <1>4
  <1>7. /\ SubSeq(q, 1, k) \in Seq(S) /\ Len(SubSeq(q, 1, k)) = k
        /\ \A i \in 1..k : SubSeq(q, 1, k)[i] = q[i]
    BY <1>4, <1>5, <1>6
  <1>8. QED
    BY <1>1, <1>2, <1>7 DEF k

(* The only request among kills, when a kill follows or precedes it.       *)
OnlyRun(q, k) ==
  /\ k \in 1..Len(q)
  /\ \A j \in 1..Len(q) : j # k => q[j].kind = "kill"

(* A kill that is sent leaves the one run request of a socket where it is. *)
LEMMA OnlyRunAppend ==
  ASSUME NEW q \in Seq(Messages), NEW k, OnlyRun(q, k)
  PROVE  OnlyRun(Append(q, KillRequest), k) /\ Append(q, KillRequest)[k] = q[k]
  <1>1. Len(q) \in Nat
    BY LenProperties
  <1>2. QED
    BY <1>1, RequestsAreMessages, SocketAppend DEF OnlyRun

(* Reading a message moves the one run request of a socket up by one.      *)
LEMMA OnlyRunTail ==
  ASSUME NEW q \in Seq(Messages), NEW k \in 2..Len(q), OnlyRun(q, k), q # <<>>
  PROVE  /\ OnlyRun(Tail(q), k - 1) /\ Tail(q)[k - 1] = q[k]
         /\ k = Len(q) => k - 1 = Len(Tail(q))
  <1>1. /\ Len(q) \in Nat \ {0} /\ Len(Tail(q)) = Len(q) - 1
        /\ \A i \in 1..Len(q) - 1 : Tail(q)[i] = q[i + 1]
    BY SocketTake
  <1>2. k - 1 \in 1..Len(q) - 1 /\ Tail(q)[k - 1] = q[k]
    BY <1>1
  <1>3. \A j \in 1..Len(q) - 1 : j # k - 1 => Tail(q)[j].kind = "kill"
    <2> SUFFICES ASSUME NEW j \in 1..Len(q) - 1, j # k - 1
                 PROVE  Tail(q)[j].kind = "kill"
      OBVIOUS
    <2>1. j + 1 \in 1..Len(q) /\ j + 1 # k
      BY <1>1
    <2>2. QED
      BY <1>1, <2>1 DEF OnlyRun
  <1>4. QED
    BY <1>1, <1>2, <1>3 DEF OnlyRun

(* The last message is taken.                                              *)
LEMMA TakeLast ==
  ASSUME NEW S, NEW q \in Seq(S), q # <<>>, Len(q) = 1
  PROVE  Tail(q) = <<>>
  <1>1. Tail(q) \in Seq(S) /\ Len(Tail(q)) = 0
    BY SocketTake
  <1>2. QED
    BY <1>1, EmptySeq

(* A stack or socket of nothing but kills stays one.                       *)
LEMMA KillsStay ==
  ASSUME NEW q \in Seq(Messages), AllKills(q)
  PROVE  /\ AllKills(Append(q, KillRequest))
         /\ q # <<>> => AllKills(Tail(q)) /\ Head(q).kind = "kill"
  <1>1. AllKills(Append(q, KillRequest))
    BY RequestsAreMessages, SocketAppend DEF AllKills
  <1>2. ASSUME q # <<>> PROVE AllKills(Tail(q)) /\ Head(q).kind = "kill"
    BY <1>2, SocketTake DEF AllKills
  <1>3. QED
    BY <1>1, <1>2

-----------------------------------------------------------------------------
(* The type invariant, one part for each group of variables.               *)
ClientType ==
  /\ up \in BOOLEAN /\ cancelled \in BOOLEAN
  /\ n \in 0..MaxCommands
  /\ pc \in {"idle", "check", "take", "starting", "send", "wait", "join",
             "direct", "directWait", "directReturn"}
  /\ env \in Envs \cup {NoEnv}
  /\ sp \in [Commands -> Spawners \cup {NoSpawner}]
  /\ Held => Mine \in Spawners
  /\ pc # "idle" => n > 0 /\ env \in Envs
  /\ got \in {"none", "done", "start_error", "lost"}
  /\ outcome \in {"none", "exited", "timed_out", "canceled", "start_error", "error"}

TimingType ==
  /\ expired \in BOOLEAN /\ watcher \in [Commands -> {"off", "watching", "killing", "done"}]
  /\ killed \in {"none", "timed_out", "canceled"}

PoolType == idle \in Seq(Spawners)

StatusType ==
  /\ lock \in {"free", "client", "prep"} /\ poolFailed \in BOOLEAN
  /\ prep \in {"ready", "starting", "done"}
  /\ status \in [Spawners -> {"unused", "up", "dead"}]

SocketType ==
  /\ requests \in [Spawners -> Seq(Messages)]
  /\ replies \in [Spawners -> Seq({"done", "start_error"})]

ServerType ==
  /\ sentEnv \in [Spawners -> Envs \cup {NoEnv}]
  /\ lastEnv \in [Spawners -> Envs \cup {NoEnv}]
  /\ at \in [Spawners -> {"recv", "start", "started", "failed", "running",
                          "reaped", "join", "joinFailed", "reply"}]
  /\ watch \in [Spawners -> {"poll", "kill", "deaf", "done"}]
  /\ gone \in [Spawners -> BOOLEAN] /\ stopped \in [Spawners -> BOOLEAN]
  /\ pgid \in [Spawners -> BOOLEAN] /\ wake \in [Spawners -> BOOLEAN]
  /\ job \in [Spawners -> 0..MaxCommands]
  /\ \A s \in Spawners : at[s] # "recv" => job[s] > 0

ProcessType ==
  /\ leader \in [Commands -> {"none", "running", "zombie", "reaped"}]
  /\ rest \in [Commands -> BOOLEAN] /\ ended \in [Commands -> {"no", "self", "killed"}]
  /\ ranWith \in Envs \cup {NoEnv}

AllTypes ==
  /\ ClientType /\ TimingType /\ PoolType /\ StatusType
  /\ SocketType /\ ServerType /\ ProcessType

(* The type invariant is the conjunction of its parts.                     *)
LEMMA TypeParts == (TypeOK <=> AllTypes) /\ (TypeOK' <=> AllTypes')
  BY DEF TypeOK, AllTypes, ClientType, TimingType, PoolType, StatusType, SocketType,
     ServerType, ProcessType, Messages

(* What a step leaves alone keeps its type.                                *)
LEMMA TypeFrame ==
  ASSUME TypeOK
  PROVE  /\ UNCHANGED <<up, cancelled, client>> => ClientType'
         /\ UNCHANGED timing => TimingType'
         /\ UNCHANGED idle => PoolType'
         /\ UNCHANGED <<lock, poolFailed, prep, status>> => StatusType'
         /\ UNCHANGED sockets => SocketType'
         /\ UNCHANGED <<sentEnv, server, tree>> => ServerType'
         /\ UNCHANGED processes => ProcessType'
  <1>1. AllTypes
    BY TypeParts
  <1>2. UNCHANGED <<up, cancelled, client>> => ClientType'
    BY <1>1 DEF AllTypes, ClientType, Held, Mine
  <1>3. UNCHANGED timing => TimingType'
    BY <1>1 DEF AllTypes, TimingType
  <1>4. UNCHANGED idle => PoolType'
    BY <1>1 DEF AllTypes, PoolType
  <1>5. UNCHANGED <<lock, poolFailed, prep, status>> => StatusType'
    BY <1>1 DEF AllTypes, StatusType
  <1>6. UNCHANGED sockets => SocketType'
    BY <1>1 DEF AllTypes, SocketType
  <1>7. UNCHANGED <<sentEnv, server, tree>> => ServerType'
    BY <1>1 DEF AllTypes, ServerType
  <1>8. UNCHANGED processes => ProcessType'
    BY <1>1 DEF AllTypes, ProcessType
  <1>9. QED
    BY <1>2, <1>3, <1>4, <1>5, <1>6, <1>7, <1>8

(* A living spawner that is neither resting nor busy there is none.        *)
LEMMA UpSpawner ==
  ASSUME TypeOK, StepInv, NEW s \in Spawners, status[s] = "up"
  PROVE  Resting(s) \/ (pc \in {"wait", "join"} /\ s = Mine)
  BY DEF StepInv, PoolSound, Resting, Held

(* A request to run a command is only received for the current call.       *)
LEMMA RunsAreRequested ==
  ASSUME TypeOK, StepInv, NEW s \in Spawners, status[s] = "up", at[s] = "recv",
         requests[s] # <<>>, Head(requests[s]).kind # "kill"
  PROVE  n > 0 /\ s = Mine /\ pc = "wait" /\ Requested(s)
  <1>1. requests[s] \in Seq(Messages)
    BY TypeParts DEF AllTypes, SocketType
  <1>2. ~AllKills(requests[s])
    BY <1>1, KillsStay
  <1>3. ~Resting(s)
    BY <1>2 DEF StepInv, RestingQuiet, Quiet
  <1>4. pc \in {"wait", "join"} /\ s = Mine
    BY <1>3, UpSpawner
  <1>5. Requested(s)
    BY <1>2, <1>4 DEF StepInv, BusySound, Serving, Answered
  <1>6. n > 0
    BY <1>4, TypeParts DEF AllTypes, ClientType
  <1>7. QED
    BY <1>4, <1>5, <1>6 DEF Requested

(* Every step keeps the types.                                             *)
LEMMA TypeNext == IInv /\ [Next]_vars => TypeOK'
  <1> SUFFICES ASSUME TypeOK, StepInv, [Next]_vars
               PROVE  AllTypes'
    BY TypeParts DEF IInv
  <1>0. /\ AllTypes /\ n \in 0..MaxCommands /\ MaxCommands \in Nat
        /\ (n > 0 => n \in Commands) /\ (Held => n > 0)
        /\ \A s \in Spawners : at[s] # "recv" => job[s] \in Commands
    BY CommandsType, TypeParts DEF AllTypes, ClientType, ServerType, Held
  <1>1. ASSUME NEW e \in Envs, Call(e) PROVE AllTypes'
    <2>1. n' \in 0..MaxCommands /\ n' > 0
      BY <1>1, <1>0 DEF Call
    <2>2. ClientType'
      BY <1>1, <1>0, <2>1 DEF Call, AllTypes, ClientType, Held
    <2>3. TimingType' /\ ProcessType'
      BY <1>1, <1>0 DEF Call, AllTypes, TimingType, ProcessType
    <2>4. QED
      BY <1>1, <2>2, <2>3, TypeFrame DEF Call, AllTypes
  <1>2. CASE CheckContext
    <2>1. ClientType'
      BY <1>2, <1>0 DEF CheckContext, Return, AllTypes, ClientType, Held, Mine
    <2>2. QED
      BY <1>2, <2>1, TypeFrame DEF CheckContext, Return, AllTypes
  <1>3. CASE TakeSpawner
    <2>1. ClientType'
      <3>1. idle # <<>> => idle[Len(idle)] \in Spawners
        BY <1>0, StackPop DEF AllTypes, PoolType
      <3>2. QED
        BY <1>3, <1>0, <3>1 DEF TakeSpawner, AllTypes, ClientType, Held, Mine
    <2>2. PoolType'
      BY <1>3, <1>0, StackPop DEF TakeSpawner, AllTypes, PoolType, ClientType, Held, Mine
    <2>3. StatusType'
      BY <1>3, <1>0 DEF TakeSpawner, AllTypes, StatusType, ClientType, Held, Mine
    <2>4. QED
      BY <1>3, <2>1, <2>2, <2>3, TypeFrame DEF TakeSpawner, AllTypes
  <1>4. CASE TakeStarted
    <2>1. ClientType'
      BY <1>4, <1>0, CommandsType DEF TakeStarted, StartSpawner, AllTypes, ClientType, Held, Mine
    <2>2. StatusType'
      BY <1>4, <1>0 DEF TakeStarted, StartSpawner, AllTypes, StatusType, ClientType, Held, Mine
    <2>3. QED
      BY <1>4, <2>1, <2>2, TypeFrame DEF TakeStarted, StartSpawner, AllTypes
  <1>5. CASE PipesFail
    <2>1. ClientType'
      BY <1>5, <1>0 DEF PipesFail, ReturnSpawner, AllTypes, ClientType, Held, Mine
    <2>2. PoolType'
      BY <1>5, <1>0, SocketAppend DEF PipesFail, ReturnSpawner, AllTypes, PoolType, ClientType, Held, Mine
    <2>3. QED
      BY <1>5, <2>1, <2>2, TypeFrame DEF PipesFail, ReturnSpawner, AllTypes
  <1>6. CASE SendRequest
    <2>1. ClientType'
      BY <1>6, <1>0 DEF SendRequest, AllTypes, ClientType, Held, Mine
    <2>2. TimingType'
      BY <1>6, <1>0 DEF SendRequest, AllTypes, TimingType
    <2>3. SocketType'
      <3>1. SameEnv \in BOOLEAN /\ Mine \in Spawners /\ env \in Envs
        BY <1>6, <1>0 DEF SendRequest, AllTypes, ClientType, Held, SameEnv
      <3>2. Append(requests[Mine], RunRequest(SameEnv, env)) \in Seq(Messages)
        BY <1>0, <3>1, SocketAppend, RequestsAreMessages DEF AllTypes, SocketType
      <3>3. QED
        BY <1>6, <1>0, <3>1, <3>2 DEF SendRequest, AllTypes, SocketType
    <2>4. ServerType'
      BY <1>6, <1>0 DEF SendRequest, AllTypes, ServerType, ClientType, Held, Mine
    <2>5. QED
      BY <1>6, <2>1, <2>2, <2>3, <2>4, TypeFrame DEF SendRequest, AllTypes
  <1>7. CASE SendFails
    <2>1. ClientType'
      BY <1>7, <1>0 DEF SendFails, Discard, AllTypes, ClientType, Held, Mine
    <2>2. StatusType'
      BY <1>7, <1>0 DEF SendFails, Discard, AllTypes, StatusType, ClientType, Held, Mine
    <2>3. QED
      BY <1>7, <2>1, <2>2, TypeFrame DEF SendFails, Discard, AllTypes
  <1>8. CASE Receive
    <2>1. ClientType'
      <3>1. Mine \in Spawners /\ replies[Mine] \in Seq({"done", "start_error"})
        BY <1>8, <1>0 DEF Receive, AllTypes, ClientType, SocketType, Held
      <3>2. replies[Mine] # <<>> => Head(replies[Mine]) \in {"done", "start_error"}
        BY <3>1, SocketTake
      <3>3. got' \in {"none", "done", "start_error", "lost"}
        BY <1>8, <3>2 DEF Receive
      <3>4. QED
        BY <1>8, <1>0, <3>1, <3>3 DEF Receive, AllTypes, ClientType, Held, Mine
    <2>2. SocketType'
      <3>1. Mine \in Spawners /\ replies[Mine] \in Seq({"done", "start_error"})
        BY <1>8, <1>0 DEF Receive, AllTypes, ClientType, SocketType, Held
      <3>2. replies[Mine] # <<>> => Tail(replies[Mine]) \in Seq({"done", "start_error"})
        BY <3>1, SocketTake
      <3>3. QED
        BY <1>8, <1>0, <3>1, <3>2 DEF Receive, AllTypes, SocketType
    <2>3. QED
      BY <1>8, <2>1, <2>2, TypeFrame DEF Receive, AllTypes
  <1>9. CASE Conclude
    <2>1. ClientType'
      BY <1>9, <1>0 DEF Conclude, Discard, ReturnSpawner, Return, AllTypes, ClientType, TimingType, Held
    <2>2. PoolType'
      BY <1>9, <1>0, SocketAppend DEF Conclude, Discard, ReturnSpawner, Return, AllTypes, PoolType, ClientType, Held, Mine
    <2>3. StatusType'
      BY <1>9, <1>0 DEF Conclude, Discard, ReturnSpawner, Return, AllTypes, StatusType, ClientType, Held, Mine
    <2>4. QED
      BY <1>9, <2>1, <2>2, <2>3, TypeFrame DEF Conclude, Discard, ReturnSpawner, Return, AllTypes
  <1>10. CASE DirectStart
    <2>1. ClientType'
      BY <1>10, <1>0 DEF DirectStart, CommandStarts, Return, AllTypes, ClientType, Held, Mine
    <2>2. ProcessType'
      BY <1>10, <1>0 DEF DirectStart, CommandStarts, Return, AllTypes, ProcessType, ClientType, ServerType, Held, Mine
    <2>3. QED
      BY <1>10, <2>1, <2>2, TypeFrame DEF DirectStart, CommandStarts, Return, AllTypes
  <1>11. CASE DirectReap
    <2>1. ClientType'
      BY <1>11, <1>0 DEF DirectReap, Reap, AllTypes, ClientType, Held, Mine
    <2>2. ProcessType'
      BY <1>11, <1>0 DEF DirectReap, Reap, AllTypes, ProcessType, ClientType, ServerType, Held, Mine
    <2>3. QED
      BY <1>11, <2>1, <2>2, TypeFrame DEF DirectReap, Reap, AllTypes
  <1>12. CASE DirectReturn
    <2>1. ClientType'
      BY <1>12, <1>0 DEF DirectReturn, Return, AllTypes, ClientType, TimingType, Held
    <2>2. QED
      BY <1>12, <2>1, TypeFrame DEF DirectReturn, Return, AllTypes
  <1>13. ASSUME NEW r \in {"timed_out", "canceled"}, DirectKill(r) PROVE AllTypes'
    <2>1. TimingType'
      BY <1>13, <1>0 DEF DirectKill, AllTypes, TimingType
    <2>2. ProcessType'
      BY <1>13, <1>0, KillGroupEffect DEF DirectKill, AllTypes, ProcessType, ClientType, ServerType, Held, Mine
    <2>3. QED
      BY <1>13, <2>1, <2>2, TypeFrame DEF DirectKill, AllTypes
  <1>14. CASE PrepareSpawner
    <2>1. StatusType'
      BY <1>14, <1>0 DEF PrepareSpawner, AllTypes, StatusType, ClientType, Held, Mine
    <2>2. QED
      BY <1>14, <2>1, TypeFrame DEF PrepareSpawner, AllTypes
  <1>15. CASE Prepared
    <2>1. PoolType'
      BY <1>15, <1>0, SocketAppend DEF Prepared, StartSpawner, AllTypes, PoolType, ClientType, Held, Mine
    <2>2. StatusType'
      BY <1>15, <1>0 DEF Prepared, StartSpawner, AllTypes, StatusType, ClientType, Held, Mine
    <2>3. QED
      BY <1>15, <2>1, <2>2, TypeFrame DEF Prepared, StartSpawner, AllTypes
  <1>16. CASE Expire
    <2>1. TimingType'
      BY <1>16, <1>0 DEF Expire, AllTypes, TimingType
    <2>2. QED
      BY <1>16, <2>1, TypeFrame DEF Expire, AllTypes
  <1>17. CASE Cancel
    <2>1. ClientType'
      BY <1>17, <1>0 DEF Cancel, AllTypes, ClientType, Held, Mine
    <2>2. QED
      BY <1>17, <2>1, TypeFrame DEF Cancel, AllTypes
  <1>18. CASE Leave
    <2>1. ClientType'
      BY <1>18, <1>0 DEF Leave, AllTypes, ClientType, Held, Mine
    <2>2. QED
      BY <1>18, <2>1, TypeFrame DEF Leave, AllTypes
  <1>19. ASSUME NEW c \in Commands, WatcherEnds(c) PROVE AllTypes'
    <2>1. TimingType'
      BY <1>19, <1>0 DEF WatcherEnds, AllTypes, TimingType
    <2>2. QED
      BY <1>19, <2>1, TypeFrame DEF WatcherEnds, AllTypes
  <1>20. ASSUME NEW c \in Commands, NEW r \in {"timed_out", "canceled"}, WatcherFires(c, r) PROVE AllTypes'
    <2>1. TimingType'
      BY <1>20, <1>0 DEF WatcherFires, AllTypes, TimingType
    <2>2. QED
      BY <1>20, <2>1, TypeFrame DEF WatcherFires, AllTypes
  <1>21. ASSUME NEW c \in Commands, WatcherKills(c) PROVE AllTypes'
    <2>1. TimingType'
      BY <1>21, <1>0 DEF WatcherKills, AllTypes, TimingType
    <2>2. SocketType'
      BY <1>21, <1>0, SocketAppend, RequestsAreMessages DEF WatcherKills, AllTypes, SocketType, ClientType, Held, Mine
    <2>3. QED
      BY <1>21, <2>1, <2>2, TypeFrame DEF WatcherKills, AllTypes
  <1>22. ASSUME NEW c \in Commands, LeaderExits(c) PROVE AllTypes'
    <2>1. ProcessType'
      BY <1>22, <1>0 DEF LeaderExits, AllTypes, ProcessType, ClientType, ServerType, Held, Mine
    <2>2. QED
      BY <1>22, <2>1, TypeFrame DEF LeaderExits, AllTypes
  <1>23. ASSUME NEW c \in Commands, RestChanges(c) PROVE AllTypes'
    <2>1. ProcessType'
      BY <1>23, <1>0 DEF RestChanges, AllTypes, ProcessType, ClientType, ServerType, Held, Mine
    <2>2. QED
      BY <1>23, <2>1, TypeFrame DEF RestChanges, AllTypes
  <1>24. ASSUME NEW s \in Spawners, ServeRequest(s) PROVE AllTypes'
    <2>1. SocketType'
      BY <1>24, <1>0, SocketTake DEF ServeRequest, AllTypes, SocketType, ClientType, Held, Mine
    <2>2. ServerType'
      <3>1. Head(requests[s]) \in Messages
        BY <1>24, <1>0, SocketTake DEF ServeRequest, AllTypes, SocketType
      <3>2. CASE Head(requests[s]).kind = "kill"
        BY <1>24, <1>0, <3>2, TypeFrame DEF ServeRequest
      <3>3. CASE Head(requests[s]).kind # "kill"
        <4>1. /\ Head(requests[s]).same \in BOOLEAN
              /\ Head(requests[s]).env \in Envs \cup {NoEnv}
          BY <3>1, <3>3, MessageType
        <4>2. n \in 0..MaxCommands /\ n > 0
          BY <1>0, <1>24, <3>3, RunsAreRequested DEF ServeRequest
        <4>3. PICK e \in Envs \cup {NoEnv} :
                /\ lastEnv' = [lastEnv EXCEPT ![s] = e]
                /\ job' = [job EXCEPT ![s] = n] /\ at' = [at EXCEPT ![s] = "start"]
                /\ watch' = [watch EXCEPT ![s] = "poll"]
                /\ gone' = [gone EXCEPT ![s] = FALSE]
                /\ stopped' = [stopped EXCEPT ![s] = FALSE]
                /\ pgid' = [pgid EXCEPT ![s] = FALSE]
                /\ UNCHANGED <<wake, sentEnv>>
          <5>1. lastEnv[s] \in Envs \cup {NoEnv}
            BY <1>24, <1>0 DEF AllTypes, ServerType
          <5>2. QED
            BY <1>24, <3>3, <4>1, <5>1 DEF ServeRequest
        <4>4. QED
          BY <1>24, <1>0, <4>2, <4>3 DEF AllTypes, ServerType
      <3>4. QED
        BY <3>2, <3>3
    <2>3. QED
      BY <1>24, <2>1, <2>2, TypeFrame DEF ServeRequest, AllTypes
  <1>25. ASSUME NEW s \in Spawners, OwnerLeft(s) PROVE AllTypes'
    <2>1. StatusType'
      BY <1>25, <1>0 DEF OwnerLeft, Exits, AllTypes, StatusType, ClientType, Held, Mine
    <2>2. QED
      BY <1>25, <2>1, TypeFrame DEF OwnerLeft, Exits, AllTypes
  <1>26. ASSUME NEW s \in Spawners, StartCommand(s) PROVE AllTypes'
    <2>1. ServerType'
      BY <1>26, <1>0 DEF StartCommand, CommandStarts, AllTypes, ServerType, ClientType, Held, Mine
    <2>2. ProcessType'
      BY <1>26, <1>0 DEF StartCommand, CommandStarts, AllTypes, ProcessType, ClientType, ServerType, Held, Mine
    <2>3. QED
      BY <1>26, <2>1, <2>2, TypeFrame DEF StartCommand, CommandStarts, AllTypes
  <1>27. ASSUME NEW s \in Spawners, NoteStarted(s) PROVE AllTypes'
    <2>1. ServerType'
      BY <1>27, <1>0 DEF NoteStarted, AllTypes, ServerType, ClientType, Held, Mine
    <2>2. ProcessType'
      BY <1>27, <1>0, KillGroupEffect DEF NoteStarted, AllTypes, ProcessType, ClientType, ServerType, Held, Mine
    <2>3. QED
      BY <1>27, <2>1, <2>2, TypeFrame DEF NoteStarted, AllTypes
  <1>28. ASSUME NEW s \in Spawners, ReapCommand(s) PROVE AllTypes'
    <2>1. ServerType'
      BY <1>28, <1>0 DEF ReapCommand, Reap, AllTypes, ServerType, ClientType, Held, Mine
    <2>2. ProcessType'
      BY <1>28, <1>0 DEF ReapCommand, Reap, AllTypes, ProcessType, ClientType, ServerType, Held, Mine
    <2>3. QED
      BY <1>28, <2>1, <2>2, TypeFrame DEF ReapCommand, Reap, AllTypes
  <1>29. ASSUME NEW s \in Spawners, WakeWatch(s) PROVE AllTypes'
    <2>1. ServerType'
      BY <1>29, <1>0 DEF WakeWatch, AllTypes, ServerType, ClientType, Held, Mine
    <2>2. QED
      BY <1>29, <2>1, TypeFrame DEF WakeWatch, AllTypes
  <1>30. ASSUME NEW s \in Spawners, CloseTree(s) PROVE AllTypes'
    <2>1. ServerType'
      BY <1>30, <1>0 DEF CloseTree, AllTypes, ServerType, ClientType, Held, Mine
    <2>2. ProcessType'
      BY <1>30, <1>0, KillGroupEffect DEF CloseTree, AllTypes, ProcessType, ClientType, ServerType, Held, Mine
    <2>3. QED
      BY <1>30, <2>1, <2>2, TypeFrame DEF CloseTree, AllTypes
  <1>31. ASSUME NEW s \in Spawners, SendReply(s) PROVE AllTypes'
    <2>1. StatusType'
      BY <1>31, <1>0 DEF SendReply, Exits, AllTypes, StatusType, ClientType, Held, Mine
    <2>2. SocketType'
      <3>1. \A w \in {"done", "start_error"} :
              Append(replies[s], w) \in Seq({"done", "start_error"})
        BY <1>31, <1>0, SocketAppend DEF AllTypes, SocketType
      <3>2. QED
        BY <1>31, <1>0, <3>1 DEF SendReply, Exits, AllTypes, SocketType
    <2>3. ServerType'
      BY <1>31, <1>0 DEF SendReply, Exits, AllTypes, ServerType, ClientType, Held, Mine
    <2>4. QED
      BY <1>31, <2>1, <2>2, <2>3, TypeFrame DEF SendReply, Exits, AllTypes
  <1>32. ASSUME NEW s \in Spawners, WatchWakes(s) PROVE AllTypes'
    <2>1. ServerType'
      BY <1>32, <1>0 DEF WatchWakes, AllTypes, ServerType, ClientType, Held, Mine
    <2>2. QED
      BY <1>32, <2>1, TypeFrame DEF WatchWakes, AllTypes
  <1>33. ASSUME NEW s \in Spawners, WatchReceives(s) PROVE AllTypes'
    <2>1. SocketType'
      BY <1>33, <1>0, SocketTake DEF WatchReceives, AllTypes, SocketType, ClientType, Held, Mine
    <2>2. ServerType'
      BY <1>33, <1>0 DEF WatchReceives, AllTypes, ServerType, ClientType, Held, Mine
    <2>3. QED
      BY <1>33, <2>1, <2>2, TypeFrame DEF WatchReceives, AllTypes
  <1>34. ASSUME NEW s \in Spawners, WatchLosesHimorime(s) PROVE AllTypes'
    <2>1. ServerType'
      BY <1>34, <1>0 DEF WatchLosesHimorime, AllTypes, ServerType, ClientType, Held, Mine
    <2>2. QED
      BY <1>34, <2>1, TypeFrame DEF WatchLosesHimorime, AllTypes
  <1>35. ASSUME NEW s \in Spawners, WatchKills(s) PROVE AllTypes'
    <2>1. ServerType'
      BY <1>35, <1>0 DEF WatchKills, AllTypes, ServerType, ClientType, Held, Mine
    <2>2. ProcessType'
      BY <1>35, <1>0 DEF WatchKills, KillGroup, AllTypes, ProcessType
    <2>3. QED
      BY <1>35, <2>1, <2>2, TypeFrame DEF WatchKills, AllTypes
  <1>36. ASSUME NEW s \in Spawners, WatchFails(s) PROVE AllTypes'
    <2>1. ServerType'
      BY <1>36, <1>0 DEF WatchFails, AllTypes, ServerType, ClientType, Held, Mine
    <2>2. QED
      BY <1>36, <2>1, TypeFrame DEF WatchFails, AllTypes
  <1>37. ASSUME NEW s \in Spawners, SpawnerCrashes(s) PROVE AllTypes'
    <2>1. StatusType'
      BY <1>37, <1>0 DEF SpawnerCrashes, Exits, AllTypes, StatusType, ClientType, Held, Mine
    <2>2. QED
      BY <1>37, <2>1, TypeFrame DEF SpawnerCrashes, Exits, AllTypes
  <1>38. CASE UNCHANGED vars
    BY <1>38, TypeFrame DEF vars, AllTypes
  <1>39. QED
    BY <1>1, <1>2, <1>3, <1>4, <1>5, <1>6, <1>7, <1>8, <1>9, <1>10, <1>11, <1>12,
       <1>13, <1>14, <1>15, <1>16, <1>17, <1>18, <1>19, <1>20, <1>21, <1>22, <1>23,
       <1>24, <1>25, <1>26, <1>27, <1>28, <1>29, <1>30, <1>31, <1>32, <1>33, <1>34,
       <1>35, <1>36, <1>37, <1>38
       DEF Next, Client, Watcher, Prepare, Server, Watch

(* The first state has the types.                                          *)
LEMMA TypeInit == Init => TypeOK
  <1> SUFFICES ASSUME Init PROVE TypeOK
    OBVIOUS
  <1>1. PoolType /\ SocketType
    BY EmptySeq DEF Init, PoolType, SocketType
  <1>2. ClientType
    <2>1. /\ 0 \in 0..MaxCommands
          /\ sp \in [Commands -> Spawners \cup {NoSpawner}]
      BY CommandsType DEF Init
    <2>2. QED
      BY <2>1 DEF Init, ClientType, Held
  <1>3. TimingType /\ StatusType
    BY DEF Init, TimingType, StatusType
  <1>4. ServerType /\ ProcessType
    BY CommandsType DEF Init, ServerType, ProcessType
  <1>5. QED
    BY <1>1, <1>2, <1>3, <1>4, TypeParts DEF AllTypes

-----------------------------------------------------------------------------
(* The initial states satisfy the invariant.                               *)
LEMMA StepInvInit == Init => StepInv
  <1> SUFFICES ASSUME Init PROVE StepInv
    OBVIOUS
  <1>1. Len(idle) = 0 /\ \A s \in Spawners : Len(requests[s]) = 0
    BY EmptySeq DEF Init
  <1>2. PoolSound
    BY <1>1 DEF Init, PoolSound, Held
  <1>3. RestingQuiet
    BY <1>1 DEF Init, RestingQuiet, Quiet, AllKills
  <1>4. BusySound /\ WatcherSound /\ ReasonsHold
    BY DEF Init, BusySound, WatcherSound, ReasonsHold
  <1>5. ClientSound
    BY DEF Init, ClientSound, CommandSound
  <1>6. QED
    BY <1>2, <1>3, <1>4, <1>5 DEF StepInv

(* What a step leaves alone stays as it is.                                *)
LEMMA StepFrame ==
  ASSUME TypeOK, StepInv
  PROVE  /\ UNCHANGED <<idle, status, pc, sp, n, up>> => PoolSound'
         /\ UNCHANGED <<idle, status, pc, sp, n, sockets, sentEnv, lastEnv, at, watch, wake>>
              => RestingQuiet'
         /\ UNCHANGED <<up, client, killed, status, sockets, sentEnv, server, tree, leader, rest>>
              => BusySound'
         /\ pc' \notin {"wait", "join"} => BusySound'
         /\ UNCHANGED <<up, n, pc, env, outcome, killed, processes>> => ClientSound'
         /\ UNCHANGED <<watcher, n, pc, killed>> => WatcherSound'
         /\ UNCHANGED <<up, cancelled, timing, n, outcome, gone>> => ReasonsHold'
  <1>1. UNCHANGED <<idle, status, pc, sp, n, up>> => PoolSound'
    BY DEF StepInv, PoolSound, Pooled, Held, Mine
  <1>2. UNCHANGED <<idle, status, pc, sp, n, sockets, sentEnv, lastEnv, at, watch, wake>>
          => RestingQuiet'
    BY DEF StepInv, RestingQuiet, Resting, Quiet, Pooled, Mine
  <1>3. UNCHANGED <<up, client, killed, status, sockets, sentEnv, server, tree, leader, rest>>
          => BusySound'
    BY DEF StepInv, BusySound, Requested, Serving, Answered, Undisturbed, Mine
  <1>4. pc' \notin {"wait", "join"} => BusySound'
    BY DEF BusySound
  <1>5. UNCHANGED <<up, n, pc, env, outcome, killed, processes>> => ClientSound'
    BY DEF StepInv, ClientSound, CommandSound, Undisturbed
  <1>6. UNCHANGED <<watcher, n, pc, killed>> => WatcherSound'
    BY DEF StepInv, WatcherSound
  <1>7. UNCHANGED <<up, cancelled, timing, n, outcome, gone>> => ReasonsHold'
    BY DEF StepInv, ReasonsHold
  <1>8. QED
    BY <1>1, <1>2, <1>3, <1>4, <1>5, <1>6, <1>7

(* The spawner that works on a command is the one of the current call.     *)
LEMMA WorkingSpawner ==
  ASSUME TypeOK, StepInv, NEW s \in Spawners, status[s] = "up",
         at[s] # "recv" \/ watch[s] # "done"
  PROVE  /\ s = Mine /\ pc = "wait" /\ n > 0 /\ n \in Commands
         /\ Serving(s) /\ ~Resting(s) /\ sentEnv[s] = env /\ job[s] = n
  <1>1. ~Resting(s)
    BY DEF StepInv, RestingQuiet, Quiet
  <1>2. pc \in {"wait", "join"} /\ s = Mine
    BY <1>1, UpSpawner
  <1>3. Serving(s) /\ sentEnv[s] = env
    BY <1>2 DEF StepInv, BusySound, Requested, Answered
  <1>4. n > 0 /\ n \in 0..MaxCommands
    BY <1>2, TypeParts DEF AllTypes, ClientType
  <1>5. QED
    BY <1>1, <1>2, <1>3, <1>4, CommandsType DEF Serving

(* A step of one spawner that is not at rest leaves the others at rest.    *)
LEMMA OthersRest ==
  ASSUME TypeOK, StepInv, NEW s \in Spawners, ~Resting(s), status'[s] # "unused",
         UNCHANGED <<idle, pc, sp, n, sentEnv>>,
         \A t \in Spawners \ {s} :
           /\ requests'[t] = requests[t] /\ replies'[t] = replies[t]
           /\ lastEnv'[t] = lastEnv[t] /\ at'[t] = at[t] /\ watch'[t] = watch[t]
           /\ wake'[t] = wake[t] /\ status'[t] = status[t]
  PROVE  RestingQuiet'
  <1>1. \A t \in Spawners : Resting(t)' => Resting(t) /\ t # s
    BY DEF Resting, Pooled, Mine
  <1>2. \A t \in Spawners \ {s} : Quiet(t) => Quiet(t)'
    BY DEF Quiet
  <1>3. QED
    BY <1>1, <1>2 DEF StepInv, RestingQuiet

(* A spawner dies: killed by somebody, or because himorime is gone.        *)
LEMMA SpawnerDies ==
  ASSUME TypeOK, StepInv, NEW s \in Spawners, status[s] = "up", ~up \/ "crash" \in Faults,
         status' = [status EXCEPT ![s] = "dead"],
         UNCHANGED <<up, cancelled, client, timing, pool, sockets, sentEnv, server, tree,
                     processes>>
  PROVE  StepInv'
  <1>1. /\ status'[s] = "dead"
        /\ \A t \in Spawners \ {s} : status'[t] = status[t]
        /\ idle \in Seq(Spawners) /\ (Held => Mine \in Spawners)
    BY TypeParts DEF AllTypes, StatusType, PoolType, ClientType
  <1>2. \A i \in 1..Len(idle) : idle[i] \in Spawners
    BY <1>1, ElementOfSeq
  <1>3. PoolSound'
    BY <1>1, <1>2 DEF StepInv, PoolSound, Pooled, Held, Mine
  <1>4. RestingQuiet'
    BY <1>1 DEF StepInv, RestingQuiet, Resting, Quiet, Pooled, Mine
  <1>5. BusySound'
    BY <1>1, TypeParts DEF StepInv, BusySound, Requested, Serving, Answered, Undisturbed, Mine,
       AllTypes, ClientType, Held
  <1>6. QED
    BY <1>3, <1>4, <1>5, StepFrame DEF StepInv

(* The steps of the client and of the pool keep the invariant.             *)
LEMMA ClientNext ==
  ASSUME TypeOK, StepInv, TypeOK', Client \/ Prepare
  PROVE  StepInv'
  <1>0. /\ AllTypes /\ AllTypes' /\ n \in 0..MaxCommands /\ MaxCommands \in Nat
        /\ Commands = 1..MaxCommands
        /\ (n > 0 => n \in Commands) /\ (pc # "idle" => n \in Commands /\ n > 0)
        /\ (Held => Mine \in Spawners)
        /\ idle \in Seq(Spawners) /\ \A i \in 1..Len(idle) : idle[i] \in Spawners
    <2>1. AllTypes /\ AllTypes'
      BY TypeParts
    <2>2. idle \in Seq(Spawners)
      BY <2>1 DEF AllTypes, PoolType
    <2>3. QED
      BY <2>1, <2>2, CommandsType, ElementOfSeq DEF AllTypes, ClientType
  <1>1. CASE CheckContext
    <2>1. PoolSound' /\ RestingQuiet'
      BY <1>1 DEF CheckContext, Return, StepInv, PoolSound, RestingQuiet, Resting, Quiet, Pooled, Held, Mine
    <2>2. ClientSound' /\ WatcherSound' /\ ReasonsHold'
      BY <1>1, <1>0 DEF CheckContext, Return, StepInv, ClientSound, CommandSound, WatcherSound, ReasonsHold, Undisturbed
    <2>3. BusySound'
      BY <1>1 DEF CheckContext, Return, BusySound
    <2>4. QED
      BY <2>1, <2>2, <2>3 DEF StepInv
  <1>2. CASE TakeSpawner
    <2>1. ClientSound' /\ WatcherSound' /\ ReasonsHold' /\ BusySound'
      BY <1>2, <1>0 DEF TakeSpawner, StepInv, ClientSound, CommandSound, WatcherSound, ReasonsHold, BusySound, Undisturbed
    <2>2. CASE idle = <<>>
      BY <1>2, <2>1, <2>2 DEF TakeSpawner, StepInv, PoolSound, RestingQuiet, Resting, Quiet, Pooled, Held, Mine
    <2>3. CASE idle # <<>>
      <3>0. PICK m \in Spawners : m = idle[Len(idle)]
        BY <1>0, <2>3, StackPop
      <3>1. /\ Len(idle) \in Nat \ {0}
            /\ Len(idle') = Len(idle) - 1 /\ \A i \in 1..Len(idle) - 1 : idle'[i] = idle[i]
            /\ pc' = "send" /\ Mine' = m /\ UNCHANGED <<n, up>>
        BY <1>2, <1>0, <2>3, <3>0, StackPop DEF TakeSpawner, AllTypes, ClientType, Mine
      <3>2. Pooled(m) /\ ~Pooled(m)' /\ \A t \in Spawners : Pooled(t) <=> (Pooled(t)' \/ t = m)
        BY <3>0, <3>1 DEF StepInv, PoolSound, Pooled
      <3>3. PoolSound'
        <4>1. /\ \A i, j \in 1..Len(idle') : idle'[i] = idle'[j] => i = j
              /\ \A i \in 1..Len(idle') : status'[idle'[i]] # "unused"
              /\ status' = status /\ status[m] # "unused" /\ ~Pooled(Mine)'
          BY <1>2, <3>0, <3>1, <3>2 DEF TakeSpawner, StepInv, PoolSound, Pooled
        <4>2. \A s \in Spawners : status'[s] = "up" => Pooled(s)' \/ (Held' /\ s = Mine')
          BY <4>1, <3>1, <3>2, <1>2 DEF TakeSpawner, StepInv, PoolSound, Held
        <4>3. up' /\ "crash" \notin Faults =>
                /\ \A i \in 1..Len(idle') : status'[idle'[i]] = "up"
                /\ Held' => status'[Mine'] = "up"
          BY <4>1, <3>0, <3>1 DEF StepInv, PoolSound
        <4>4. QED
          BY <3>1, <4>1, <4>2, <4>3 DEF PoolSound
      <3>4. RestingQuiet'
        BY <1>2, <3>1, <3>2 DEF TakeSpawner, StepInv, RestingQuiet, Resting, Quiet
      <3>5. QED
        BY <2>1, <3>3, <3>4 DEF StepInv
    <2>4. QED
      BY <2>2, <2>3
  <1>3. CASE TakeStarted
    <2>1. ClientSound' /\ WatcherSound' /\ ReasonsHold' /\ BusySound'
      BY <1>3, <1>0 DEF TakeStarted, StepInv, ClientSound, CommandSound, WatcherSound, ReasonsHold, BusySound, Undisturbed
    <2>2. PICK s \in Spawners \cup {NoSpawner} :
            StartSpawner(s) /\ sp' = [sp EXCEPT ![n] = s]
            /\ pc' = IF s = NoSpawner THEN "direct" ELSE "send"
      BY <1>3 DEF TakeStarted
    <2>3. CASE s = NoSpawner
      BY <1>3, <2>1, <2>2, <2>3 DEF TakeStarted, StartSpawner, StepInv, PoolSound, RestingQuiet, Resting, Quiet, Pooled, Held, Mine
    <2>4. CASE s # NoSpawner
      <3>1. /\ s \in Spawners /\ status[s] = "unused" /\ pc' = "send" /\ Mine' = s
            /\ status'[s] = "up" /\ \A t \in Spawners \ {s} : status'[t] = status[t]
            /\ ~Pooled(s) /\ UNCHANGED <<idle, n, up>>
        BY <1>3, <1>0, <2>2, <2>4
           DEF TakeStarted, StartSpawner, AllTypes, ClientType, StatusType, Mine, StepInv, PoolSound, Pooled
      <3>2. PoolSound'
        BY <1>3, <1>0, <3>1 DEF TakeStarted, StepInv, PoolSound, Held, Pooled
      <3>3. RestingQuiet'
        BY <1>3, <3>1 DEF TakeStarted, StepInv, RestingQuiet, Resting, Quiet, Pooled
      <3>4. QED
        BY <2>1, <3>2, <3>3 DEF StepInv
    <2>5. QED
      BY <2>3, <2>4
  <1>4. CASE PipesFail
    <2>1. ClientSound' /\ WatcherSound' /\ ReasonsHold' /\ BusySound'
      BY <1>4, <1>0 DEF PipesFail, StepInv, ClientSound, CommandSound, WatcherSound, ReasonsHold, BusySound, Undisturbed
    <2>2. /\ Mine \in Spawners /\ Len(idle) \in Nat /\ Len(idle') = Len(idle) + 1 /\ idle'[Len(idle) + 1] = Mine
          /\ \A i \in 1..Len(idle) : idle'[i] = idle[i]
          /\ pc = "send" /\ pc' = "direct" /\ UNCHANGED <<sp, n, up, status>>
      BY <1>4, <1>0, SocketAppend, LenProperties DEF PipesFail, ReturnSpawner, Held
    <2>3. \A t : Pooled(t)' <=> Pooled(t) \/ t = Mine
      BY <2>2 DEF Pooled
    <2>4. PoolSound'
      BY <2>2, <2>3 DEF StepInv, PoolSound, Held, Pooled, Mine
    <2>5. RestingQuiet'
      BY <1>4, <2>2, <2>3 DEF PipesFail, StepInv, RestingQuiet, Resting, Quiet
    <2>6. QED
      BY <2>1, <2>4, <2>5 DEF StepInv
  <1>5. CASE SendRequest
    <2>1. ClientSound' /\ WatcherSound' /\ ReasonsHold'
      <3>1. ClientSound' /\ ReasonsHold'
        <4>1. ReasonsHold'
          BY <1>5 DEF SendRequest, StepInv, ReasonsHold
        <4>2. /\ UNCHANGED <<up, n, env, outcome, killed, leader, rest, ended, ranWith>>
              /\ pc = "send" /\ pc' = "wait" /\ ClientSound
          BY <1>5 DEF SendRequest, StepInv
        <4>3. ClientSound'
          BY <4>2 DEF ClientSound, CommandSound, Undisturbed
        <4>4. QED
          BY <4>1, <4>3
      <3>2. WatcherSound'
        BY <1>5, <1>0 DEF SendRequest, StepInv, AllTypes, TimingType, WatcherSound
      <3>3. QED
        BY <3>1, <3>2
    <2>2. PoolSound'
      BY <1>5 DEF SendRequest, StepInv, PoolSound, Pooled, Held, Mine
    <2>3. /\ Mine \in Spawners /\ Quiet(Mine) /\ env \in Envs /\ SameEnv \in BOOLEAN
          /\ requests[Mine] \in Seq(Messages) /\ Mine' = Mine
          /\ requests'[Mine] = Append(requests[Mine], RunRequest(SameEnv, env))
          /\ sentEnv'[Mine] = env
          /\ \A t \in Spawners \ {Mine} : requests'[t] = requests[t] /\ sentEnv'[t] = sentEnv[t]
      BY <1>5, <1>0
         DEF SendRequest, StepInv, RestingQuiet, Resting, Held, Mine, SameEnv,
             AllTypes, ClientType, SocketType, ServerType
    <2>4. RestingQuiet'
      BY <1>5, <2>3 DEF SendRequest, StepInv, PoolSound, RestingQuiet, Resting, Quiet, Pooled, Held
    <2>5. Requested(Mine)'
      <3> DEFINE k == Len(requests[Mine]) + 1
                 q == requests'[Mine]
      <3>1. /\ k \in 1..Len(q) /\ k = Len(q) /\ q[k].kind = "run" /\ q[k].same = SameEnv
            /\ ~SameEnv => q[k].env = env
            /\ \A j \in 1..Len(q) : j # k => q[j].kind = "kill"
        <4>1. RunRequest(SameEnv, env) \in Messages
          BY <2>3, RequestsAreMessages
        <4>2. /\ k = Len(q) /\ q[k] = RunRequest(SameEnv, env) /\ Len(requests[Mine]) \in Nat
              /\ \A i \in 1..Len(requests[Mine]) : q[i] = requests[Mine][i]
          BY <2>3, <4>1, SocketAppend, LenProperties
        <4>3. QED
          BY <2>3, <4>2, RequestsAreMessages DEF Quiet, AllKills
      <3>2. SameEnv => lastEnv[Mine] = env
        BY <2>3 DEF SameEnv, Quiet
      <3> HIDE DEF k, q
      <3>3. /\ pc' = "wait" /\ at'[Mine] = "recv" /\ watch'[Mine] = "done" /\ ~wake'[Mine]
            /\ replies'[Mine] = <<>> /\ lastEnv' = lastEnv /\ env' = env
        BY <1>5, <2>3 DEF SendRequest, Quiet
      <3>4. leader'[n'] = "none"
        BY <1>5, <1>0 DEF SendRequest, StepInv, ClientSound
      <3>5. \E j \in 1..Len(q) :
              /\ q[j].kind = "run"
              /\ IF q[j].same THEN lastEnv'[Mine] = env' ELSE q[j].env = env'
              /\ \A i \in 1..Len(q) : i # j => q[i].kind = "kill"
              /\ j = Len(q)
        BY <3>1, <3>2, <3>3
      <3>6. QED
        BY <2>3, <3>3, <3>4, <3>5 DEF Requested, q
    <2>6. BusySound'
      BY <1>5, <2>3, <2>5 DEF SendRequest, BusySound
    <2>7. QED
      BY <2>1, <2>2, <2>4, <2>6 DEF StepInv
  <1>6. CASE SendFails
    <2>1. ClientSound' /\ WatcherSound' /\ ReasonsHold' /\ BusySound'
      BY <1>6, <1>0 DEF SendFails, StepInv, ClientSound, CommandSound, WatcherSound, ReasonsHold, BusySound, Undisturbed
    <2>2. /\ Mine \in Spawners /\ status'[Mine] = "dead"
          /\ \A t \in Spawners \ {Mine} : status'[t] = status[t]
          /\ UNCHANGED <<idle, sp, n, up>> /\ pc = "send" /\ pc' = "direct"
      BY <1>6, <1>0 DEF SendFails, Discard, Held, AllTypes, StatusType
    <2>3. PoolSound'
      BY <1>0, <2>2 DEF StepInv, PoolSound, Held, Pooled
    <2>4. RestingQuiet'
      BY <1>6, <2>2 DEF SendFails, StepInv, RestingQuiet, Resting, Quiet, Pooled
    <2>5. QED
      BY <2>1, <2>3, <2>4 DEF StepInv
  <1>7. CASE Receive
    <2>1. ClientSound' /\ WatcherSound' /\ ReasonsHold'
      BY <1>7, <1>0 DEF Receive, StepInv, ClientSound, CommandSound, WatcherSound, ReasonsHold, Undisturbed
    <2>2. PoolSound'
      BY <1>7 DEF Receive, StepInv, PoolSound, Pooled, Held, Mine
    <2>3. /\ Mine \in Spawners /\ ~Resting(Mine) /\ Mine' = Mine /\ status[Mine] # "unused"
          /\ replies[Mine] \in Seq({"done", "start_error"}) /\ pc = "wait"
      BY <1>7, <1>0 DEF Receive, StepInv, PoolSound, Resting, Held, Mine, AllTypes, SocketType
    <2>4. RestingQuiet'
      <3>1. /\ \A t \in Spawners \ {Mine} : replies'[t] = replies[t]
            /\ UNCHANGED <<idle, status, requests, sentEnv, lastEnv, at, watch, wake>>
            /\ pc' = "join"
        BY <1>7, <1>0, <2>3 DEF Receive, AllTypes, SocketType
      <3>2. \A t \in Spawners : Resting(t)' => Resting(t) /\ t # Mine
        BY <2>3, <3>1 DEF Resting, Pooled
      <3>3. \A t \in Spawners \ {Mine} : Quiet(t) => Quiet(t)'
        BY <3>1 DEF Quiet
      <3>4. QED
        BY <3>2, <3>3 DEF StepInv, RestingQuiet
    <2>5. CASE replies[Mine] # <<>>
      <3>1. PICK w \in {"done", "start_error"} : replies[Mine] = <<w>> /\ Answered(Mine, w)
        BY <2>3, <2>5 DEF StepInv, BusySound, Requested, Serving
      <3>2. got' = w /\ replies'[Mine] = <<>> /\ pc' = "join"
        BY <1>7, <1>0, <2>3, <2>5, <3>1 DEF Receive, AllTypes, SocketType
      <3>3. Answered(Mine, w)' /\ sentEnv'[Mine] = env'
        BY <1>7, <2>3, <3>1 DEF Receive, Answered, StepInv, BusySound
      <3>4. BusySound'
        BY <2>3, <3>2, <3>3 DEF BusySound
      <3>5. QED
        BY <2>1, <2>2, <2>4, <3>4 DEF StepInv
    <2>6. CASE replies[Mine] = <<>>
      <3>1. BusySound'
        BY <1>7, <2>3, <2>6 DEF Receive, StepInv, BusySound
      <3>2. QED
        BY <2>1, <2>2, <2>4, <3>1 DEF StepInv
    <2>7. QED
      BY <2>5, <2>6
  <1>8. CASE Conclude
    <2>1. /\ Mine \in Spawners /\ Mine' = Mine /\ n \in Commands /\ n > 0
          /\ ~Pooled(Mine) /\ status[Mine] # "unused" /\ sentEnv[Mine] = env
          /\ pc = "join" /\ pc' = "idle" /\ up
          /\ UNCHANGED <<up, n, env, sp, requests, replies, sentEnv, lastEnv, at, watch, wake,
                        processes, watcher, killed>>
      BY <1>8, <1>0 DEF Conclude, Return, Held, Mine, StepInv, PoolSound, BusySound
    <2>2. BusySound' /\ WatcherSound' /\ ReasonsHold'
      BY <1>8, <2>1, <1>0 DEF Conclude, StepInv, WatcherSound, WatcherJoined, ReasonsHold, BusySound
    <2>3. CASE got = "lost"
      <3>1. /\ status'[Mine] = "dead" /\ idle' = idle /\ outcome' = "error"
            /\ \A t \in Spawners \ {Mine} : status'[t] = status[t]
            /\ "crash" \in Faults
        <4>1. status[Mine] = "dead"
          BY <2>1, <2>3 DEF StepInv, BusySound, Requested, Serving
        <4>2. QED
          BY <1>8, <1>0, <2>1, <2>3, <4>1
             DEF Conclude, Discard, Return, AllTypes, StatusType, StepInv, PoolSound, Held
      <3>2. PoolSound'
        BY <1>0, <2>1, <3>1 DEF StepInv, PoolSound, Held, Pooled
      <3>3. RestingQuiet'
        BY <2>1, <3>1 DEF StepInv, RestingQuiet, Resting, Quiet, Pooled
      <3>4. ClientSound'
        BY <2>1, <3>1 DEF StepInv, ClientSound, CommandSound, Undisturbed
      <3>5. QED
        BY <2>2, <3>2, <3>3, <3>4 DEF StepInv
    <2>4. CASE got # "lost"
      <3>1. got \in {"done", "start_error"} /\ Answered(Mine, got) /\ replies[Mine] = <<>>
        BY <2>1, <2>4 DEF StepInv, BusySound, Requested, Serving
      <3>2. /\ Len(idle) \in Nat /\ Len(idle') = Len(idle) + 1 /\ idle'[Len(idle) + 1] = Mine
            /\ \A i \in 1..Len(idle) : idle'[i] = idle[i]
            /\ status' = status
        BY <1>8, <1>0, <2>1, <2>4, SocketAppend, LenProperties DEF Conclude, ReturnSpawner
      <3>3. \A t : Pooled(t)' <=> Pooled(t) \/ t = Mine
        BY <3>2 DEF Pooled
      <3>4. PoolSound'
        BY <2>1, <3>2, <3>3 DEF StepInv, PoolSound, Held, Pooled
      <3>5. Quiet(Mine)'
        BY <2>1, <3>1 DEF Answered, Quiet
      <3>6. RestingQuiet'
        BY <2>1, <3>2, <3>3, <3>5 DEF StepInv, RestingQuiet, Resting, Quiet
      <3>7. ClientSound'
        <4>1. leader[n] \in {"none", "reaped"} /\ ~rest[n]
          BY <2>1, <3>1 DEF Answered, StepInv, ClientSound, CommandSound
        <4>2. outcome' = "exited" => killed = "none" /\ got = "done"
          BY <1>8, <2>4, <3>1, <1>0 DEF Conclude, Return, AllTypes, TimingType
        <4>3. outcome' = "exited" => leader[n] = "reaped" /\ ended[n] = "self"
          BY <2>1, <3>1, <4>2, <1>0
             DEF Answered, StepInv, ClientSound, CommandSound, Undisturbed, AllTypes, ProcessType
        <4>4. QED
          BY <2>1, <4>1, <4>3 DEF StepInv, ClientSound, CommandSound, Undisturbed
      <3>8. QED
        BY <2>2, <3>4, <3>6, <3>7 DEF StepInv
    <2>5. QED
      BY <2>3, <2>4
  <1>9. CASE DirectStart
    <2>1. PoolSound' /\ RestingQuiet'
      BY <1>9 DEF DirectStart, Return, StepInv, PoolSound, RestingQuiet, Resting, Quiet, Pooled, Held, Mine
    <2>2. BusySound' /\ WatcherSound' /\ ReasonsHold'
      BY <1>9, <1>0 DEF DirectStart, Return, StepInv, BusySound, WatcherSound, ReasonsHold
    <2>3. CASE CommandStarts(n, env) /\ pc' = "directWait" /\ UNCHANGED outcome
      <3>1. /\ \A c \in Commands \ {n} : leader'[c] = leader[c]
            /\ leader'[n] = "running" /\ leader[n] = "none" /\ ranWith' = env
            /\ UNCHANGED <<rest, ended, n, env, up, killed>> /\ n \in Commands
        BY <1>9, <1>0, <2>3 DEF DirectStart, CommandStarts, AllTypes, ProcessType, StepInv, ClientSound
      <3>2. ClientSound'
        BY <2>3, <3>1, <1>0 DEF StepInv, ClientSound, CommandSound, Undisturbed
      <3>3. QED
        BY <2>1, <2>2, <3>2 DEF StepInv
    <2>4. CASE pc' = "idle" /\ outcome' # "exited" /\ UNCHANGED processes
      <3>1. ClientSound'
        BY <1>9, <2>4, <1>0 DEF DirectStart, StepInv, ClientSound, CommandSound, Undisturbed
      <3>2. QED
        BY <2>1, <2>2, <3>1 DEF StepInv
    <2>5. QED
      BY <1>9, <2>3, <2>4 DEF DirectStart, Return
  <1>10. ASSUME NEW r \in {"timed_out", "canceled"}, DirectKill(r) PROVE StepInv'
    <2>1. PoolSound' /\ RestingQuiet' /\ BusySound' /\ WatcherSound'
      BY <1>10, <1>0, StepFrame DEF DirectKill, StepInv, WatcherSound
    <2>2. ReasonsHold'
      BY <1>10 DEF DirectKill, StepInv, ReasonsHold
    <2>3. /\ KillGroup(n) /\ n \in Commands /\ pc = "directWait" /\ killed' # "none"
          /\ UNCHANGED <<up, n, pc, env, outcome>>
      BY <1>10, <1>0 DEF DirectKill
    <2>4. ClientSound'
      <3>0. /\ leader[n] \in {"running", "zombie"} /\ ranWith' = ranWith /\ rest'[n] = FALSE
            /\ IF leader[n] = "running"
               THEN leader'[n] = "zombie" /\ ended'[n] = "killed"
               ELSE leader'[n] = leader[n] /\ ended'[n] = ended[n]
        <4>1. leader[n] \in {"running", "zombie"}
          BY <2>3, CommandsType DEF StepInv, ClientSound
        <4>2. QED
          BY <2>3, <4>1, KillGroupEffect
      <3>1. ~Undisturbed'
        BY <2>3 DEF Undisturbed
      <3>2. \A c \in Commands : CommandSound(c)'
        <4> SUFFICES ASSUME NEW c \in Commands PROVE CommandSound(c)'
          OBVIOUS
        <4>1. CommandSound(c)
          BY DEF StepInv, ClientSound
        <4>2. n' = n
          BY <2>3
        <4>3. CASE c = n
          <5>1. leader'[n] # "none" /\ rest'[n] = FALSE
            BY <2>3, <3>0
          <5>2. CASE leader[n] = "running"
            BY <2>3, <3>0, <4>1, <4>2, <4>3, <5>1, <5>2 DEF CommandSound
          <5>3. CASE leader[n] = "zombie"
            BY <2>3, <3>0, <4>1, <4>2, <4>3, <5>1, <5>3 DEF CommandSound
          <5>4. QED
            BY <3>0, <5>2, <5>3
        <4>4. CASE c # n
          <5>1. \A d \in Commands \ {n} :
                  leader'[d] = leader[d] /\ rest'[d] = rest[d] /\ ended'[d] = ended[d]
            BY <2>3, KillGroupEffect
          <5>2. leader'[c] = leader[c] /\ rest'[c] = rest[c] /\ ended'[c] = ended[c]
            BY <4>4, <5>1
          <5>3. QED
            BY <4>1, <4>2, <5>2 DEF CommandSound
        <4>5. QED
          BY <4>3, <4>4
      <3>3. /\ leader[n] \in {"running", "zombie"} /\ leader'[n] \in {"running", "zombie"}
            /\ ranWith' = ranWith /\ (leader[n] # "none" => ranWith = env) /\ n > 0
        <4>1. leader[n] \in {"running", "zombie"} /\ (leader[n] # "none" => ranWith = env) /\ n > 0
          BY <2>3, CommandsType DEF StepInv, ClientSound
        <4>2. QED
          BY <2>3, <3>0, <4>1
      <3>4. QED
        BY <2>3, <3>1, <3>2, <3>3 DEF ClientSound
    <2>5. QED
      BY <2>1, <2>2, <2>4 DEF StepInv
  <1>11. CASE DirectReap
    <2>1. PoolSound' /\ RestingQuiet'
      BY <1>11 DEF DirectReap, StepInv, PoolSound, RestingQuiet, Resting, Quiet, Pooled, Held, Mine
    <2>2. BusySound' /\ WatcherSound' /\ ReasonsHold'
      BY <1>11, <1>0 DEF DirectReap, StepInv, BusySound, WatcherSound, ReasonsHold
    <2>3. ClientSound'
      BY <1>11, <1>0 DEF DirectReap, Reap, StepInv, ClientSound, CommandSound, Undisturbed, AllTypes, ProcessType
    <2>4. QED
      BY <2>1, <2>2, <2>3 DEF StepInv
  <1>12. CASE DirectReturn
    <2>1. PoolSound' /\ RestingQuiet'
      BY <1>12 DEF DirectReturn, Return, StepInv, PoolSound, RestingQuiet, Resting, Quiet, Pooled, Held, Mine
    <2>2. BusySound' /\ WatcherSound' /\ ReasonsHold'
      BY <1>12, <1>0 DEF DirectReturn, Return, StepInv, BusySound, WatcherSound, ReasonsHold
    <2>3. outcome' = "exited" => killed = "none"
      BY <1>12, <1>0 DEF DirectReturn, Return, AllTypes, TimingType
    <2>4. ClientSound'
      BY <1>12, <1>0, <2>3 DEF DirectReturn, Return, StepInv, ClientSound, CommandSound, Undisturbed, AllTypes, ProcessType
    <2>5. QED
      BY <2>1, <2>2, <2>4 DEF StepInv
  <1>13. CASE PrepareSpawner
    BY <1>13, StepFrame DEF PrepareSpawner, StepInv
  <1>14. CASE Prepared
    <2>1. ClientSound' /\ WatcherSound' /\ ReasonsHold'
      BY <1>14, StepFrame DEF Prepared
    <2>2. PICK s \in Spawners \cup {NoSpawner} :
            StartSpawner(s) /\ idle' = IF s = NoSpawner THEN idle ELSE Append(idle, s)
      BY <1>14 DEF Prepared
    <2>3. CASE s = NoSpawner
      BY <1>14, <2>2, <2>3, StepFrame DEF Prepared, StartSpawner, StepInv
    <2>4. CASE s # NoSpawner
      <3>1. /\ s \in Spawners /\ status[s] = "unused" /\ status'[s] = "up"
            /\ \A t \in Spawners \ {s} : status'[t] = status[t]
            /\ Len(idle) \in Nat /\ Len(idle') = Len(idle) + 1 /\ idle'[Len(idle) + 1] = s
            /\ \A i \in 1..Len(idle) : idle'[i] = idle[i]
            /\ UNCHANGED <<n, up, pc, sp>>
        BY <1>14, <1>0, <2>2, <2>4, SocketAppend, LenProperties DEF Prepared, StartSpawner, AllTypes, StatusType
      <3>2. ~Pooled(s) /\ (Held => Mine # s) /\ \A t : Pooled(t)' <=> Pooled(t) \/ t = s
        BY <3>1 DEF StepInv, PoolSound, Pooled
      <3>3. PoolSound'
        BY <1>0, <3>1, <3>2, SMTT(30) DEF StepInv, PoolSound, Pooled, Held, Mine
      <3>4. RestingQuiet'
        BY <1>14, <3>1, <3>2 DEF Prepared, StepInv, RestingQuiet, Resting, Quiet, Mine
      <3>5. BusySound'
        BY <1>14, <1>0, <3>1, <3>2
           DEF Prepared, StepInv, BusySound, Requested, Serving, Answered, Undisturbed, Mine, Held
      <3>6. QED
        BY <2>1, <3>3, <3>4, <3>5 DEF StepInv
    <2>5. QED
      BY <2>3, <2>4
  <1>15. QED
    BY <1>1, <1>2, <1>3, <1>4, <1>5, <1>6, <1>7, <1>8, <1>9, <1>10, <1>11, <1>12, <1>13,
       <1>14 DEF Client, Prepare

(* The goroutine that watches the timeout and the context, and the two     *)
(* things it watches.                                                      *)
LEMMA WatcherNext ==
  ASSUME TypeOK, StepInv, TypeOK',
         Expire \/ Cancel \/ Leave \/ \E c \in Commands : Watcher(c)
  PROVE  StepInv'
  <1>0. /\ AllTypes /\ n \in 0..MaxCommands /\ MaxCommands \in Nat /\ Commands = 1..MaxCommands
        /\ (n > 0 => n \in Commands) /\ (pc # "idle" => n \in Commands /\ n > 0)
        /\ (Held => Mine \in Spawners)
    BY TypeParts, CommandsType DEF AllTypes, ClientType
  <1>1. CASE Expire
    <2>1. ReasonsHold'
      BY <1>1 DEF Expire, StepInv, ReasonsHold
    <2>2. QED
      BY <1>1, <2>1, StepFrame DEF Expire, StepInv
  <1>2. CASE Cancel
    <2>1. ReasonsHold'
      BY <1>2 DEF Cancel, StepInv, ReasonsHold
    <2>2. QED
      BY <1>2, <2>1, StepFrame DEF Cancel, StepInv
  <1>3. CASE Leave
    <2>1. PoolSound' /\ ReasonsHold'
      BY <1>3 DEF Leave, StepInv, PoolSound, ReasonsHold, Pooled, Held, Mine
    <2>2. BusySound' /\ ClientSound'
      BY <1>3 DEF Leave, StepInv, BusySound, Requested, Serving, Answered, ClientSound,
                  CommandSound, Undisturbed, Mine
    <2>3. QED
      BY <1>3, <2>1, <2>2, StepFrame DEF Leave, StepInv
  <1>4. ASSUME NEW c \in Commands, WatcherEnds(c) PROVE StepInv'
    <2>1. WatcherSound'
      BY <1>4, <1>0 DEF WatcherEnds, StepInv, WatcherSound, AllTypes, TimingType
    <2>2. ReasonsHold'
      BY <1>4 DEF WatcherEnds, StepInv, ReasonsHold
    <2>3. QED
      BY <1>4, <2>1, <2>2, StepFrame DEF WatcherEnds, StepInv
  <1>5. ASSUME NEW c \in Commands, NEW r \in {"timed_out", "canceled"}, WatcherFires(c, r)
        PROVE  StepInv'
    <2>1. c = n /\ pc = "wait" /\ killed' = r
      BY <1>5, <1>0 DEF WatcherFires, DoneClosed, StepInv, WatcherSound
    <2>2. WatcherSound'
      BY <1>5, <1>0, <2>1 DEF WatcherFires, StepInv, WatcherSound, AllTypes, TimingType
    <2>3. ReasonsHold'
      BY <1>5 DEF WatcherFires, StepInv, ReasonsHold
    <2>4. BusySound'
      <3>1. /\ UNCHANGED <<up, cancelled, client, expired, pool, status, sockets, sentEnv,
                            server, tree, processes>>
            /\ Mine' = Mine /\ killed' # "none" /\ BusySound
        BY <1>5, <2>1 DEF WatcherFires, StepInv, Mine
      <3>2. Requested(Mine) => Requested(Mine)'
        BY <3>1 DEF Requested, Undisturbed
      <3>3. Serving(Mine) => Serving(Mine)'
        BY <3>1 DEF Serving, Undisturbed
      <3>4. \A w : Answered(Mine, w) => Answered(Mine, w)'
        BY <3>1 DEF Answered
      <3>5. QED
        BY <3>1, <3>2, <3>3, <3>4 DEF BusySound
    <2>5. ClientSound'
      BY <1>5, <2>1 DEF WatcherFires, StepInv, ClientSound, CommandSound, Undisturbed
    <2>6. QED
      BY <1>5, <2>2, <2>3, <2>4, <2>5, StepFrame DEF WatcherFires, StepInv
  <1>6. ASSUME NEW c \in Commands, WatcherKills(c) PROVE StepInv'
    <2>1. c = n /\ pc \in {"wait", "join"} /\ killed # "none" /\ n > 0
      BY <1>6, <1>0 DEF WatcherKills, StepInv, WatcherSound
    <2>2. WatcherSound'
      BY <1>6, <1>0 DEF WatcherKills, StepInv, WatcherSound, AllTypes, TimingType
    <2>3. ReasonsHold'
      BY <1>6 DEF WatcherKills, StepInv, ReasonsHold
    <2>4. PoolSound' /\ ClientSound'
      BY <1>6, StepFrame DEF WatcherKills
    <2>5. CASE status[Mine] # "up"
      BY <1>6, <2>1, <2>2, <2>3, <2>4, <2>5, StepFrame DEF WatcherKills, StepInv, Mine
    <2>6. CASE status[Mine] = "up"
      <3>1. /\ Mine \in Spawners /\ Mine' = Mine /\ requests[Mine] \in Seq(Messages)
            /\ requests'[Mine] = Append(requests[Mine], KillRequest)
            /\ \A t \in Spawners \ {Mine} : requests'[t] = requests[t]
            /\ ~Resting(Mine)
        BY <1>6, <1>0, <2>1, <2>6
           DEF WatcherKills, AllTypes, SocketType, Mine, Held, StepInv, PoolSound, Resting
      <3>2. RestingQuiet'
        BY <1>6, <3>1, <2>6, OthersRest DEF WatcherKills
      <3>3. requests'[Mine] \in Seq(Messages)
        BY <3>1, RequestsAreMessages, SocketAppend
      <3>4. AllKills(requests[Mine]) => AllKills(requests[Mine])'
        BY <3>1, KillsStay
      <3>5. Requested(Mine) => Requested(Mine)'
        <4> SUFFICES ASSUME Requested(Mine) PROVE Requested(Mine)'
          OBVIOUS
        <4>1. PICK k \in 1..Len(requests[Mine]) :
                /\ requests[Mine][k].kind = "run"
                /\ IF requests[Mine][k].same THEN lastEnv[Mine] = env
                                             ELSE requests[Mine][k].env = env
                /\ OnlyRun(requests[Mine], k)
          BY DEF Requested, OnlyRun
        <4>2. OnlyRun(requests'[Mine], k) /\ requests'[Mine][k] = requests[Mine][k]
          BY <3>1, <4>1, OnlyRunAppend
        <4>3. UNCHANGED <<pc, at, watch, wake, replies, leader, n, lastEnv, env>> /\ ~Undisturbed'
          BY <1>6, <2>1 DEF WatcherKills, Undisturbed
        <4>4. QED
          BY <3>1, <4>1, <4>2, <4>3 DEF Requested, OnlyRun
      <3>6. Serving(Mine) => Serving(Mine)'
        BY <1>6, <2>1, <3>1, <3>4 DEF WatcherKills, Serving, Undisturbed
      <3>7. \A w : Answered(Mine, w) => Answered(Mine, w)'
        BY <1>6, <2>1, <3>1, <3>4 DEF WatcherKills, Answered
      <3>8. BusySound'
        BY <1>6, <2>1, <3>1, <3>5, <3>6, <3>7 DEF WatcherKills, StepInv, BusySound
      <3>9. QED
        BY <2>2, <2>3, <2>4, <3>2, <3>8 DEF StepInv
    <2>7. QED
      BY <2>5, <2>6
  <1>7. QED
    BY <1>1, <1>2, <1>3, <1>4, <1>5, <1>6 DEF Watcher

(* The spawner receives a message: a late kill, or the request of the      *)
(* current call.                                                           *)
LEMMA ServeRequestNext ==
  ASSUME TypeOK, StepInv, TypeOK', NEW s \in Spawners, ServeRequest(s)
  PROVE  StepInv'
  <1>1. /\ status[s] = "up" /\ at[s] = "recv" /\ requests[s] # <<>>
        /\ requests[s] \in Seq(Messages) /\ requests'[s] = Tail(requests[s])
        /\ \A t \in Spawners \ {s} : requests'[t] = requests[t]
        /\ UNCHANGED <<up, cancelled, client, timing, pool, status, replies, sentEnv, processes, wake>>
        /\ \A t \in Spawners \ {s} : /\ lastEnv'[t] = lastEnv[t] /\ at'[t] = at[t]
                                     /\ watch'[t] = watch[t] /\ gone'[t] = gone[t]
    BY TypeParts DEF ServeRequest, AllTypes, SocketType, ServerType
  <1>2. Mine' = Mine /\ (pc \in {"wait", "join"} => Mine \in Spawners)
    BY <1>1, TypeParts DEF Mine, AllTypes, ClientType, Held
  <1>3. PoolSound' /\ ClientSound' /\ WatcherSound'
    BY <1>1, StepFrame
  <1>4. /\ Len(requests[s]) \in Nat \ {0} /\ Len(requests'[s]) = Len(requests[s]) - 1
        /\ \A i \in 1..Len(requests'[s]) : requests'[s][i] = requests[s][i + 1]
        /\ Head(requests[s]) = requests[s][1]
        /\ Len(requests[s]) = 1 => requests'[s] = <<>>
    BY <1>1, SocketTake, TakeLast
  <1>5. CASE Head(requests[s]).kind = "kill"
    <2>1. UNCHANGED <<server, tree>>
      BY <1>5 DEF ServeRequest
    <2>2. AllKills(requests[s]) => AllKills(requests[s])'
      BY <1>1, KillsStay
    <2>3. RestingQuiet'
      <3>1. \A t \in Spawners : Resting(t)' <=> Resting(t)
        BY <1>1, <1>2 DEF Resting, Pooled
      <3>2. \A t \in Spawners : Quiet(t) => Quiet(t)'
        BY <1>1, <2>1, <2>2 DEF Quiet
      <3>3. QED
        BY <3>1, <3>2 DEF StepInv, RestingQuiet
    <2>4. CASE s = Mine /\ pc \in {"wait", "join"}
      <3>1. Requested(Mine) => Requested(Mine)'
        <4> SUFFICES ASSUME Requested(s) PROVE Requested(s)'
          BY <1>2, <2>4
        <4>1. PICK k \in 1..Len(requests[s]) :
                /\ requests[s][k].kind = "run"
                /\ IF requests[s][k].same THEN lastEnv[s] = env ELSE requests[s][k].env = env
                /\ OnlyRun(requests[s], k)
                /\ Undisturbed => k = Len(requests[s])
          BY DEF Requested, OnlyRun
        <4>2. k \in 2..Len(requests[s])
          BY <1>4, <1>5, <4>1
        <4>3. /\ OnlyRun(requests'[s], k - 1) /\ requests'[s][k - 1] = requests[s][k]
              /\ Undisturbed => k - 1 = Len(requests'[s])
          BY <1>1, <4>1, <4>2, OnlyRunTail
        <4>4. Undisturbed' <=> Undisturbed
          BY <1>1 DEF Undisturbed
        <4>5. QED
          BY <1>1, <2>1, <4>1, <4>3, <4>4 DEF Requested, OnlyRun
      <3>2. ~Serving(Mine)
        BY <1>1, <2>4 DEF Serving
      <3>3. \A w : Answered(Mine, w) => Answered(Mine, w)'
        BY <1>1, <1>2, <2>1, <2>2, <2>4 DEF Answered
      <3>4. BusySound'
        BY <1>1, <1>2, <3>1, <3>2, <3>3, <2>4 DEF StepInv, BusySound
      <3>5. QED
        BY <1>1, <1>3, <2>1, <2>3, <3>4, StepFrame DEF StepInv
    <2>5. CASE ~(s = Mine /\ pc \in {"wait", "join"})
      <3>1. BusySound'
        BY <1>1, <1>2, <2>1, <2>5
           DEF StepInv, BusySound, Requested, Serving, Answered, Undisturbed
      <3>2. QED
        BY <1>1, <1>3, <2>1, <2>3, <3>1, StepFrame DEF StepInv
    <2>6. QED
      BY <2>4, <2>5
  <1>6. CASE Head(requests[s]).kind # "kill"
    <2>1. n > 0 /\ s = Mine /\ pc = "wait" /\ Requested(s) /\ n \in Commands
      BY <1>1, <1>6, RunsAreRequested, TypeParts, CommandsType DEF AllTypes, ClientType
    <2>2. PICK k \in 1..Len(requests[s]) :
            /\ requests[s][k].kind = "run"
            /\ IF requests[s][k].same THEN lastEnv[s] = env ELSE requests[s][k].env = env
            /\ \A j \in 1..Len(requests[s]) : j # k => requests[s][j].kind = "kill"
            /\ Undisturbed => k = Len(requests[s])
      BY <2>1 DEF Requested
    <2>3. k = 1
      BY <1>4, <1>6, <2>2
    <2>4. /\ lastEnv'[s] = env /\ job'[s] = n /\ at'[s] = "start" /\ watch'[s] = "poll"
          /\ gone'[s] = FALSE /\ stopped'[s] = FALSE /\ pgid'[s] = FALSE
      BY <1>1, <1>4, <1>6, <2>2, <2>3, TypeParts DEF ServeRequest, AllTypes, ServerType
    <2>5. AllKills(requests[s])' /\ (Undisturbed' => requests'[s] = <<>>)
      BY <1>1, <1>4, <2>2, <2>3 DEF AllKills, Undisturbed
    <2>6. Serving(s)'
      BY <1>1, <2>1, <2>4, <2>5 DEF Requested, Serving
    <2>7. BusySound'
      BY <1>1, <1>2, <2>1, <2>6 DEF StepInv, BusySound
    <2>8. ~Resting(s)
      BY <1>1, <2>1 DEF Resting, StepInv, PoolSound, Held
    <2>9. RestingQuiet'
      BY <1>1, <2>8, OthersRest
    <2>10. ReasonsHold'
      BY <1>1, <2>4 DEF StepInv, ReasonsHold
    <2>11. QED
      BY <1>3, <2>7, <2>9, <2>10 DEF StepInv
  <1>7. QED
    BY <1>5, <1>6

(* A step of the spawner, or of its watch, that works on the command.      *)
LEMMA ServingStep ==
  ASSUME TypeOK, StepInv, NEW s \in Spawners, status[s] = "up", ~Resting(s),
         UNCHANGED <<up, cancelled, client, timing, pool, status, sentEnv>>,
         \A t \in Spawners \ {s} :
           /\ requests'[t] = requests[t] /\ replies'[t] = replies[t]
           /\ lastEnv'[t] = lastEnv[t] /\ at'[t] = at[t] /\ watch'[t] = watch[t]
           /\ wake'[t] = wake[t] /\ gone'[t] = gone[t],
         gone'[s] => ~up,
         ClientSound', BusySound'
  PROVE  StepInv'
  <1>1. RestingQuiet'
    BY OthersRest
  <1>2. PoolSound' /\ WatcherSound'
    BY StepFrame
  <1>3. ReasonsHold'
    BY DEF StepInv, ReasonsHold
  <1>4. QED
    BY <1>1, <1>2, <1>3 DEF StepInv

(* The group of the current command is killed, for a reason.               *)
LEMMA GroupKilled ==
  ASSUME TypeOK, StepInv, pc = "wait", n \in Commands, n > 0, KillGroup(n), ~Undisturbed,
         UNCHANGED <<up, n, pc, env, outcome, killed>>
  PROVE  ClientSound'
  <1>1. \A c \in Commands : CommandSound(c)'
    <2> SUFFICES ASSUME NEW c \in Commands PROVE CommandSound(c)'
      OBVIOUS
    <2>1. CommandSound(c)
      BY DEF StepInv, ClientSound
    <2>2. CASE c = n
      <3>1. ~(n > n)
        BY CommandsType
      <3>2. /\ rest'[n] = FALSE
            /\ leader[n] = "running" => leader'[n] = "zombie" /\ ended'[n] = "killed"
            /\ leader[n] # "running" => leader'[n] = leader[n] /\ ended'[n] = ended[n]
        BY KillGroupEffect
      <3>3. QED
        BY <2>1, <2>2, <3>1, <3>2 DEF CommandSound
    <2>3. CASE c # n
      <3>1. leader'[c] = leader[c] /\ ended'[c] = ended[c] /\ rest'[c] = rest[c]
        BY <2>3, KillGroupEffect
      <3>2. QED
        BY <2>1, <3>1 DEF CommandSound
    <2>4. QED
      BY <2>2, <2>3
  <1>2. leader'[n] # "none" => ranWith' = env'
    BY KillGroupEffect DEF StepInv, ClientSound
  <1>3. ~Undisturbed'
    BY DEF Undisturbed
  <1>4. QED
    BY <1>1, <1>2, <1>3 DEF ClientSound

(* The steps of a spawner and of its watch that change only what the       *)
(* spawner keeps of the command, and the command.                          *)
LEMMA ServerNext ==
  ASSUME TypeOK, StepInv, TypeOK', NEW s \in Spawners,
         \/ StartCommand(s) \/ NoteStarted(s) \/ ReapCommand(s) \/ WakeWatch(s)
         \/ CloseTree(s) \/ SendReply(s)
         \/ WatchWakes(s) \/ WatchReceives(s) \/ WatchLosesHimorime(s) \/ WatchKills(s)
         \/ WatchFails(s)
  PROVE  StepInv'
  <1>0. /\ s = Mine /\ pc = "wait" /\ n > 0 /\ n \in Commands /\ Serving(s) /\ ~Resting(s)
        /\ sentEnv[s] = env /\ job[s] = n /\ status[s] = "up"
    BY WorkingSpawner
       DEF StartCommand, NoteStarted, ReapCommand, WakeWatch, CloseTree, SendReply,
           WatchWakes, WatchReceives, WatchLosesHimorime, WatchKills, WatchFails
  <1>1. /\ SocketType /\ ServerType /\ ProcessType /\ StatusType
        /\ requests[s] \in Seq(Messages)
    BY TypeParts DEF AllTypes, SocketType
  <1>2. /\ up' = up /\ client' = client /\ killed' = killed => Mine' = Mine /\ (Undisturbed' <=> Undisturbed)
        /\ gone[s] => ~up
    BY DEF Mine, Undisturbed, StepInv, ReasonsHold
  <1>3. ASSUME UNCHANGED <<up, client, killed, sentEnv>>, Serving(s)' PROVE BusySound'
    BY <1>0, <1>2, <1>3 DEF BusySound
  <1>4. CASE StartCommand(s)
    <2>1. /\ UNCHANGED <<up, cancelled, client, timing, pool, status, sockets, sentEnv,
                         lastEnv, gone, job, tree>>
          /\ at[s] = "start" /\ \A t \in Spawners \ {s} : at'[t] = at[t]
          /\ leader[n] = "none"
      BY <1>0, <1>1, <1>4 DEF StartCommand, ServerType, Serving
    <2>2. CASE CommandStarts(n, env) /\ at'[s] = "started"
      <3>1. /\ leader'[n] = "running" /\ \A c \in Commands \ {n} : leader'[c] = leader[c]
            /\ UNCHANGED <<rest, ended>> /\ ranWith' = env
        BY <1>0, <1>1, <2>2 DEF CommandStarts, ProcessType
      <3>2. ClientSound'
        BY <1>0, <2>1, <3>1, CommandsType DEF StepInv, ClientSound, CommandSound, Undisturbed
      <3>3. Serving(s)'
        BY <1>0, <1>2, <2>1, <2>2, <3>1 DEF Serving
      <3>4. QED
        BY <1>0, <1>2, <1>3, <2>1, <3>2, <3>3, ServingStep
    <2>3. CASE at'[s] = "failed" /\ UNCHANGED processes
      <3>1. Serving(s)'
        BY <1>0, <1>2, <2>1, <2>3 DEF Serving
      <3>2. QED
        BY <1>0, <1>2, <1>3, <2>1, <2>3, <3>1, ServingStep, StepFrame
    <2>4. QED
      BY <1>0, <1>1, <1>4, <2>2, <2>3 DEF StartCommand, ServerType, Serving
  <1>5. CASE NoteStarted(s)
    <2>1. /\ UNCHANGED <<up, cancelled, client, timing, pool, status, sockets, sentEnv,
                         lastEnv, gone, job, watch, stopped, wake>>
          /\ at[s] = "started" /\ at'[s] = "running" /\ pgid'[s] = TRUE
          /\ \A t \in Spawners \ {s} : at'[t] = at[t]
          /\ IF stopped[s] THEN KillGroup(n) ELSE UNCHANGED processes
      BY <1>0, <1>1, <1>5 DEF NoteStarted, ServerType
    <2>2. Undisturbed => ~stopped[s]
      BY <1>0 DEF Serving
    <2>3. ClientSound'
      <3>1. CASE stopped[s]
        BY <1>0, <2>1, <2>2, <3>1, GroupKilled
      <3>2. CASE ~stopped[s]
        BY <2>1, <3>2, StepFrame
      <3>3. QED
        BY <3>1, <3>2
    <2>4. leader'[n] \in {"running", "zombie"}
      BY <1>0, <2>1, KillGroupEffect DEF Serving
    <2>5. Serving(s)'
      BY <1>0, <1>2, <2>1, <2>4 DEF Serving
    <2>6. QED
      BY <1>0, <1>2, <1>3, <2>1, <2>3, <2>5, ServingStep
  <1>6. CASE ReapCommand(s)
    <2>1. /\ UNCHANGED <<up, cancelled, client, timing, pool, status, sockets, sentEnv,
                         lastEnv, gone, job, tree, rest, ended, ranWith>>
          /\ at[s] = "running" /\ at'[s] = "reaped" /\ leader[n] = "zombie" /\ leader'[n] = "reaped"
          /\ \A t \in Spawners \ {s} : at'[t] = at[t]
          /\ \A c \in Commands \ {n} : leader'[c] = leader[c]
      BY <1>0, <1>1, <1>6 DEF ReapCommand, Reap, ServerType, ProcessType
    <2>2. ClientSound'
      BY <1>0, <2>1 DEF StepInv, ClientSound, CommandSound, Undisturbed
    <2>3. Serving(s)'
      BY <1>0, <1>2, <2>1 DEF Serving
    <2>4. QED
      BY <1>0, <1>2, <1>3, <2>1, <2>2, <2>3, ServingStep
  <1>7. CASE WakeWatch(s)
    <2>1. /\ UNCHANGED <<up, cancelled, client, timing, pool, status, sockets, sentEnv,
                         lastEnv, gone, job, watch, stopped, pgid, processes>>
          /\ \/ at[s] = "reaped" /\ at'[s] = "join"
             \/ at[s] = "failed" /\ at'[s] = "joinFailed"
          /\ wake'[s] = TRUE
          /\ \A t \in Spawners \ {s} : at'[t] = at[t] /\ wake'[t] = wake[t]
      BY <1>0, <1>1, <1>7 DEF WakeWatch, ServerType
    <2>2. Serving(s)'
      BY <1>0, <1>2, <2>1 DEF Serving
    <2>3. QED
      BY <1>0, <1>2, <1>3, <2>1, <2>2, ServingStep, StepFrame
  <1>8. CASE CloseTree(s)
    <2>1. /\ UNCHANGED <<up, cancelled, client, timing, pool, status, sockets, sentEnv,
                         lastEnv, gone, job, tree>>
          /\ at[s] = "join" /\ at'[s] = "reply" /\ watch[s] = "done" /\ leader[n] = "reaped"
          /\ \A t \in Spawners \ {s} : at'[t] = at[t]
          /\ KillGroup(n)
      BY <1>0, <1>1, <1>8 DEF CloseTree, Watched, ServerType, Serving
    <2>2. /\ leader'[n] = "reaped" /\ ended'[n] = ended[n] /\ ~rest'[n] /\ ranWith' = ranWith
          /\ \A c \in Commands \ {n} : leader'[c] = leader[c] /\ ended'[c] = ended[c] /\ rest'[c] = rest[c]
      BY <1>0, <2>1, KillGroupEffect
    <2>3. ClientSound'
      BY <1>0, <2>1, <2>2 DEF StepInv, ClientSound, CommandSound, Undisturbed
    <2>4. Serving(s)'
      BY <1>0, <1>2, <2>1, <2>2 DEF Serving
    <2>5. QED
      BY <1>0, <1>2, <1>3, <2>1, <2>3, <2>4, ServingStep
  <1>9. CASE SendReply(s)
    <2>1. /\ UNCHANGED <<up, cancelled, client, timing, pool, requests, sentEnv, lastEnv,
                         gone, job, tree, processes>>
          /\ at[s] = "reply" \/ (at[s] = "joinFailed" /\ watch[s] = "done")
      BY <1>9 DEF SendReply, Watched
    <2>2. CASE gone[s] \/ ~up
      BY <1>0, <1>2, <1>9, <2>1, <2>2, SpawnerDies DEF SendReply, Exits
    <2>3. CASE ~(gone[s] \/ ~up)
      <3>1. PICK w \in {"done", "start_error"} :
              /\ w = IF at[s] = "reply" THEN "done" ELSE "start_error"
              /\ replies' = [replies EXCEPT ![s] = Append(@, w)]
              /\ at' = [at EXCEPT ![s] = "recv"] /\ UNCHANGED status
        BY <1>9, <2>3 DEF SendReply
      <3>2. /\ replies'[s] = <<w>> /\ at'[s] = "recv"
            /\ \A t \in Spawners \ {s} : replies'[t] = replies[t] /\ at'[t] = at[t]
        BY <1>0, <1>1, <3>1 DEF SocketType, ServerType, Serving
      <3>3. Answered(s, w)'
        BY <1>0, <2>1, <3>1, <3>2 DEF Serving, Answered, AllKills
      <3>4. BusySound'
        BY <1>0, <1>2, <2>1, <3>2, <3>3 DEF BusySound
      <3>5. QED
        BY <1>0, <1>2, <2>1, <3>1, <3>2, <3>4, ServingStep, StepFrame
    <2>4. QED
      BY <2>2, <2>3
  <1>10. CASE WatchWakes(s)
    <2>1. /\ UNCHANGED <<up, cancelled, client, timing, pool, status, sockets, sentEnv,
                         server, stopped, pgid, processes>>
          /\ wake[s] /\ watch[s] # "kill" /\ watch'[s] = "done" /\ wake'[s] = FALSE
          /\ \A t \in Spawners \ {s} : watch'[t] = watch[t] /\ wake'[t] = wake[t]
      BY <1>0, <1>1, <1>10 DEF WatchWakes, ServerType
    <2>2. Serving(s)'
      BY <1>0, <1>2, <2>1 DEF Serving
    <2>3. QED
      BY <1>0, <1>2, <1>3, <2>1, <2>2, ServingStep, StepFrame
  <1>11. CASE WatchReceives(s)
    <2>1. /\ UNCHANGED <<up, cancelled, client, timing, pool, status, replies, sentEnv,
                         server, stopped, pgid, wake, processes>>
          /\ requests[s] # <<>> /\ requests'[s] = Tail(requests[s])
          /\ watch[s] = "poll"
          /\ watch'[s] = IF Head(requests[s]).kind = "kill" THEN "kill" ELSE "poll"
          /\ \A t \in Spawners \ {s} : watch'[t] = watch[t] /\ requests'[t] = requests[t]
      BY <1>0, <1>1, <1>11 DEF WatchReceives, SocketType, ServerType
    <2>2. AllKills(requests[s])'  /\ watch'[s] = "kill" /\ ~Undisturbed
      BY <1>0, <1>1, <2>1, KillsStay DEF Serving
    <2>3. Serving(s)'
      BY <1>0, <1>2, <2>1, <2>2 DEF Serving
    <2>4. QED
      BY <1>0, <1>2, <1>3, <2>1, <2>3, ServingStep, StepFrame
  <1>12. CASE WatchLosesHimorime(s)
    <2>1. /\ UNCHANGED <<up, cancelled, client, timing, pool, status, sockets, sentEnv,
                         lastEnv, at, job, stopped, pgid, wake, processes>>
          /\ ~up /\ watch[s] = "poll" /\ watch'[s] = "kill"
          /\ \A t \in Spawners \ {s} : watch'[t] = watch[t] /\ gone'[t] = gone[t]
      BY <1>0, <1>1, <1>12 DEF WatchLosesHimorime, ServerType
    <2>2. Serving(s)'
      BY <1>0, <1>2, <2>1 DEF Serving, Undisturbed
    <2>3. QED
      BY <1>0, <1>2, <1>3, <2>1, <2>2, ServingStep, StepFrame
  <1>13. CASE WatchKills(s)
    <2>1. /\ UNCHANGED <<up, cancelled, client, timing, pool, status, sockets, sentEnv,
                         server, pgid, wake>>
          /\ watch[s] = "kill" /\ watch'[s] \in {"deaf", "poll"}
          /\ IF pgid[s] THEN KillGroup(n) ELSE UNCHANGED processes
          /\ \A t \in Spawners \ {s} : watch'[t] = watch[t] /\ stopped'[t] = stopped[t]
      BY <1>0, <1>1, <1>13 DEF WatchKills, ServerType
    <2>2. ~Undisturbed
      BY <1>0, <2>1 DEF Serving
    <2>3. CASE pgid[s]
      <3>1. KillGroup(n) /\ at[s] \in {"running", "reaped", "join"}
        BY <1>0, <1>1, <2>1, <2>3 DEF Serving, ServerType
      <3>2. ClientSound'
        BY <1>0, <2>1, <2>2, <3>1, GroupKilled
      <3>3. /\ leader[n] = "running" => leader'[n] = "zombie"
            /\ leader[n] # "running" => leader'[n] = leader[n]
        BY <1>0, <3>1, KillGroupEffect
      <3>4. Serving(s)'
        BY <1>0, <1>2, <2>1, <2>2, <3>1, <3>3 DEF Serving
      <3>5. QED
        BY <1>0, <1>2, <1>3, <2>1, <3>2, <3>4, ServingStep
    <2>4. CASE ~pgid[s]
      <3>1. Serving(s)'
        BY <1>0, <1>2, <2>1, <2>2, <2>4 DEF Serving
      <3>2. QED
        BY <1>0, <1>2, <1>3, <2>1, <2>4, <3>1, ServingStep, StepFrame
    <2>5. QED
      BY <2>3, <2>4
  <1>14. CASE WatchFails(s)
    <2>1. /\ UNCHANGED <<up, cancelled, client, timing, pool, status, sockets, sentEnv,
                         server, stopped, pgid, wake, processes>>
          /\ watch[s] = "poll" /\ watch'[s] = "deaf"
          /\ \A t \in Spawners \ {s} : watch'[t] = watch[t]
      BY <1>0, <1>1, <1>14 DEF WatchFails, ServerType
    <2>2. Serving(s)'
      BY <1>0, <1>2, <2>1 DEF Serving
    <2>3. QED
      BY <1>0, <1>2, <1>3, <2>1, <2>2, ServingStep, StepFrame
  <1>15. QED
    BY <1>4, <1>5, <1>6, <1>7, <1>8, <1>9, <1>10, <1>11, <1>12, <1>13, <1>14

(* A process of a command ends by itself, or one is started.               *)
LEMMA ProcessNext ==
  ASSUME TypeOK, StepInv, NEW c \in Commands, LeaderExits(c) \/ RestChanges(c)
  PROVE  StepInv'
  <1>1. UNCHANGED <<up, cancelled, client, timing, pool, status, sockets, sentEnv, server, tree,
                    ranWith>>
    BY DEF LeaderExits, RestChanges
  <1>2. /\ \A d \in Commands \ {c} : leader'[d] = leader[d] /\ rest'[d] = rest[d] /\ ended'[d] = ended[d]
        /\ \/ leader[c] = "running" /\ leader'[c] = "zombie" /\ ended'[c] = "self" /\ rest'[c] = rest[c]
           \/ leader'[c] = leader[c] /\ ended'[c] = ended[c] /\ (rest[c] \/ leader[c] = "running")
    BY TypeParts DEF LeaderExits, RestChanges, AllTypes, ProcessType
  <1>3. ClientSound'
    <2>1. \A d \in Commands : CommandSound(d)'
      BY <1>1, <1>2 DEF StepInv, ClientSound, CommandSound
    <2>2. n > 0 => n \in Commands
      BY TypeParts, CommandsType DEF AllTypes, ClientType
    <2>3. QED
      BY <1>1, <1>2, <2>1, <2>2 DEF StepInv, ClientSound, Undisturbed
  <1>4. BusySound'
    <2> SUFFICES ASSUME pc \in {"wait", "join"} PROVE BusySound'
      BY <1>1 DEF BusySound
    <2>1. n \in Commands /\ Mine' = Mine /\ (Undisturbed' <=> Undisturbed)
      BY <1>1, TypeParts, CommandsType DEF AllTypes, ClientType, Mine, Undisturbed
    <2>2. /\ leader[n] \in {"none", "reaped"} => leader'[n] = leader[n]
          /\ leader[n] = "reaped" /\ ~rest[n] => ~rest'[n]
          /\ leader[n] \in {"running", "zombie"} => leader'[n] \in {"running", "zombie"}
      BY <1>2, <2>1
    <2>3. Requested(Mine) => Requested(Mine)'
      BY <1>1, <2>1, <2>2 DEF Requested
    <2>4. Serving(Mine) => Serving(Mine)'
      BY <1>1, <2>1, <2>2, TypeParts DEF Serving, AllTypes, ServerType
    <2>5. \A w : Answered(Mine, w) => Answered(Mine, w)'
      BY <1>1, <2>1, <2>2 DEF Answered
    <2>6. QED
      BY <1>1, <2>1, <2>3, <2>4, <2>5 DEF StepInv, BusySound
  <1>5. QED
    BY <1>1, <1>3, <1>4, StepFrame DEF StepInv

(* A call that begins finds nothing of the calls before it (Spawner.Run).  *)
LEMMA CallNext ==
  ASSUME TypeOK, StepInv, NEW e \in Envs, Call(e)
  PROVE  StepInv'
  <1>1. /\ pc = "idle" /\ pc' = "check" /\ n' = n + 1 /\ n \in Nat /\ n' \in Commands
        /\ killed' = "none" /\ outcome' = "none"
        /\ UNCHANGED <<up, cancelled, sp, watcher, pool, status, sockets, sentEnv,
                       server, tree, leader, rest, ended>>
    BY TypeParts, CommandsType DEF Call, AllTypes, ClientType
  <1>2. PoolSound' /\ RestingQuiet' /\ BusySound'
    BY <1>1 DEF StepInv, PoolSound, RestingQuiet, BusySound, Resting, Quiet, Pooled, Held
  <1>3. WatcherSound'
    BY <1>1, CommandsType DEF StepInv, WatcherSound
  <1>4. ReasonsHold'
    BY <1>1 DEF StepInv, ReasonsHold
  <1>5. \A c \in Commands : CommandSound(c)' /\ (c > n => leader[c] = "none" /\ ended[c] = "no")
    BY <1>1, CommandsType DEF StepInv, ClientSound, CommandSound
  <1>6. ClientSound'
    BY <1>1, <1>5 DEF ClientSound
  <1>7. QED
    BY <1>2, <1>3, <1>4, <1>6 DEF StepInv

(* Every step keeps the invariant.                                         *)
LEMMA IInvNext == IInv /\ [Next]_vars => IInv'
  <1> SUFFICES ASSUME TypeOK, StepInv, TypeOK', [Next]_vars
               PROVE  StepInv'
    BY TypeNext DEF IInv
  <1>1. CASE \E e \in Envs : Call(e)
    BY <1>1, CallNext
  <1>2. CASE Client \/ Prepare
    BY <1>2, ClientNext
  <1>3. CASE Expire \/ Cancel \/ Leave \/ \E c \in Commands : Watcher(c)
    BY <1>3, WatcherNext
  <1>4. CASE \E c \in Commands : LeaderExits(c) \/ RestChanges(c)
    BY <1>4, ProcessNext
  <1>5. ASSUME NEW s \in Spawners, Server(s) \/ Watch(s) \/ WatchFails(s) \/ SpawnerCrashes(s)
        PROVE  StepInv'
    <2>1. CASE ServeRequest(s)
      BY <2>1, ServeRequestNext
    <2>2. CASE OwnerLeft(s)
      BY <2>2, SpawnerDies DEF OwnerLeft, Exits
    <2>3. CASE SpawnerCrashes(s)
      BY <2>3, SpawnerDies DEF SpawnerCrashes, Exits
    <2>4. QED
      BY <1>5, <2>1, <2>2, <2>3, ServerNext DEF Server, Watch
  <1>6. CASE UNCHANGED vars
    BY <1>6, StepFrame DEF vars, StepInv
  <1>7. QED
    BY <1>1, <1>2, <1>3, <1>4, <1>5, <1>6 DEF Next

(* Every state of himorime and its spawners satisfies the invariant.       *)
THEOREM SpawnerInvariant == Spec => []IInv
  <1>1. Init => IInv
    BY TypeInit, StepInvInit DEF IInv
  <1>2. QED
    BY <1>1, IInvNext, PTL DEF Spec

-----------------------------------------------------------------------------
(* Nothing meant for one command reaches another (runSpawned, serveRequest,*)
(* takeSpawner, returnSpawner): no kill request, no environment, no answer,*)
(* over all the spawners there are.                                        *)
THEOREM CommandsApart == Spec => []CommandsKeptApart
  <1>1. IInv => CommandsKeptApart
    <2> SUFFICES ASSUME IInv PROVE CommandsKeptApart
      OBVIOUS
    <2>0. TypeOK /\ StepInv /\ n \in Nat /\ idle \in Seq(Spawners)
      BY TypeParts DEF IInv, AllTypes, ClientType, PoolType
    <2>1. ReportedRunsUndisturbed
      BY <2>0 DEF StepInv, ClientSound, ReasonsHold, ReportedRunsUndisturbed
    <2>2. EnvAgreement
      BY <2>0 DEF StepInv, ClientSound, EnvAgreement
    <2>3. IdleSpawnersQuiet
      <3>1. \A i \in 1..Len(idle) : idle[i] \in Spawners /\ Pooled(idle[i])
        BY <2>0, ElementOfSeq DEF Pooled
      <3>2. \A i \in 1..Len(idle) : Quiet(idle[i])
        BY <2>0, <3>1 DEF StepInv, RestingQuiet, Resting
      <3>3. QED
        BY <3>2 DEF IdleSpawnersQuiet, Quiet, AllKills
    <2>4. QED
      BY <2>0, <2>1, <2>2, <2>3 DEF CommandsKeptApart
  <1>2. QED
    BY <1>1, SpawnerInvariant, PTL

(* A command is started at most once, by whichever way: when its spawner   *)
(* is lost nobody starts it again (runSpawned, Run).                       *)
THEOREM StartedAtMostOnce == Spec => StartedOnce
  <1> DEFINE Once == \A c \in Commands : leader'[c] = "running" => leader[c] \in {"none", "running"}
  <1>1. IInv /\ Next => Once
    <2> SUFFICES ASSUME TypeOK, StepInv, Next PROVE Once
      BY DEF IInv
    <2>0. /\ leader \in [Commands -> {"none", "running", "zombie", "reaped"}]
          /\ (pc # "idle" => n \in Commands /\ n > 0)
      BY TypeParts, CommandsType DEF AllTypes, ProcessType, ClientType
    <2>1. ASSUME NEW c, KillGroup(c) \/ UNCHANGED processes PROVE Once
      BY <2>0, <2>1 DEF KillGroup
    <2>2. ASSUME NEW c \in Commands, NEW e, leader[c] = "none", CommandStarts(c, e) PROVE Once
      BY <2>0, <2>2 DEF CommandStarts
    <2>3. ASSUME NEW c, Reap(c) PROVE Once
      BY <2>0, <2>3 DEF Reap
    <2>4. ASSUME NEW s \in Spawners, Server(s) \/ Watch(s) \/ WatchFails(s) \/ SpawnerCrashes(s)
          PROVE  Once
      <3>1. CASE StartCommand(s)
        <4>1. job[s] \in Commands /\ leader[job[s]] = "none"
          BY <3>1, WorkingSpawner DEF StartCommand, Serving
        <4>2. CommandStarts(job[s], lastEnv[s]) \/ UNCHANGED processes
          BY <3>1 DEF StartCommand
        <4>3. QED
          BY <2>1, <2>2, <4>1, <4>2
      <3>2. CASE ReapCommand(s)
        BY <2>3, <3>2 DEF ReapCommand
      <3>3. CASE NoteStarted(s) \/ CloseTree(s) \/ WatchKills(s)
        BY <2>1, <3>3 DEF NoteStarted, CloseTree, WatchKills
      <3>4. QED
        BY <2>1, <2>4, <3>1, <3>2, <3>3
           DEF Server, Watch, ServeRequest, OwnerLeft, WakeWatch, SendReply, WatchWakes,
               WatchReceives, WatchLosesHimorime, WatchFails, SpawnerCrashes
    <2>5. CASE Client
      <3>1. CASE DirectStart
        <4>1. n \in Commands /\ leader[n] = "none"
          BY <2>0, <3>1 DEF DirectStart, StepInv, ClientSound
        <4>2. CommandStarts(n, env) \/ UNCHANGED processes
          BY <3>1 DEF DirectStart
        <4>3. QED
          BY <2>1, <2>2, <4>1, <4>2
      <3>2. CASE DirectReap
        BY <2>3, <3>2 DEF DirectReap
      <3>3. ASSUME NEW r \in {"timed_out", "canceled"}, DirectKill(r) PROVE Once
        BY <2>1, <3>3 DEF DirectKill
      <3>4. QED
        BY <2>1, <2>5, <3>1, <3>2, <3>3
           DEF Client, CheckContext, TakeSpawner, TakeStarted, PipesFail, SendRequest, SendFails,
               Receive, Conclude, DirectReturn
    <2>6. ASSUME NEW c \in Commands, LeaderExits(c) \/ RestChanges(c) PROVE Once
      BY <2>0, <2>6 DEF LeaderExits, RestChanges
    <2>7. CASE \E e \in Envs : Call(e)
      BY <2>0, <2>7 DEF Call
    <2>8. CASE Prepare \/ Expire \/ Cancel \/ Leave \/ \E c \in Commands : Watcher(c)
      BY <2>1, <2>8 DEF Prepare, PrepareSpawner, Prepared, Expire, Cancel, Leave, Watcher,
                        WatcherEnds, WatcherKills, WatcherFires
    <2>9. QED
      BY <2>4, <2>5, <2>6, <2>7, <2>8 DEF Next
  <1>2. IInv /\ [Next]_vars => [Once]_vars
    BY <1>1
  <1>3. QED
    BY <1>2, SpawnerInvariant, PTL DEF Spec, StartedOnce

-----------------------------------------------------------------------------
(* The refinement: what the contract sees of the call and its command.     *)
Begun == n > 0 /\ leader[n] # "none"
Living == n > 0 /\ Alive(n)

(* A step that changes nothing the contract sees, except that the last     *)
(* process may die, is a step of it or a stutter.                          *)
LEMMA DieOrStutter ==
  ASSUME UNCHANGED <<up, n, outcome, expired, cancelled>>,
         pc' = "idle" <=> pc = "idle",
         Begun' <=> Begun, Living' => Living
  PROVE  [Contract!Next]_(Contract!vars)
  <1>1. CASE Living' <=> Living
    <2>1. UNCHANGED Contract!vars
      BY <1>1 DEF Contract!vars, Begun, Living
    <2>2. QED
      BY <2>1
  <1>2. CASE Living /\ ~Living'
    <2>1. Contract!Die
      BY <1>2 DEF Contract!Die, Begun, Living
    <2>2. QED
      BY <2>1 DEF Contract!Next
  <1>3. QED
    BY <1>1, <1>2

(* So is one that leaves the processes alone.                              *)
LEMMA ContractFrame ==
  ASSUME UNCHANGED <<up, cancelled, n, outcome, expired, leader, rest>>,
         pc' = "idle" <=> pc = "idle"
  PROVE  [Contract!Next]_(Contract!vars)
  BY DieOrStutter DEF Begun, Living, Alive

(* And one that kills the group of a command.                              *)
LEMMA KillImplements ==
  ASSUME TypeOK, NEW c \in Commands, KillGroup(c),
         UNCHANGED <<up, cancelled, n, outcome, expired>>,
         pc' = "idle" <=> pc = "idle"
  PROVE  [Contract!Next]_(Contract!vars)
  <1>1. n > 0 => n \in Commands
    BY TypeParts, CommandsType DEF AllTypes, ClientType
  <1>2. /\ \A d \in Commands : (leader'[d] = "none" <=> leader[d] = "none")
        /\ \A d \in Commands : leader'[d] = "running" \/ rest'[d] => leader[d] = "running" \/ rest[d]
    BY KillGroupEffect
  <1>3. (Begun' <=> Begun) /\ (Living' => Living)
    BY <1>1, <1>2 DEF Begun, Living, Alive
  <1>4. QED
    BY <1>3, DieOrStutter

(* The command of the current call starts.                                 *)
LEMMA StartImplements ==
  ASSUME TypeOK, n \in Commands, n > 0, leader[n] = "none", NEW e, CommandStarts(n, e),
         pc # "idle", pc' # "idle",
         UNCHANGED <<up, cancelled, n, outcome, expired>>
  PROVE  [Contract!Next]_(Contract!vars)
  <1>1. leader'[n] = "running"
    BY TypeParts DEF CommandStarts, AllTypes, ProcessType
  <1>2. ~Begun /\ Begun' /\ Living'
    BY <1>1 DEF Begun, Living, Alive
  <1>3. Contract!Start
    BY <1>2 DEF Contract!Start, Begun, Living
  <1>4. QED
    BY <1>3 DEF Contract!Next

(* A return is one the contract allows when nothing of the command lives   *)
(* and the outcome is justified.                                           *)
LEMMA ReturnImplements ==
  ASSUME up, pc # "idle", ~Living, pc' = "idle",
         UNCHANGED <<up, n, cancelled, expired, leader, rest>>,
         outcome' \in {"exited", "timed_out", "canceled", "start_error", "error"},
         outcome' = "exited" => Begun, outcome' = "timed_out" => Begun /\ expired,
         outcome' = "canceled" => cancelled, outcome' = "start_error" => ~Begun
  PROVE  [Contract!Next]_(Contract!vars)
  <1>1. outcome' \in Contract!Outcomes
    BY DEF Contract!Outcomes
  <1>2. Contract!Justified(outcome')
    BY DEF Contract!Justified, Begun
  <1>3. (Begun' <=> Begun) /\ ~Living'
    BY DEF Begun, Living, Alive
  <1>4. PICK o \in Contract!Outcomes : o = outcome'
    BY <1>1
  <1>5. Contract!Return(o)
    BY <1>2, <1>3, <1>4 DEF Contract!Return, Begun, Living
  <1>6. QED
    BY <1>5 DEF Contract!Next

(* Every step of the spawner is a step of the contract of a command, or a  *)
(* stutter, unless a spawner crashes.                                      *)
LEMMA StepImplements ==
  ASSUME "crash" \notin Faults, IInv, [Next]_vars
  PROVE  [Contract!Next]_(Contract!vars)
  <1>0. /\ TypeOK /\ StepInv /\ n \in Nat /\ (n > 0 => n \in Commands)
        /\ (pc # "idle" => n \in Commands /\ n > 0)
    BY TypeParts, CommandsType DEF IInv, AllTypes, ClientType
  <1>1. ASSUME NEW e \in Envs, Call(e) PROVE [Contract!Next]_(Contract!vars)
    <2>1. /\ n' = n + 1 /\ n' \in Commands /\ UNCHANGED <<up, cancelled, leader, rest>>
          /\ pc = "idle" /\ pc' = "check" /\ outcome' = "none" /\ expired' = FALSE /\ up
      BY <1>0, <1>1, TypeParts, CommandsType DEF Call, AllTypes, ClientType
    <2>2. \A c \in Commands : c > n => leader[c] = "none" /\ ~rest[c]
      BY <1>0 DEF StepInv, ClientSound, CommandSound
    <2>3. leader'[n'] = "none" /\ ~rest'[n']
      BY <1>0, <2>1, <2>2
    <2>4. ~Living /\ ~Living' /\ ~Begun'
      BY <1>0, <2>1, <2>3 DEF StepInv, ClientSound, Living, Alive, Begun
    <2>5. Contract!Call
      BY <2>1, <2>4 DEF Contract!Call, Living, Begun
    <2>6. QED
      BY <2>5 DEF Contract!Next
  <1>2. CASE CheckContext
    <2>1. leader[n] = "none" /\ ~rest[n]
      BY <1>0, <1>2 DEF CheckContext, StepInv, ClientSound, CommandSound
    <2>2. ~Living /\ ~Begun
      BY <2>1 DEF Living, Begun, Alive
    <2>3. CASE pc' = "idle"
      BY <1>2, <2>2, <2>3, ReturnImplements DEF CheckContext, Return
    <2>4. CASE pc' # "idle"
      BY <1>2, <2>4, ContractFrame DEF CheckContext, Return
    <2>5. QED
      BY <2>3, <2>4
  <1>3. CASE TakeSpawner \/ TakeStarted \/ PipesFail \/ SendRequest \/ SendFails \/ Receive
    BY <1>3, ContractFrame
       DEF TakeSpawner, TakeStarted, PipesFail, SendRequest, SendFails, Receive
  <1>4. CASE Conclude
    <2>1. /\ up /\ pc = "join" /\ pc' = "idle" /\ UNCHANGED <<up, n, cancelled, expired, leader, rest>>
      BY <1>4 DEF Conclude, Return
    <2>2. got \in {"done", "start_error"} /\ Answered(Mine, got)
      BY <1>0, <2>1 DEF StepInv, BusySound, Requested, Serving, PoolSound, Held
    <2>3. ~Living /\ (got = "done" => Begun) /\ (got = "start_error" => ~Begun)
      BY <1>0, <2>1, <2>2 DEF Answered, Living, Begun, Alive, StepInv, ClientSound, CommandSound
    <2>4. /\ killed \in {"none", "timed_out", "canceled"}
          /\ killed = "timed_out" => expired
          /\ killed = "canceled" => cancelled
      BY <1>0, TypeParts DEF AllTypes, TimingType, StepInv, ReasonsHold
    <2>5. CASE got = "start_error"
      BY <1>4, <2>1, <2>3, <2>5, ReturnImplements DEF Conclude, Return
    <2>6. CASE got = "done"
      BY <1>4, <2>1, <2>3, <2>4, <2>6, ReturnImplements DEF Conclude, Return
    <2>7. QED
      BY <2>2, <2>5, <2>6
  <1>5. CASE DirectStart
    <2>1. leader[n] = "none" /\ ~rest[n] /\ n \in Commands /\ n > 0 /\ pc = "direct" /\ up
      BY <1>0, <1>5 DEF DirectStart, StepInv, ClientSound, CommandSound
    <2>2. CASE CommandStarts(n, env) /\ pc' = "directWait" /\ UNCHANGED outcome
      BY <1>0, <1>5, <2>1, <2>2, StartImplements DEF DirectStart
    <2>3. CASE pc' = "idle" /\ UNCHANGED processes
      <3>1. ~Living /\ ~Begun
        BY <2>1 DEF Living, Begun, Alive
      <3>2. QED
        BY <1>5, <2>1, <2>3, <3>1, ReturnImplements DEF DirectStart, Return
    <2>4. QED
      BY <1>5, <2>2, <2>3 DEF DirectStart, Return
  <1>6. ASSUME NEW r \in {"timed_out", "canceled"}, DirectKill(r)
        PROVE  [Contract!Next]_(Contract!vars)
    BY <1>0, <1>6, KillImplements DEF DirectKill
  <1>7. CASE DirectReap
    <2>1. n \in Commands /\ leader[n] = "zombie" /\ leader'[n] = "reaped" /\ ~rest'[n] /\ n' = n
      BY <1>0, <1>7, TypeParts DEF DirectReap, Reap, AllTypes, ProcessType
    <2>2. (Begun' <=> Begun) /\ ~Living'
      BY <2>1 DEF Begun, Living, Alive
    <2>3. QED
      BY <1>7, <2>2, DieOrStutter DEF DirectReap
  <1>8. CASE DirectReturn
    <2>1. ~Living /\ Begun
      BY <1>0, <1>8 DEF DirectReturn, StepInv, ClientSound, Living, Begun, Alive
    <2>2. /\ killed \in {"none", "timed_out", "canceled"}
          /\ killed = "timed_out" => expired
          /\ killed = "canceled" => cancelled
      BY <1>0, TypeParts DEF AllTypes, TimingType, StepInv, ReasonsHold
    <2>3. QED
      BY <1>8, <2>1, <2>2, ReturnImplements DEF DirectReturn, Return
  <1>9. CASE Prepare
    BY <1>9, ContractFrame DEF Prepare, PrepareSpawner, Prepared
  <1>10. CASE Expire
    <2>1. Contract!Expire
      BY <1>10 DEF Expire, Contract!Expire, client, processes, Alive
    <2>2. QED
      BY <2>1 DEF Contract!Next
  <1>11. CASE Cancel
    <2>1. Contract!Cancel
      BY <1>11 DEF Cancel, Contract!Cancel, client, timing, processes, Alive
    <2>2. QED
      BY <2>1 DEF Contract!Next
  <1>12. CASE Leave
    <2>1. Contract!Leave
      BY <1>12 DEF Leave, Contract!Leave, client, timing, processes, Alive
    <2>2. QED
      BY <2>1 DEF Contract!Next
  <1>13. ASSUME NEW c \in Commands, Watcher(c) PROVE [Contract!Next]_(Contract!vars)
    BY <1>13, ContractFrame DEF Watcher, WatcherEnds, WatcherKills, WatcherFires
  <1>14. ASSUME NEW c \in Commands, LeaderExits(c) \/ RestChanges(c)
         PROVE  [Contract!Next]_(Contract!vars)
    <2>1. /\ UNCHANGED <<up, cancelled, client, timing>>
          /\ \A d \in Commands : /\ leader'[d] = "none" <=> leader[d] = "none"
                                 /\ leader'[d] = "running" \/ rest'[d] => leader[d] = "running" \/ rest[d]
      BY <1>0, <1>14, TypeParts DEF LeaderExits, RestChanges, AllTypes, ProcessType
    <2>2. (Begun' <=> Begun) /\ (Living' => Living)
      BY <1>0, <2>1 DEF Begun, Living, Alive
    <2>3. QED
      BY <2>1, <2>2, DieOrStutter
  <1>15. ASSUME NEW s \in Spawners, Server(s) \/ Watch(s) \/ WatchFails(s) \/ SpawnerCrashes(s)
         PROVE  [Contract!Next]_(Contract!vars)
    <2>1. CASE StartCommand(s)
      <3>1. job[s] = n /\ n \in Commands /\ n > 0 /\ leader[n] = "none" /\ pc = "wait"
        BY <1>0, <2>1, WorkingSpawner DEF StartCommand, Serving
      <3>2. CASE CommandStarts(n, lastEnv[s])
        BY <1>0, <2>1, <3>1, <3>2, StartImplements DEF StartCommand
      <3>3. CASE UNCHANGED processes
        BY <2>1, <3>3, ContractFrame DEF StartCommand
      <3>4. QED
        BY <2>1, <3>1, <3>2, <3>3 DEF StartCommand
    <2>2. CASE ReapCommand(s)
      <3>1. n \in Commands /\ leader[n] = "zombie" /\ leader' = [leader EXCEPT ![n] = "reaped"]
            /\ UNCHANGED <<up, cancelled, client, timing, rest>>
        BY <1>0, <2>2, WorkingSpawner DEF ReapCommand, Reap
      <3>2. (Begun' <=> Begun) /\ (Living' => Living)
        BY <1>0, <3>1, TypeParts DEF Begun, Living, Alive, AllTypes, ProcessType
      <3>3. QED
        BY <3>1, <3>2, DieOrStutter
    <2>3. CASE NoteStarted(s) \/ CloseTree(s) \/ WatchKills(s)
      <3>1. job[s] = n /\ n \in Commands
        BY <1>0, <2>3, WorkingSpawner DEF NoteStarted, CloseTree, WatchKills
      <3>2. CASE KillGroup(n)
        BY <1>0, <2>3, <3>1, <3>2, KillImplements DEF NoteStarted, CloseTree, WatchKills
      <3>3. CASE UNCHANGED processes
        BY <2>3, <3>3, ContractFrame DEF NoteStarted, CloseTree, WatchKills
      <3>4. QED
        BY <2>3, <3>1, <3>2, <3>3 DEF NoteStarted, CloseTree, WatchKills
    <2>4. CASE ServeRequest(s) \/ OwnerLeft(s) \/ WakeWatch(s) \/ SendReply(s) \/ WatchWakes(s)
               \/ WatchReceives(s) \/ WatchLosesHimorime(s) \/ WatchFails(s) \/ SpawnerCrashes(s)
      BY <2>4, ContractFrame
         DEF ServeRequest, OwnerLeft, WakeWatch, SendReply, WatchWakes, WatchReceives,
             WatchLosesHimorime, WatchFails, SpawnerCrashes
    <2>5. QED
      BY <1>15, <2>1, <2>2, <2>3, <2>4 DEF Server, Watch
  <1>16. CASE UNCHANGED vars
    BY <1>16, ContractFrame DEF vars
  <1>17. QED
    BY <1>1, <1>2, <1>3, <1>4, <1>5, <1>6, <1>7, <1>8, <1>9, <1>10, <1>11, <1>12,
       <1>13, <1>14, <1>15, <1>16 DEF Next, Client

(* Running a command through a spawner keeps the contract of proc.Run, as  *)
(* long as nobody else kills a spawner: the command is started at most     *)
(* once, nothing of it lives when the call returns, and the outcome is one *)
(* that happened, also when himorime disappears in the middle of a call.   *)
THEOREM SpawnerImplements ==
  ASSUME "crash" \notin Faults
  PROVE  Spec => Implements
  <1>1. Init => Contract!Init
    BY DEF Init, Contract!Init
  <1>2. IInv /\ [Next]_vars => [Contract!Next]_(Contract!vars)
    BY StepImplements
  <1>3. QED
    BY <1>1, <1>2, SpawnerInvariant, PTL DEF Spec, Implements, Contract!Spec
=============================================================================
