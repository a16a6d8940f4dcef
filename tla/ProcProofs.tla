------------------------------ MODULE ProcProofs ------------------------------
(***************************************************************************)
(* What ProcRun promises for any number of commands, on Unix and Windows,  *)
(* and that it implements the contract of proc.Run (CommandRun), proved    *)
(* from ProcRunAssumption; and what Terminal promises for any input, any   *)
(* sizes of the terminal's buffers and any number of writes, proved from   *)
(* TerminalAssumption.                                                     *)
(***************************************************************************)
EXTENDS ProcRun, Terminal, SequenceTheorems, TLAPS

(***************************************************************************)
(* The inductive invariant: where the call is determines what its watcher  *)
(* may do (WatchersInStep), what has become of its command                 *)
(* (ProcessesInStep) and what is known of its memory (PeaksInStep).  The   *)
(* commands before it have nothing that acts any more, and those after it  *)
(* have nothing at all.                                                    *)
(***************************************************************************)
Starting == {"check", "start"}
Attaching == {"attach", "resume", "unresumed", "abort", "reapAborted"}
Waiting == {"wait", "readFloor", "join"}
Closing == {"drain", "return"}

WatchersInStep ==
  /\ \A c \in Commands :
       /\ c < n => watcher[c] \in {"off", "done"}
       /\ c > n => watcher[c] = "off"
  /\ n > 0 =>
       /\ pc \in Starting \cup Attaching => watcher[n] = "off"
       /\ pc \in Closing \cup {"idle"} => watcher[n] \in {"off", "done"}
       /\ pc \in {"resume", "unresumed", "drain"} \cup Waiting => tree[n] = "open"
       /\ watcher[n] = "killing" => killed # "none"

(* What every command is, wherever the call is.                            *)
CommandSound(c) ==
  /\ c > n => leader[c] = "none"
  /\ leader[c] = "running" => member[c]
  /\ stray[c] = "no" \/ (~suspends /\ stray[c] = "left")
  /\ leader[c] \in {"none", "suspended"} => rest[c] = "none"
  /\ leader[c] \in {"none", "suspended", "running"} => ended[c] = "no"
  /\ leader[c] = "doomed" => ended[c] = "killed"
  /\ leader[c] \in {"zombie", "reaped"} => ended[c] # "no"

ProcessesInStep ==
  /\ \A c \in Commands : CommandSound(c)
  /\ n > 0 =>
       /\ pc \in Starting => leader[n] = "none"
       /\ pc \in Attaching \cup Waiting \cup Closing => leader[n] # "none"
       /\ pc = "attach" =>
            /\ IF suspends THEN leader[n] = "suspended"
                           ELSE leader[n] # "suspended"
            /\ ended[n] # "killed"
       /\ pc = "resume" => leader[n] = "suspended"
       /\ pc \in {"resume", "unresumed"} => member[n]
       /\ pc = "abort" => leader[n] # "running" /\ rest[n] # "running"
       /\ pc = "reapAborted" => ~CanDie(n) /\ rest[n] # "running"
       /\ pc \in {"readFloor", "join"} \cup Closing => leader[n] = "reaped"
       /\ pc \in Closing \cup {"idle"} => ~CanDie(n) /\ rest[n] # "running"
       /\ pc \in Waiting \cup Closing /\ ended[n] = "killed" => killed # "none"
       /\ pc = "idle" /\ outcome = "exited" => leader[n] = "reaped" /\ ended[n] = "self"

PeaksInStep ==
  /\ pc \in Starting => inherited = 0 /\ floor = 0
  /\ pc \in Attaching \cup {"wait", "readFloor"} => inherited <= peak
  /\ pc \in {"join"} \cup Closing /\ floor # 0 => inherited <= floor
  /\ pc = "idle" /\ outcome # "tree_error" /\ floor # 0 => inherited <= floor

ReasonsHold ==
  /\ killed = "timed_out" => expired
  /\ killed = "canceled" => cancelled
  /\ n = 0 => outcome = "none"

IInv == TypeOK /\ WatchersInStep /\ ProcessesInStep /\ PeaksInStep /\ ReasonsHold

USE DEF Starting, Attaching, Waiting, Closing, call, timing, processes, memory,
        CanDie, InGroupAtStart, Folded, WatcherJoined, DoneClosed

-----------------------------------------------------------------------------
(* The commands are numbered from 1.                                       *)
LEMMA CommandsType == Commands = 1..MaxCommands /\ MaxCommands \in Nat \ {0}
                       /\ MaxRSS \in Nat \ {0}
  BY ProcRunAssumption DEF Commands

(* What killing a tree, or its leader alone, does to each process.         *)
LEMMA KillLeaderEffect ==
  ASSUME TypeOK, NEW c \in Commands, KillLeader(c)
  PROVE  /\ leader' \in [Commands -> {"none", "suspended", "running", "doomed", "zombie", "reaped"}]
         /\ ended' \in [Commands -> {"no", "self", "killed"}]
         /\ \A d \in Commands \ {c} : leader'[d] = leader[d] /\ ended'[d] = ended[d]
         /\ IF CanDie(c) THEN leader'[c] = "doomed" /\ ended'[c] = "killed"
                         ELSE leader'[c] = leader[c] /\ ended'[c] = ended[c]
  BY DEF TypeOK, KillLeader

(* Killing a tree dooms its leader, when it is a member, and the rest of   *)
(* it, and nothing of another command (tree.kill).                         *)
LEMMA KillTreeEffect ==
  ASSUME TypeOK, NEW c \in Commands, KillTree(c)
  PROVE  /\ leader' \in [Commands -> {"none", "suspended", "running", "doomed", "zombie", "reaped"}]
         /\ ended' \in [Commands -> {"no", "self", "killed"}]
         /\ rest' \in [Commands -> {"none", "running", "doomed"}]
         /\ UNCHANGED <<member, stray, ran>>
         /\ \A d \in Commands \ {c} :
              leader'[d] = leader[d] /\ ended'[d] = ended[d] /\ rest'[d] = rest[d]
         /\ IF CanDie(c) /\ member[c]
            THEN leader'[c] = "doomed" /\ ended'[c] = "killed"
            ELSE leader'[c] = leader[c] /\ ended'[c] = ended[c]
         /\ rest'[c] = IF rest[c] = "running" THEN "doomed" ELSE rest[c]
  <1>1. /\ rest' \in [Commands -> {"none", "running", "doomed"}]
        /\ UNCHANGED <<member, stray, ran>>
        /\ \A d \in Commands \ {c} : rest'[d] = rest[d]
        /\ rest'[c] = IF rest[c] = "running" THEN "doomed" ELSE rest[c]
    BY DEF TypeOK, KillTree
  <1>2. CASE member[c]
    BY <1>1, <1>2, KillLeaderEffect DEF KillTree
  <1>3. CASE ~member[c]
    BY <1>1, <1>3 DEF KillTree, TypeOK
  <1>4. QED
    BY <1>1, <1>2, <1>3

(* Every variable keeps its type.                                          *)
THEOREM TypeCorrect == Spec => []TypeOK
  <1>1. Init => TypeOK
    <2> SUFFICES ASSUME Init PROVE TypeOK
      OBVIOUS
    <2>1. suspends \in BOOLEAN /\ 0 \in 0..MaxCommands /\ 0 \in 0..MaxRSS
          /\ 1 \in 1..MaxRSS
      BY ProcRunAssumption DEF Init
    <2>2. QED
      BY <2>1 DEF Init, TypeOK
  <1>2. TypeOK /\ [Next]_vars => TypeOK'
    <2> SUFFICES ASSUME TypeOK, [Next]_vars
                 PROVE  TypeOK'
      OBVIOUS
    <2>0. MaxCommands \in Nat \ {0} /\ MaxRSS \in Nat \ {0} /\ (n > 0 => n \in Commands)
      BY CommandsType DEF TypeOK
    <2>1. CASE Call
      <3>1. n' \in 0..MaxCommands /\ n' > 0 /\ 0 \in 0..MaxRSS
        BY <2>1, <2>0 DEF Call, TypeOK
      <3>2. QED
        BY <2>1, <3>1 DEF Call, TypeOK
    <2>2. CASE CheckContext
      BY <2>2 DEF CheckContext, Return, TypeOK
    <2>3. CASE Start
      <3>1. CASE Return("start_error") /\ UNCHANGED <<processes, inherited>>
        BY <2>3, <3>1 DEF Start, Return, TypeOK
      <3>2. CASE ~(Return("start_error") /\ UNCHANGED <<processes, inherited>>)
        <4>1. /\ leader' = [leader EXCEPT ![n] = IF suspends THEN "suspended" ELSE "running"]
              /\ member' = [member EXCEPT ![n] = InGroupAtStart]
              /\ ran' = [ran EXCEPT ![n] = ~suspends]
              /\ inherited' \in {0, peak} /\ pc' = "attach" /\ n > 0
              /\ UNCHANGED <<n, outcome, rest, stray, ended>>
              /\ UNCHANGED <<suspends, cancelled, timing, watcher, tree, rss, peak, floor>>
          BY <2>3, <3>2 DEF Start, TypeOK
        <4>2. /\ leader' \in [Commands -> {"none", "suspended", "running", "doomed", "zombie", "reaped"}]
              /\ member' \in [Commands -> BOOLEAN] /\ ran' \in [Commands -> BOOLEAN]
              /\ inherited' \in 0..MaxRSS
          BY <4>1, <2>0 DEF TypeOK
        <4>3. QED
          BY <4>1, <4>2 DEF TypeOK
      <3>3. QED
        BY <3>1, <3>2
    <2>4. CASE Attach
      <3>1. CASE suspends
        BY <2>4, <2>0, <3>1 DEF Attach, TypeOK
      <3>2. CASE ~suspends
        BY <2>4, <2>0, <3>2 DEF Attach, StartWatcher, TypeOK
      <3>3. QED
        BY <3>1, <3>2
    <2>5. CASE Resume
      <3>1. pc' \in {"unresumed", "wait"} /\ n > 0
            /\ UNCHANGED <<suspends, cancelled, n, outcome, timing, tree, member, rest, stray,
                           ended, memory>>
        BY <2>5 DEF Resume, StartWatcher, TypeOK
      <3>2. /\ leader' = leader \/ leader' = [leader EXCEPT ![n] = "running"]
            /\ ran' = ran \/ ran' = [ran EXCEPT ![n] = TRUE]
            /\ watcher' = watcher \/ watcher' = [watcher EXCEPT ![n] = "watching"]
        BY <2>5 DEF Resume, StartWatcher
      <3>3. leader' \in [Commands -> {"none", "suspended", "running", "doomed", "zombie", "reaped"}]
        BY <2>0, <3>1, <3>2 DEF TypeOK
      <3>4. ran' \in [Commands -> BOOLEAN]
        BY <2>0, <3>1, <3>2 DEF TypeOK
      <3>5. watcher' \in [Commands -> {"off", "watching", "killing", "done"}]
        BY <2>0, <3>1, <3>2 DEF TypeOK
      <3>6. QED
        BY <3>1, <3>3, <3>4, <3>5 DEF TypeOK
    <2>6. CASE CloseUnresumed
      BY <2>6, <2>0, KillTreeEffect DEF CloseUnresumed, TypeOK
    <2>7. CASE Abort
      BY <2>7, <2>0, KillLeaderEffect DEF Abort, TypeOK
    <2>8. CASE ReapAborted \/ Wait
      BY <2>8 DEF ReapAborted, Wait, Return, TypeOK
    <2>9. CASE ReadFloor \/ Drain
      <3>1. floor' \in 0..MaxRSS
        BY <2>9, <2>0 DEF ReadFloor, Drain, TypeOK
      <3>2. QED
        BY <2>9, <3>1 DEF ReadFloor, Drain, TypeOK
    <2>10. CASE CloseTree
      BY <2>10, <2>0, KillTreeEffect DEF CloseTree, TypeOK
    <2>11. CASE Finish
      BY <2>11 DEF Finish, Return, TypeOK
    <2>12. CASE Expire \/ Cancel
      <3>1. CASE Expire
        BY <3>1 DEF Expire, TypeOK
      <3>2. CASE Cancel
        BY <3>2 DEF Cancel, TypeOK
      <3>3. QED
        BY <2>12, <3>1, <3>2
    <2>13. ASSUME NEW c \in Commands, Watcher(c) PROVE TypeOK'
      BY <2>13, KillTreeEffect DEF Watcher, WatcherEnds, WatcherKills, WatcherFires, TypeOK
    <2>14. ASSUME NEW c \in Commands,
                  LeaderExits(c) \/ LeaderDies(c) \/ Spawns(c) \/ Leaves(c) \/ RestEnds(c)
           PROVE  TypeOK'
      <3>1. CASE LeaderExits(c)
        BY <3>1 DEF LeaderExits, TypeOK
      <3>2. CASE LeaderDies(c)
        BY <3>2 DEF LeaderDies, TypeOK
      <3>3. CASE Spawns(c)
        <4>1. /\ rest' \in [Commands -> {"none", "running", "doomed"}]
              /\ stray' \in [Commands -> {"no", "left", "started"}]
          <5>1. CASE member[c]
            BY <3>3, <5>1 DEF Spawns, TypeOK
          <5>2. CASE ~member[c]
            BY <3>3, <5>2 DEF Spawns, TypeOK
          <5>3. QED
            BY <5>1, <5>2
        <4>2. QED
          BY <3>3, <4>1 DEF Spawns, TypeOK
      <3>4. CASE RestEnds(c)
        BY <3>4 DEF RestEnds, TypeOK
      <3>5. CASE Leaves(c)
        BY <3>5 DEF Leaves, TypeOK
      <3>6. QED
        BY <2>14, <3>1, <3>2, <3>3, <3>4, <3>5
    <2>15. ASSUME NEW m \in 1..MaxRSS, Resident(m) PROVE TypeOK'
      BY <2>15 DEF Resident, TypeOK
    <2>16. CASE UNCHANGED vars
      BY <2>16 DEF vars, TypeOK
    <2>17. QED
      BY <2>1, <2>2, <2>3, <2>4, <2>5, <2>6, <2>7, <2>8, <2>9, <2>10, <2>11, <2>12,
         <2>13, <2>14, <2>15, <2>16 DEF Next, Main
  <1>3. QED
    BY <1>1, <1>2, PTL DEF Spec

-----------------------------------------------------------------------------
StepInv == WatchersInStep /\ ProcessesInStep /\ PeaksInStep /\ ReasonsHold

(* The initial states satisfy the invariant.                               *)
LEMMA StepInvInit == Init => StepInv
  BY ProcRunAssumption DEF Init, StepInv, WatchersInStep, ProcessesInStep, CommandSound, PeaksInStep, ReasonsHold, Commands

(* A step of one process of one command, and of nothing else.              *)
LEMMA ProcessStep ==
  ASSUME TypeOK, StepInv, NEW c \in Commands,
         UNCHANGED <<suspends, cancelled, call, timing, watcher, tree, member, ran, memory>>,
         \A d \in Commands \ {c} :
           leader'[d] = leader[d] /\ ended'[d] = ended[d] /\ rest'[d] = rest[d]
           /\ stray'[d] = stray[d],
         CommandSound(c)',
         CanDie(c)' => CanDie(c),
         leader'[c] \in {"none", "suspended", "reaped"} <=> leader[c] \in {"none", "suspended", "reaped"},
         leader[c] = "none" <=> leader'[c] = "none",
         leader[c] = "suspended" <=> leader'[c] = "suspended",
         leader'[c] = "running" => leader[c] = "running",
         rest'[c] = "running" => rest[c] = "running" \/ leader[c] = "running",
         ended'[c] = ended[c] \/ (ended'[c] = "self" /\ leader[c] = "running")
  PROVE  StepInv'
  <1>1. MaxCommands \in Nat \ {0} /\ Commands = 1..MaxCommands /\ (n > 0 => n \in Commands)
    BY CommandsType DEF TypeOK
  <1>2. WatchersInStep' /\ PeaksInStep' /\ ReasonsHold'
    BY DEF StepInv, WatchersInStep, PeaksInStep, ReasonsHold
  <1>3. \A d \in Commands : CommandSound(d)'
    BY DEF StepInv, ProcessesInStep, CommandSound
  <1>4. /\ \A d \in Commands :
             /\ leader'[d] \in {"none", "suspended", "reaped"} <=> leader[d] \in {"none", "suspended", "reaped"}
             /\ leader[d] = "none" <=> leader'[d] = "none"
             /\ leader[d] = "suspended" <=> leader'[d] = "suspended"
             /\ leader'[d] = "running" => leader[d] = "running"
             /\ CanDie(d)' => CanDie(d)
             /\ rest'[d] = "running" => rest[d] = "running" \/ leader[d] = "running"
             /\ ended'[d] = ended[d] \/ (ended'[d] = "self" /\ leader[d] = "running")
        /\ UNCHANGED <<suspends, n, pc, outcome, killed, member>>
    OBVIOUS
  <1>5. n > 0 => leader[n] = "reaped" <=> leader'[n] = "reaped"
    BY <1>1, <1>4
  <1>6. ProcessesInStep'
    <2>1. CASE n > 0
      BY <1>1, <1>3, <1>4, <1>5, <2>1 DEF StepInv, ProcessesInStep
    <2>2. CASE ~(n > 0)
      BY <1>3, <1>4, <2>2 DEF ProcessesInStep
    <2>3. QED
      BY <2>1, <2>2
  <1>7. QED
    BY <1>2, <1>6 DEF StepInv

(* Every step keeps the invariant.                                         *)
LEMMA StepInvNext == TypeOK /\ TypeOK' /\ StepInv /\ [Next]_vars => StepInv'
  <1> SUFFICES ASSUME TypeOK, TypeOK', StepInv, [Next]_vars
               PROVE  StepInv'
    OBVIOUS
  <1>0. /\ MaxCommands \in Nat \ {0} /\ MaxRSS \in Nat \ {0} /\ n \in 0..MaxCommands
        /\ Commands = 1..MaxCommands /\ (n > 0 => n \in Commands)
    BY CommandsType DEF TypeOK
  <1>1. CASE Call
    BY <1>1, <1>0 DEF Call, StepInv, TypeOK, WatchersInStep, ProcessesInStep, CommandSound, PeaksInStep, ReasonsHold
  <1>2. CASE CheckContext
    BY <1>2, <1>0 DEF CheckContext, Return, StepInv, TypeOK, WatchersInStep, ProcessesInStep, CommandSound, PeaksInStep, ReasonsHold
  <1>3. CASE Start
    BY <1>3, <1>0 DEF Start, Return, StepInv, TypeOK, WatchersInStep, ProcessesInStep, CommandSound, PeaksInStep, ReasonsHold
  <1>4. CASE Attach
    BY <1>4, <1>0 DEF Attach, StartWatcher, StepInv, TypeOK, WatchersInStep, ProcessesInStep, CommandSound, PeaksInStep, ReasonsHold
  <1>5. CASE Resume
    BY <1>5, <1>0 DEF Resume, StartWatcher, StepInv, TypeOK, WatchersInStep, ProcessesInStep, CommandSound, PeaksInStep, ReasonsHold
  <1>6. CASE CloseUnresumed
    BY <1>6, <1>0, KillTreeEffect DEF CloseUnresumed, StepInv, TypeOK, WatchersInStep, ProcessesInStep, CommandSound, PeaksInStep, ReasonsHold
  <1>7. CASE Abort
    <2>1. n \in Commands /\ pc = "abort" /\ KillLeader(n)
      BY <1>7, <1>0 DEF Abort, TypeOK
    <2>2. WatchersInStep' /\ PeaksInStep' /\ ReasonsHold'
      BY <1>7 DEF Abort, StepInv, WatchersInStep, PeaksInStep, ReasonsHold
    <2>3. \A c \in Commands : CommandSound(c)'
      BY <1>7, <2>1, KillLeaderEffect
         DEF Abort, StepInv, ProcessesInStep, CommandSound, TypeOK
    <2>4. ProcessesInStep'
      BY <1>7, <2>1, <2>3, KillLeaderEffect DEF Abort, StepInv, ProcessesInStep, TypeOK
    <2>5. QED
      BY <2>2, <2>4 DEF StepInv
  <1>8. CASE ReapAborted
    BY <1>8, <1>0 DEF ReapAborted, Return, StepInv, TypeOK, WatchersInStep, ProcessesInStep, CommandSound, PeaksInStep, ReasonsHold
  <1>9. CASE Wait
    BY <1>9, <1>0 DEF Wait, StepInv, TypeOK, WatchersInStep, ProcessesInStep, CommandSound, PeaksInStep, ReasonsHold
  <1>10. CASE ReadFloor
    BY <1>10, <1>0 DEF ReadFloor, StepInv, TypeOK, WatchersInStep, ProcessesInStep, CommandSound, PeaksInStep, ReasonsHold
  <1>11. CASE CloseTree
    <2>1. n \in Commands /\ pc = "join" /\ KillTree(n) /\ leader[n] = "reaped"
      BY <1>11, <1>0 DEF CloseTree, TypeOK, StepInv, ProcessesInStep
    <2>2. WatchersInStep' /\ PeaksInStep' /\ ReasonsHold'
      BY <1>11, <2>1 DEF CloseTree, StepInv, TypeOK, WatchersInStep, PeaksInStep, ReasonsHold
    <2>3. \A c \in Commands : CommandSound(c)'
      BY <1>11, <2>1, KillTreeEffect
         DEF CloseTree, StepInv, ProcessesInStep, CommandSound, TypeOK
    <2>4. ProcessesInStep'
      BY <1>11, <2>1, <2>3, KillTreeEffect DEF CloseTree, StepInv, ProcessesInStep, TypeOK
    <2>5. QED
      BY <2>2, <2>4 DEF StepInv
  <1>12. CASE Drain
    BY <1>12, <1>0 DEF Drain, StepInv, TypeOK, WatchersInStep, ProcessesInStep, CommandSound, PeaksInStep, ReasonsHold
  <1>13. CASE Finish
    BY <1>13, <1>0 DEF Finish, Return, StepInv, TypeOK, WatchersInStep, ProcessesInStep, CommandSound, PeaksInStep, ReasonsHold
  <1>14. CASE Expire
    BY <1>14 DEF Expire, StepInv, TypeOK, WatchersInStep, ProcessesInStep, CommandSound, PeaksInStep, ReasonsHold
  <1>15. CASE Cancel
    BY <1>15 DEF Cancel, StepInv, TypeOK, WatchersInStep, ProcessesInStep, CommandSound, PeaksInStep, ReasonsHold
  <1>16. ASSUME NEW c \in Commands, Watcher(c) PROVE StepInv'
    <2>1. CASE WatcherEnds(c)
      BY <2>1, <1>0 DEF WatcherEnds, StepInv, TypeOK, WatchersInStep, ProcessesInStep, CommandSound, PeaksInStep, ReasonsHold
    <2>2. ASSUME NEW r \in {"timed_out", "canceled"}, WatcherFires(c, r) PROVE StepInv'
      BY <2>2, <1>0 DEF WatcherFires, StepInv, TypeOK, WatchersInStep, ProcessesInStep, CommandSound, PeaksInStep, ReasonsHold
    <2>3. CASE WatcherKills(c)
      <3>1. /\ c = n /\ pc \in Waiting /\ KillTree(n)
            /\ UNCHANGED <<suspends, cancelled, call, timing, tree, memory>>
            /\ watcher' = [watcher EXCEPT ![n] = "done"]
        <4>1. c = n
          BY <2>3, <1>0 DEF WatcherKills, StepInv, WatchersInStep
        <4>2. pc \in Waiting
          BY <2>3, <1>0, <4>1 DEF WatcherKills, StepInv, WatchersInStep, TypeOK
        <4>3. QED
          BY <2>3, <4>1, <4>2 DEF WatcherKills
      <3>2. WatchersInStep' /\ PeaksInStep' /\ ReasonsHold'
        BY <3>1, <1>0 DEF StepInv, TypeOK, WatchersInStep, PeaksInStep, ReasonsHold
      <3>3. \A d \in Commands : CommandSound(d)'
        BY <3>1, KillTreeEffect DEF StepInv, ProcessesInStep, CommandSound, TypeOK
      <3>4. killed # "none"
        BY <2>3, <1>0, <3>1 DEF WatcherKills, StepInv, WatchersInStep
      <3>5. ProcessesInStep'
        BY <3>1, <3>3, <3>4, KillTreeEffect DEF StepInv, ProcessesInStep, TypeOK
      <3>6. QED
        BY <3>2, <3>5 DEF StepInv
    <2>4. QED
      BY <1>16, <2>1, <2>2, <2>3 DEF Watcher
  <1>17. ASSUME NEW c \in Commands, LeaderExits(c) PROVE StepInv'
    BY <1>17, ProcessStep DEF LeaderExits, StepInv, TypeOK, ProcessesInStep, CommandSound
  <1>18. ASSUME NEW c \in Commands, LeaderDies(c) PROVE StepInv'
    <2>1. CommandSound(c)'
      BY <1>18 DEF LeaderDies, StepInv, TypeOK, ProcessesInStep, CommandSound
    <2>2. /\ UNCHANGED <<suspends, cancelled, call, timing, watcher, tree, member, ran, memory>>
          /\ leader[c] = "doomed" /\ leader'[c] = "zombie"
          /\ ended' = ended /\ rest' = rest /\ stray' = stray
          /\ \A d \in Commands \ {c} : leader'[d] = leader[d]
      BY <1>18 DEF LeaderDies, TypeOK
    <2>3. \A d \in Commands : CommandSound(d)'
      BY <2>1, <2>2 DEF StepInv, ProcessesInStep, CommandSound
    <2>4. WatchersInStep' /\ PeaksInStep' /\ ReasonsHold'
      BY <2>2 DEF StepInv, WatchersInStep, PeaksInStep, ReasonsHold
    <2>5. ProcessesInStep'
      BY <2>2, <2>3, <1>0 DEF StepInv, ProcessesInStep, TypeOK
    <2>6. QED
      BY <2>4, <2>5 DEF StepInv
  <1>19. ASSUME NEW c \in Commands, Spawns(c) PROVE StepInv'
    BY <1>19, ProcessStep DEF Spawns, StepInv, TypeOK, ProcessesInStep, CommandSound
  <1>20. ASSUME NEW c \in Commands, RestEnds(c) PROVE StepInv'
    <2>1. CommandSound(c)'
      BY <1>20 DEF RestEnds, StepInv, TypeOK, ProcessesInStep, CommandSound
    <2>2. /\ UNCHANGED <<suspends, cancelled, call, timing, watcher, tree, member, ran, memory>>
          /\ leader' = leader /\ ended' = ended /\ stray' = stray /\ rest'[c] = "none"
          /\ \A d \in Commands \ {c} : rest'[d] = rest[d]
      BY <1>20 DEF RestEnds, TypeOK
    <2>3. \A d \in Commands : CommandSound(d)'
      BY <2>1, <2>2 DEF StepInv, ProcessesInStep, CommandSound
    <2>4. WatchersInStep' /\ PeaksInStep' /\ ReasonsHold'
      BY <2>2 DEF StepInv, WatchersInStep, PeaksInStep, ReasonsHold
    <2>5. ProcessesInStep'
      BY <2>2, <2>3, <1>0 DEF StepInv, ProcessesInStep, TypeOK
    <2>6. QED
      BY <2>4, <2>5 DEF StepInv
  <1>21. ASSUME NEW m \in 1..MaxRSS, Resident(m) PROVE StepInv'
    BY <1>21, <1>0 DEF Resident, StepInv, TypeOK, WatchersInStep, ProcessesInStep, CommandSound, PeaksInStep, ReasonsHold
  <1>22. ASSUME NEW c \in Commands, Leaves(c) PROVE StepInv'
    <2>1. /\ UNCHANGED <<suspends, cancelled, call, timing, watcher, tree, leader, member, ran,
                        ended, memory>>
          /\ ~suspends /\ stray'[c] = "left"
          /\ rest[c] = "running" /\ rest'[c] \in {"running", "none"}
          /\ \A d \in Commands \ {c} : rest'[d] = rest[d] /\ stray'[d] = stray[d]
      BY <1>22 DEF Leaves, TypeOK
    <2>2. CommandSound(c)'
      BY <2>1 DEF StepInv, ProcessesInStep, CommandSound
    <2>3. QED
      BY <2>1, <2>2, ProcessStep
  <1>23. CASE UNCHANGED vars
    BY <1>23 DEF vars, StepInv, WatchersInStep, ProcessesInStep, CommandSound, PeaksInStep, ReasonsHold
  <1>24. QED
    BY <1>1, <1>2, <1>3, <1>4, <1>5, <1>6, <1>7, <1>8, <1>9, <1>10, <1>11, <1>12,
       <1>13, <1>14, <1>15, <1>16, <1>17, <1>18, <1>19, <1>20, <1>21, <1>22, <1>23
       DEF Next, Main

(* Every state of every call satisfies the inductive invariant.            *)
THEOREM ProcRunInvariant == Spec => []IInv
  <1>1. TypeOK /\ TypeOK' /\ StepInv /\ [Next]_vars => StepInv'
    BY StepInvNext
  <1>2. TypeOK /\ StepInv => IInv
    BY DEF IInv, StepInv
  <1>3. QED
    BY <1>1, <1>2, StepInvInit, TypeCorrect, PTL DEF Spec

(* A kill reaches the command it is for: a watcher only kills through the  *)
(* open handle of the current call, and a run reported as ended by itself  *)
(* was not killed (proc.run, watch, tree.kill).                            *)
THEOREM KillsHold == Spec => []KillsReachTheirCommand
  <1>1. IInv => KillsReachTheirCommand
    <2> SUFFICES ASSUME IInv PROVE KillsReachTheirCommand
      OBVIOUS
    <2>0. TypeOK /\ Commands \subseteq Nat /\ n \in Nat
      BY CommandsType DEF IInv, TypeOK
    <2>1. ASSUME NEW c \in Commands, watcher[c] = "killing"
          PROVE  c = n /\ tree[c] = "open"
      <3>1. c = n /\ n > 0
        BY <2>1, <2>0, CommandsType DEF IInv, WatchersInStep
      <3>2. pc \in Waiting
        BY <2>1, <2>0, <3>1 DEF IInv, WatchersInStep, TypeOK
      <3>3. QED
        BY <3>1, <3>2 DEF IInv, WatchersInStep
    <2>2. pc = "idle" /\ outcome = "exited" => ended[n] = "self"
      BY <2>0 DEF IInv, ProcessesInStep, ReasonsHold
    <2>3. QED
      BY <2>0, <2>1, <2>2 DEF KillsReachTheirCommand
  <1>2. QED
    BY <1>1, ProcRunInvariant, PTL

(* Nothing a command starts is born outside of the tree that a timeout, a  *)
(* cancellation and the end of the run stop, and on Windows nothing gets   *)
(* out of it either (configure, attach, resumeProcess).                    *)
THEOREM NothingEscapesHolds == Spec => []NothingEscapes
  <1>1. IInv => NothingEscapes
    BY DEF IInv, ProcessesInStep, CommandSound, NothingEscapes
  <1>2. QED
    BY <1>1, ProcRunInvariant, PTL

(* A floor other than 0, which stands for none, is never below the peak    *)
(* the kernel folded into the command's own (resetFloor, readFloor).       *)
THEOREM FloorHolds == Spec => []FloorCoversInherited
  <1>1. IInv => FloorCoversInherited
    BY DEF IInv, PeaksInStep, FloorCoversInherited
  <1>2. QED
    BY <1>1, ProcRunInvariant, PTL

-----------------------------------------------------------------------------
(* The refinement: what the contract sees of the call and its command.     *)
Begun == n > 0 /\ leader[n] # "none"
Living == n > 0 /\ (CanDie(n) \/ rest[n] = "running")

(* A step that changes nothing the contract sees, except that the last     *)
(* process may die, is a step of it or a stutter.                          *)
LEMMA DieOrStutter ==
  ASSUME UNCHANGED <<n, outcome, expired, cancelled>>,
         pc' = "idle" <=> pc = "idle",
         Begun' <=> Begun, Living' => Living
  PROVE  [Contract!Next]_(Contract!vars)
  <1>1. CASE Living' <=> Living
    <2>1. UNCHANGED Contract!vars
      BY <1>1 DEF Contract!vars, Begun, Living
    <2>2. QED
      BY <2>1
  <1>2. CASE Living /\ ~Living'
    <2>1. Contract!Die
      BY <1>2 DEF Contract!Die, Begun, Living
    <2>2. QED
      BY <2>1 DEF Contract!Next
  <1>3. QED
    BY <1>1, <1>2

(* A return is one the contract allows when nothing of the command lives   *)
(* and the outcome is justified.                                           *)
LEMMA ReturnImplements ==
  ASSUME pc # "idle", ~Living, NEW o, Return(o),
         UNCHANGED <<expired, cancelled>>,
         Begun' <=> Begun, ~Living',
         o \in {"exited", "timed_out", "canceled", "start_error", "tree_error", "error"},
         o = "exited" => Begun, o = "timed_out" => Begun /\ expired,
         o = "canceled" => cancelled, o = "start_error" => ~Begun
  PROVE  Contract!Next
  <1> DEFINE r == IF o = "tree_error" THEN "error" ELSE o
  <1>1. r \in Contract!Outcomes
    BY DEF Contract!Outcomes
  <1>2. Contract!Justified(r)
    BY DEF Contract!Justified, Begun
  <1>3. Contract!Return(r)
    BY <1>2 DEF Contract!Return, Return, Begun, Living
  <1>4. QED
    BY <1>1, <1>3 DEF Contract!Next

(* Every step of proc.Run is a step of the contract of a command, or a     *)
(* stutter.                                                                *)
LEMMA StepImplements ==
  IInv /\ IInv' /\ [Next]_vars => [Contract!Next]_(Contract!vars)
  <1> SUFFICES ASSUME IInv, IInv', [Next]_vars
               PROVE  [Contract!Next]_(Contract!vars)
    OBVIOUS
  <1>0. /\ TypeOK /\ n \in 0..MaxCommands /\ (n > 0 => n \in Commands)
        /\ Commands = 1..MaxCommands /\ MaxCommands \in Nat
        /\ \A c \in Commands : CommandSound(c)
    BY CommandsType DEF IInv, TypeOK, ProcessesInStep
  <1>1. CASE Call
    <2>1. n' \in Commands /\ n' = n + 1 /\ n' > 0
      BY <1>1, <1>0 DEF Call
    <2>2. leader'[n'] = "none" /\ rest'[n'] = "none"
      BY <1>1, <1>0, <2>1 DEF Call, CommandSound
    <2>3. ~Living /\ ~Living' /\ ~Begun'
      BY <1>1, <2>2 DEF Call, IInv, ProcessesInStep, Living, Begun
    <2>4. Contract!Call
      BY <1>1, <2>3 DEF Call, Contract!Call, Living, Begun
    <2>5. QED
      BY <2>4 DEF Contract!Next
  <1>2. CASE CheckContext
    <2>1. n > 0 /\ leader[n] = "none" /\ rest[n] = "none" /\ leader' = leader /\ rest' = rest
          /\ n' = n /\ pc = "check" /\ UNCHANGED <<expired, cancelled>>
      BY <1>2, <1>0 DEF CheckContext, Return, IInv, TypeOK, ProcessesInStep, CommandSound
    <2>2. ~Begun /\ ~Living /\ ~Begun' /\ ~Living'
      BY <2>1 DEF Begun, Living
    <2>3. CASE Return("start_error")
      BY <2>1, <2>2, <2>3, ReturnImplements
    <2>4. CASE cancelled /\ Return("canceled")
      BY <2>1, <2>2, <2>4, ReturnImplements
    <2>5. CASE pc' = "start" /\ UNCHANGED <<n, outcome>>
      <3>1. UNCHANGED Contract!vars
        BY <2>1, <2>2, <2>5 DEF Contract!vars, Begun, Living
      <3>2. QED
        BY <3>1
    <2>6. QED
      BY <1>2, <2>3, <2>4, <2>5 DEF CheckContext
  <1>3. CASE Start
    <2>1. n > 0 /\ n \in Commands /\ leader[n] = "none" /\ rest[n] = "none" /\ n' = n
          /\ pc = "start" /\ UNCHANGED <<expired, cancelled>> /\ ~Begun /\ ~Living
      BY <1>3, <1>0 DEF Start, Return, IInv, TypeOK, ProcessesInStep, CommandSound, Begun, Living
    <2>2. CASE Return("start_error") /\ UNCHANGED <<processes, inherited>>
      <3>1. ~Begun' /\ ~Living'
        BY <2>1, <2>2 DEF Begun, Living
      <3>2. QED
        BY <2>1, <2>2, <3>1, ReturnImplements
    <2>3. CASE pc' = "attach" /\ UNCHANGED <<n, outcome>>
      <3>1. leader'[n] \in {"suspended", "running"}
        BY <1>3, <2>1, <2>3 DEF Start, Return, TypeOK, IInv
      <3>2. Begun' /\ Living'
        BY <2>1, <3>1 DEF Begun, Living
      <3>3. Contract!Start
        BY <2>1, <2>3, <3>2 DEF Contract!Start, Begun, Living
      <3>4. QED
        BY <3>3 DEF Contract!Next
    <2>4. QED
      BY <1>3, <2>2, <2>3 DEF Start
  <1>4. CASE Attach
    BY <1>4, <1>0, DieOrStutter DEF Attach, StartWatcher, TypeOK, Begun, Living
  <1>5. CASE Resume
    <2>1. n > 0 /\ leader[n] = "suspended" /\ leader'[n] \in {"suspended", "running"}
      BY <1>5, <1>0 DEF Resume, IInv, TypeOK, ProcessesInStep
    <2>2. QED
      BY <1>5, <2>1, DieOrStutter DEF Resume, StartWatcher, Begun, Living
  <1>6. CASE CloseUnresumed \/ CloseTree
    <2>1. n \in Commands /\ n > 0 /\ KillTree(n) /\ n' = n
      BY <1>6, <1>0 DEF CloseUnresumed, CloseTree, TypeOK
    <2>2. (leader'[n] = "none" <=> leader[n] = "none") /\ (Living' => Living)
      BY <2>1, <1>0, KillTreeEffect DEF Living
    <2>3. QED
      BY <1>6, <2>1, <2>2, DieOrStutter DEF CloseUnresumed, CloseTree, Begun
  <1>7. CASE Abort
    <2>1. n \in Commands /\ n > 0 /\ KillLeader(n) /\ n' = n /\ rest' = rest
      BY <1>7, <1>0 DEF Abort, TypeOK
    <2>2. (leader'[n] = "none" <=> leader[n] = "none") /\ (Living' => Living)
      BY <2>1, <1>0, KillLeaderEffect DEF Living
    <2>3. QED
      BY <1>7, <2>1, <2>2, DieOrStutter DEF Abort, Begun
  <1>8. CASE ReapAborted
    <2>1. n \in Commands /\ n > 0 /\ ~CanDie(n) /\ rest[n] # "running" /\ leader[n] = "zombie"
          /\ n' = n /\ leader'[n] = "reaped" /\ rest' = rest
      BY <1>8, <1>0 DEF ReapAborted, Return, IInv, TypeOK, ProcessesInStep
    <2>2. ~Living /\ ~Living' /\ Begun /\ Begun'
      BY <2>1 DEF Living, Begun
    <2>3. QED
      BY <1>8, <2>2, ReturnImplements DEF ReapAborted
  <1>9. CASE Wait
    <2>1. n \in Commands /\ leader[n] = "zombie" /\ leader'[n] = "reaped"
      BY <1>9, <1>0 DEF Wait, TypeOK
    <2>2. QED
      BY <1>9, <2>1, DieOrStutter DEF Wait, Begun, Living
  <1>10. CASE ReadFloor
    BY <1>10, DieOrStutter DEF ReadFloor, Begun, Living
  <1>11. CASE Drain
    BY <1>11, DieOrStutter DEF Drain, Begun, Living
  <1>12. CASE Finish
    <2>1. n > 0 /\ ~CanDie(n) /\ rest[n] # "running" /\ leader[n] = "reaped"
          /\ n' = n /\ leader' = leader /\ rest' = rest
      BY <1>12, <1>0 DEF Finish, Return, IInv, TypeOK, ProcessesInStep
    <2>2. ~Living /\ ~Living' /\ Begun /\ Begun'
      BY <2>1 DEF Living, Begun
    <2>3. CASE Return("error")
      BY <1>12, <2>2, <2>3, ReturnImplements DEF Finish
    <2>4. CASE Return(IF killed = "none" THEN "exited" ELSE killed)
      <3>1. PICK o \in {"exited", "timed_out", "canceled"} :
              /\ o = (IF killed = "none" THEN "exited" ELSE killed)
              /\ o = "timed_out" => expired
              /\ o = "canceled" => cancelled
        BY <1>0 DEF IInv, TypeOK, ReasonsHold
      <3>2. Return(o)
        BY <2>4, <3>1
      <3>3. QED
        BY <1>12, <2>2, <3>1, <3>2, ReturnImplements DEF Finish
    <2>5. QED
      BY <1>12, <2>3, <2>4 DEF Finish
  <1>13. CASE Expire
    <2>1. Contract!Expire
      BY <1>13 DEF Expire, Contract!Expire
    <2>2. QED
      BY <2>1 DEF Contract!Next
  <1>14. CASE Cancel
    <2>1. Contract!Cancel
      BY <1>14 DEF Cancel, Contract!Cancel
    <2>2. QED
      BY <2>1 DEF Contract!Next
  <1>15. ASSUME NEW c \in Commands, Watcher(c)
         PROVE  [Contract!Next]_(Contract!vars)
    <2>1. CASE WatcherEnds(c)
      BY <2>1, DieOrStutter DEF WatcherEnds, Begun, Living
    <2>2. ASSUME NEW r \in {"timed_out", "canceled"}, WatcherFires(c, r)
          PROVE  [Contract!Next]_(Contract!vars)
      BY <2>2, DieOrStutter DEF WatcherFires, Begun, Living
    <2>3. CASE WatcherKills(c)
      <3>1. KillTree(c) /\ UNCHANGED <<cancelled, call, timing>>
        BY <2>3 DEF WatcherKills
      <3>2. Living' => Living
        BY <3>1, <1>0, KillTreeEffect DEF Living
      <3>3. Begun' <=> Begun
        BY <3>1, <1>0, KillTreeEffect DEF Begun
      <3>4. QED
        BY <3>1, <3>2, <3>3, DieOrStutter
    <2>4. QED
      BY <1>15, <2>1, <2>2, <2>3 DEF Watcher
  <1>16. ASSUME NEW c \in Commands, LeaderExits(c) \/ LeaderDies(c)
         PROVE  [Contract!Next]_(Contract!vars)
    <2>1. /\ UNCHANGED <<cancelled, call, timing, rest>>
          /\ leader[c] \in {"running", "doomed"}
          /\ leader' = [leader EXCEPT ![c] = "zombie"]
      BY <1>16 DEF LeaderExits, LeaderDies
    <2>2. /\ Living' => Living
          /\ Begun' <=> Begun
      BY <2>1, <1>0 DEF Living, Begun, TypeOK
    <2>3. QED
      BY <2>1, <2>2, DieOrStutter
  <1>17. ASSUME NEW c \in Commands, Spawns(c)
         PROVE  [Contract!Next]_(Contract!vars)
    <2>1. /\ UNCHANGED <<cancelled, call, timing, leader>> /\ leader[c] = "running"
          /\ \A d \in Commands \ {c} : rest'[d] = rest[d]
      BY <1>17, <1>0 DEF Spawns, TypeOK
    <2>2. /\ Living' => Living
          /\ Begun' <=> Begun
      BY <2>1, <1>0 DEF Living, Begun
    <2>3. QED
      BY <2>1, <2>2, DieOrStutter
  <1>18. ASSUME NEW c \in Commands, RestEnds(c) \/ Leaves(c)
         PROVE  [Contract!Next]_(Contract!vars)
    <2>1. /\ UNCHANGED <<cancelled, call, timing, leader>>
          /\ \A d \in Commands : rest'[d] = "running" => rest[d] = "running"
      BY <1>18, <1>0 DEF RestEnds, Leaves, TypeOK
    <2>2. /\ Living' => Living
          /\ Begun' <=> Begun
      BY <2>1, <1>0 DEF Living, Begun
    <2>3. QED
      BY <2>1, <2>2, DieOrStutter
  <1>19. ASSUME NEW m \in 1..MaxRSS, Resident(m)
         PROVE  [Contract!Next]_(Contract!vars)
    BY <1>19, DieOrStutter DEF Resident, Begun, Living
  <1>20. CASE UNCHANGED vars
    BY <1>20, DieOrStutter DEF vars, Begun, Living
  <1>21. QED
    BY <1>1, <1>2, <1>3, <1>4, <1>5, <1>6, <1>7, <1>8, <1>9, <1>10, <1>11, <1>12,
       <1>13, <1>14, <1>15, <1>16, <1>17, <1>18, <1>19, <1>20 DEF Next, Main

(* Running a command directly keeps the contract of proc.Run: it is        *)
(* started at most once, nothing of it lives when the call returns, and    *)
(* the outcome is one that happened.                                       *)
THEOREM ProcRunImplements == Spec => Implements
  <1>1. Init => Contract!Init
    BY DEF Init, Contract!Init
  <1>2. IInv /\ IInv' /\ [Next]_vars => [Contract!Next]_(Contract!vars)
    BY StepImplements
  <1>3. QED
    BY <1>1, <1>2, ProcRunInvariant, PTL DEF Spec, Implements, Contract!Spec

-----------------------------------------------------------------------------
(***************************************************************************)
(* A command on a pseudo-terminal (Terminal): its inductive invariant.     *)
(***************************************************************************)
Key == {"char", "enter"}

(* Every write of the command is copied, on its way or in the terminal.    *)
Copying ==
  /\ copier \in {"read", "done"} => writes = copied + output
  /\ copier = "write" => writes = copied + output + 1
  /\ copier = "failed" => writes >= copied + output

(* The order of Close: the terminal side goes first, the controlling side  *)
(* only after the wait, and copying ends before that only when nothing can *)
(* write any more.                                                         *)
ClosingTerminal ==
  /\ slave <=> (main \in {"run", "slave"})
  /\ master <=> (main \notin {"join", "closed"})
  /\ main # "run" => command = "gone"
  /\ main \in {"master", "join", "closed"} /\ ~drained => copier \in {"done", "failed"}
  /\ copier = "done" /\ (master \/ ~drained) => output = 0 /\ Unheld

(* A key that is waited for ends what is unread as a whole read, whatever  *)
(* modes the command switches to; the next is typed when it was read or    *)
(* belongs to the same line.                                               *)
LastKey == queue[Len(queue)]
LineGoesOn == canonical /\ key = "char"

Typing ==
  /\ typist \in {"unready", "write"} => left # <<>>
  /\ typist = "unready" => queue = <<>>
  /\ typist = "write" /\ queue # <<>> => LineGoesOn
  /\ typist \in {"mode", "unread"} /\ queue # <<>> => LastKey = key \/ LastKey = "enter"
  /\ typist = "unread" /\ queue # <<>> => mode = "raw" \/ LastKey = "enter"

TerminalIInv == TerminalTypeOK /\ Copying /\ ClosingTerminal /\ Typing

-----------------------------------------------------------------------------
(* What the terminal's buffer goes through.                                *)

(* A key is typed.                                                         *)
LEMMA QueueAppend ==
  ASSUME NEW q \in Seq(Key), NEW k \in Key
  PROVE  /\ Append(q, k) \in Seq(Key) /\ Len(Append(q, k)) = Len(q) + 1
         /\ Append(q, k) # <<>> /\ Append(q, k)[Len(Append(q, k))] = k
  BY AppendProperties

(* The keys after the i-th are left, or none.                              *)
LEMMA QueueAfter ==
  ASSUME NEW q \in Seq(Key), NEW i \in DOMAIN q
  PROVE  LET r == SubSeq(q, i + 1, Len(q))
         IN /\ r \in Seq(Key) /\ Len(r) <= Len(q)
            /\ r # <<>> => q # <<>> /\ r[Len(r)] = q[Len(q)]
<1> DEFINE r == SubSeq(q, i + 1, Len(q))
<1>1. i \in 1..Len(q) /\ Len(q) \in Nat
  BY LenProperties
<1>2. \A j \in (i + 1)..Len(q) : q[j] \in Key
  BY <1>1, ElementOfSeq
<1>3. /\ r \in Seq(Key) /\ Len(r) = (IF i + 1 <= Len(q) THEN Len(q) - (i + 1) + 1 ELSE 0)
      /\ \A j \in 1..(Len(q) - (i + 1) + 1) : r[j] = q[i + 1 + j - 1]
  BY <1>1, <1>2, SubSeqProperties
<1> HIDE DEF r
<1>4. r \in Seq(Key)
  BY <1>3
<1>5. Len(r) = (IF i + 1 <= Len(q) THEN Len(q) - (i + 1) + 1 ELSE 0)
  BY <1>3
<1>6. Len(r) <= Len(q)
  BY <1>1, <1>5
<1>7. ASSUME r # <<>> PROVE q # <<>> /\ r[Len(r)] = q[Len(q)]
  <2>1. Len(r) # 0
    BY <1>4, <1>7, EmptySeq
  <2>2. i + 1 <= Len(q)
    BY <1>5, <2>1
  <2>3. Len(r) = Len(q) - i /\ Len(r) \in 1..(Len(q) - (i + 1) + 1)
    BY <1>1, <1>5, <2>2
  <2>4. r[Len(r)] = q[i + 1 + Len(r) - 1]
    BY <1>3, <2>3
  <2>5. i + 1 + Len(r) - 1 = Len(q)
    <3>1. \A a, b \in Int : a + 1 + (b - a) - 1 = b
      OBVIOUS
    <3>2. i \in Int /\ Len(q) \in Int
      BY <1>1
    <3>3. QED
      BY <2>3, <3>1, <3>2
  <2>6. q # <<>>
    BY <1>1, EmptySeq
  <2>7. QED
    BY <2>4, <2>5, <2>6
<1>8. QED
  BY <1>4, <1>6, <1>7 DEF r

(* What is unread ends a line.                                             *)
LEMMA QueueEnds ==
  ASSUME NEW q \in Seq(Key), q # <<>>
  PROVE  LET r == [q EXCEPT ![Len(q)] = "enter"]
         IN /\ r \in Seq(Key) /\ Len(r) = Len(q) /\ r # <<>>
            /\ r[Len(r)] = "enter"
<1>1. Len(q) \in 1..Len(q)
  BY EmptySeq
<1>2. QED
  BY <1>1, ExceptSeq, EmptySeq DEF Key

(* A buffer without a whole line does not end one.                         *)
LEMMA QueueLast ==
  ASSUME NEW q \in Seq(Key), q # <<>>
  PROVE  Len(q) \in DOMAIN q /\ q[Len(q)] \in Key
  BY EmptySeq, LenProperties, ElementOfSeq

-----------------------------------------------------------------------------
(* Types: the buffers, the numbers, the flags and the rest.                *)

Buffers == queue \in Seq(Key) /\ Len(queue) <= InCap /\ left \in Seq(Key)

Flags ==
  /\ holder \in BOOLEAN /\ slave \in BOOLEAN /\ master \in BOOLEAN /\ drained \in BOOLEAN
  /\ wrote \in BOOLEAN /\ ready \in BOOLEAN /\ stop \in BOOLEAN /\ canonical \in BOOLEAN

Places ==
  /\ command \in {"running", "gone"} /\ mode \in {"line", "raw"}
  /\ typist \in {"unready", "write", "mode", "unread", "done"}
  /\ typist = "write" => left # <<>>
  /\ key \in {"none", "char", "enter"}
  /\ copier \in {"read", "write", "done", "failed"}
  /\ main \in {"run", "slave", "drain", "master", "join", "closed"}

WriteCounts == output \in 0..OutCap /\ writes \in 0..MaxWrites /\ copied \in 0..MaxWrites

(* Together they are TerminalTypeOK.                                               *)
LEMMA TypeParts ==
  /\ TerminalTypeOK <=> Buffers /\ Flags /\ Places /\ WriteCounts
  /\ TerminalTypeOK' <=> Buffers' /\ Flags' /\ Places' /\ WriteCounts'
<1>1. TerminalTypeOK <=> Buffers /\ Flags /\ Places /\ WriteCounts
  BY Zenon DEF TerminalTypeOK, Buffers, Flags, Places, WriteCounts, Key
<1>2. TerminalTypeOK' <=> Buffers' /\ Flags' /\ Places' /\ WriteCounts'
  BY Zenon DEF TerminalTypeOK, Buffers, Flags, Places, WriteCounts, Key
<1>3. QED
  BY <1>1, <1>2

(* The constants, without the input.                                       *)
LEMMA Sizes == InCap \in Nat \ {0} /\ OutCap \in Nat \ {0} /\ MaxWrites \in Nat
  BY TerminalAssumption

-----------------------------------------------------------------------------
(* The invariant, part by part.                                            *)

(* The terminal holds keys, and no more than it can.                       *)
LEMMA BuffersNext == TerminalIInv /\ [TerminalNext]_terminalVars => Buffers'
<1> SUFFICES ASSUME TerminalIInv, [TerminalNext]_terminalVars PROVE Buffers'
  OBVIOUS
<1>1. Buffers /\ Len(queue) \in Nat
  BY TypeParts, LenProperties DEF TerminalIInv, Buffers
<1>2. CASE TypeKey
  <2>1. CASE UNCHANGED <<queue, left>>
    BY <1>1, <2>1 DEF Buffers
  <2>2. CASE Len(queue) < InCap /\ queue' = Append(queue, Head(left)) /\ left' = Tail(left)
    <3>1. left # <<>>
      BY <1>2 DEF TerminalIInv, Typing, TypeKey
    <3>2. Head(left) \in Key /\ Tail(left) \in Seq(Key)
      BY <1>1, <3>1, HeadTailProperties DEF Buffers
    <3>3. queue' \in Seq(Key) /\ Len(queue') = Len(queue) + 1
      BY <1>1, <2>2, <3>2, QueueAppend DEF Buffers
    <3>4. Len(queue') <= InCap
      BY <1>1, <2>2, <3>3, Sizes
    <3>5. QED
      BY <2>2, <3>2, <3>3, <3>4 DEF Buffers
  <2>3. QED
    BY <1>2, <2>1, <2>2 DEF TypeKey
<1>3. CASE CommandReads
  <2>1. left' = left
    BY <1>3 DEF CommandReads, typing
  <2>2. CASE queue' = <<>>
    <3>1. queue' \in Seq(Key) /\ Len(queue') = 0
      BY <2>2, EmptySeq
    <3>2. QED
      BY <1>1, <2>1, <3>1, Sizes DEF Buffers
  <2>3. CASE \E i \in DOMAIN queue : queue' = SubSeq(queue, i + 1, Len(queue))
    <3>1. queue' \in Seq(Key) /\ Len(queue') <= Len(queue) /\ Len(queue') \in Nat
      BY <1>1, <2>3, QueueAfter, LenProperties DEF Buffers
    <3>2. Len(queue') <= InCap
      BY <1>1, <3>1, Sizes DEF Buffers
    <3>3. QED
      BY <1>1, <2>1, <3>1, <3>2 DEF Buffers
  <2>4. QED
    BY <1>3, <2>2, <2>3 DEF CommandReads
<1>4. CASE CommandSwitches
  <2>1. left' = left
    BY <1>4 DEF CommandSwitches, typing
  <2>2. queue' \in Seq(Key) /\ Len(queue') = Len(queue)
    BY <1>1, <1>4, QueueEnds DEF CommandSwitches, Buffers
  <2>3. QED
    BY <1>1, <2>1, <2>2 DEF Buffers
<1>5. CASE UNCHANGED <<queue, left>>
  BY <1>1, <1>5 DEF Buffers
<1>6. QED
  BY <1>2, <1>3, <1>4, <1>5 DEF TerminalNext, Typist, WaitReady, AskMode, WaitRead, Copier, ReadOutput,
     WriteOutput, Close, CloseStop, CloseSlave, DrainOutput, CloseMaster, CloseJoins, World,
     CommandWrites, DescendantHolds, DescendantEnds, CommandEnds, terminalVars, terminal, typing

(* The command wrote at most MaxWrites times, and so much was copied.      *)
LEMMA CountsNext == TerminalIInv /\ [TerminalNext]_terminalVars => WriteCounts'
<1> SUFFICES ASSUME TerminalIInv, [TerminalNext]_terminalVars PROVE WriteCounts'
  OBVIOUS
<1>1. WriteCounts /\ Copying /\ copier \in {"read", "write", "done", "failed"}
  BY TypeParts DEF TerminalIInv, Places
<1>2. CASE ReadOutput
  BY <1>1, <1>2, Sizes DEF ReadOutput, WriteCounts, Copying
<1>3. CASE WriteOutput
  BY <1>1, <1>3, Sizes DEF WriteOutput, WriteCounts, Copying, terminal
<1>4. CASE CommandWrites
  BY <1>1, <1>4, Sizes DEF CommandWrites, WriteCounts, copying
<1>5. CASE UNCHANGED <<output, writes, copied>>
  BY <1>1, <1>5 DEF WriteCounts
<1>6. QED
  BY <1>2, <1>3, <1>4, <1>5 DEF TerminalNext, Typist, WaitReady, TypeKey, AskMode, WaitRead, Copier,
     Close, CloseStop, CloseSlave, DrainOutput, CloseMaster, CloseJoins, World, CommandReads,
     CommandSwitches, DescendantHolds, DescendantEnds, CommandEnds, terminalVars, terminal, copying

(* The flags.                                                              *)
LEMMA FlagsNext == TerminalIInv /\ [TerminalNext]_terminalVars => Flags'
<1> SUFFICES ASSUME TerminalIInv, [TerminalNext]_terminalVars PROVE Flags'
  OBVIOUS
<1> USE DEF Flags, terminal, files, channels, typing, copying, closing
<1>1. Flags
  BY TypeParts DEF TerminalIInv
<1>2. CASE Typist
  BY <1>1, <1>2 DEF Typist, WaitReady, TypeKey, AskMode, WaitRead
<1>3. CASE Copier
  BY <1>1, <1>3 DEF Copier, ReadOutput, WriteOutput
<1>4. CASE Close
  BY <1>1, <1>4 DEF Close, CloseStop, CloseSlave, DrainOutput, CloseMaster, CloseJoins
<1>5. CASE World
  BY <1>1, <1>5 DEF World, CommandWrites, CommandReads, CommandSwitches, DescendantHolds,
     DescendantEnds, CommandEnds
<1>6. QED
  BY <1>1, <1>2, <1>3, <1>4, <1>5 DEF TerminalNext, terminalVars

(* Where the goroutines, the command and its terminal are.                 *)
LEMMA PlacesNext == TerminalIInv /\ [TerminalNext]_terminalVars => Places'
<1> SUFFICES ASSUME TerminalIInv, [TerminalNext]_terminalVars PROVE Places'
  OBVIOUS
<1> USE DEF Places, terminal, files, channels, typing, copying, closing
<1>1. Places
  BY TypeParts DEF TerminalIInv
<1>2. CASE Typist
  <2>1. CASE WaitReady
    BY <1>1, <2>1 DEF WaitReady, TerminalIInv, Typing
  <2>2. CASE TypeKey
    <3>1. Head(left) \in Key
      BY <2>2, TypeParts, HeadTailProperties DEF Buffers, TerminalIInv, Typing, TypeKey
    <3>2. key' \in {"none", "char", "enter"} /\ typist' \in {"mode", "done"}
      BY <1>1, <2>2, <3>1 DEF TypeKey, Key
    <3>3. QED
      BY <1>1, <2>2, <3>2 DEF TypeKey
  <2>3. CASE AskMode \/ WaitRead
    BY <1>1, <2>3 DEF AskMode, WaitRead, After
  <2>4. QED
    BY <1>2, <2>1, <2>2, <2>3 DEF Typist
<1>3. CASE Copier
  BY <1>1, <1>3 DEF Copier, ReadOutput, WriteOutput
<1>4. CASE Close
  BY <1>1, <1>4 DEF Close, CloseStop, CloseSlave, DrainOutput, CloseMaster, CloseJoins
<1>5. CASE CommandSwitches
  <2>1. mode' \in {"line", "raw"}
    BY <1>5, TerminalAssumption DEF CommandSwitches
  <2>2. QED
    BY <1>1, <1>5, <2>1 DEF CommandSwitches
<1>6. CASE CommandWrites \/ CommandReads \/ DescendantHolds \/ DescendantEnds \/ CommandEnds
  BY <1>1, <1>6 DEF CommandWrites, CommandReads, DescendantHolds, DescendantEnds, CommandEnds
<1>7. QED
  BY <1>1, <1>2, <1>3, <1>4, <1>5, <1>6 DEF TerminalNext, World, terminalVars

(* What the command wrote stays accounted for.                             *)
LEMMA CopyingNext == TerminalIInv /\ [TerminalNext]_terminalVars => Copying'
<1> SUFFICES ASSUME TerminalIInv, [TerminalNext]_terminalVars PROVE Copying'
  OBVIOUS
<1>1. CASE Copier
  BY <1>1, TypeParts, Sizes DEF Copier, ReadOutput, WriteOutput, Copying, TerminalIInv, WriteCounts, terminal
<1>2. CASE CommandWrites
  BY <1>2, TypeParts, Sizes DEF CommandWrites, Copying, TerminalIInv, WriteCounts, copying
<1>3. CASE UNCHANGED <<copier, copied, output, writes>>
  BY <1>3 DEF Copying, TerminalIInv
<1>4. QED
  BY <1>1, <1>2, <1>3 DEF TerminalNext, Typist, WaitReady, TypeKey, AskMode, WaitRead, Close, CloseStop,
     CloseSlave, DrainOutput, CloseMaster, CloseJoins, World, CommandReads, CommandSwitches,
     DescendantHolds, DescendantEnds, CommandEnds, terminalVars, terminal, copying

(* Close keeps its order.                                                  *)
LEMMA ClosingNext == TerminalIInv /\ [TerminalNext]_terminalVars => ClosingTerminal'
<1> SUFFICES ASSUME TerminalIInv, [TerminalNext]_terminalVars PROVE ClosingTerminal'
  OBVIOUS
<1> USE DEF TerminalIInv, ClosingTerminal, Unheld, files, channels, closing, copying, terminal
<1>1. CASE Copier
  BY <1>1, TypeParts DEF Copier, ReadOutput, WriteOutput, Flags, Places
<1>2. CASE Close
  BY <1>2, TypeParts DEF Close, CloseStop, CloseSlave, DrainOutput, CloseMaster, CloseJoins, Flags, Places
<1>3. CASE CommandWrites
  BY <1>3 DEF CommandWrites, Running
<1>4. CASE CommandEnds \/ DescendantEnds \/ DescendantHolds
  BY <1>4 DEF CommandEnds, DescendantEnds, DescendantHolds
<1>5. CASE UNCHANGED <<slave, master, main, drained, command, holder, copier, output>>
  BY <1>5
<1>6. QED
  BY <1>1, <1>2, <1>3, <1>4, <1>5 DEF TerminalNext, Typist, WaitReady, TypeKey, AskMode, WaitRead,
     World, CommandReads, CommandSwitches, terminalVars

(* A key is followed by another only when it was read or the line goes on. *)
LEMMA TypingNext == TerminalIInv /\ TerminalTypeOK' /\ [TerminalNext]_terminalVars => Typing'
<1> SUFFICES ASSUME TerminalIInv, TerminalTypeOK', [TerminalNext]_terminalVars PROVE Typing'
  OBVIOUS
<1> USE DEF Typing, LineGoesOn
<1>1. Typing /\ TerminalTypeOK /\ TerminalTypeOK'
  BY DEF TerminalIInv
<1>2. CASE WaitReady
  BY <1>1, <1>2 DEF WaitReady, LastKey, terminal
<1>3. CASE TypeKey
  <2>1. CASE typist' = "done"
    BY <2>1
  <2>2. CASE /\ queue' = Append(queue, Head(left)) /\ key' = Head(left) /\ typist' = "mode"
    <3>1. queue \in Seq(Key) /\ Head(left) \in Key
      BY <1>1, <1>3, HeadTailProperties DEF TerminalTypeOK, TypeKey, Key
    <3>2. LastKey' = key'
      BY <2>2, <3>1, QueueAppend DEF LastKey
    <3>3. QED
      BY <2>2, <3>2
  <2>3. QED
    BY <1>3, <2>1, <2>2 DEF TypeKey
<1>4. CASE AskMode
  <2>1. UNCHANGED <<queue, mode, key, left>>
    BY <1>4 DEF AskMode, terminal
  <2>2. \/ typist' = "done"
        \/ canonical' /\ key = "char" /\ typist' = After(left)
        \/ typist' = "unread" /\ (mode = "raw" \/ key # "char")
    BY <1>1, <1>4 DEF AskMode, TerminalTypeOK
  <2>3. typist = "mode" /\ (queue # <<>> => LastKey \in Key) /\ key \in {"none", "char", "enter"}
    BY <1>1, <1>4, QueueLast DEF AskMode, TerminalTypeOK, Key, LastKey
  <2>4. QED
    BY <1>1, <2>1, <2>2, <2>3 DEF After, LastKey, Key
<1>5. CASE WaitRead
  <2>1. UNCHANGED <<queue, mode, key, left, canonical>> /\ typist = "unread"
    BY <1>5 DEF WaitRead, terminal
  <2>2. CASE typist' = "done"
    BY <2>2
  <2>3. CASE ~Pending /\ typist' = After(left)
    <3>1. queue = <<>>
      <4>1. SUFFICES ASSUME queue # <<>> PROVE FALSE
        OBVIOUS
      <4>2. Len(queue) \in DOMAIN queue
        BY <1>1, <4>1, QueueLast DEF TerminalTypeOK, Key
      <4>3. mode = "line" \/ mode = "raw"
        BY <1>1 DEF TerminalTypeOK
      <4>4. QED
        BY <1>1, <2>1, <2>3, <4>1, <4>2, <4>3 DEF Pending, LastKey
    <3>2. QED
      BY <2>1, <2>3, <3>1 DEF After
  <2>4. QED
    BY <1>5, <2>2, <2>3 DEF WaitRead
<1>6. CASE CommandReads
  <2>1. UNCHANGED <<typist, left, key, canonical, mode>>
    BY <1>6 DEF CommandReads, typing
  <2>2. queue' # <<>> => queue # <<>> /\ LastKey' = LastKey
    <3>1. CASE \E i \in DOMAIN queue : queue' = SubSeq(queue, i + 1, Len(queue))
      BY <1>1, <3>1, QueueAfter DEF LastKey, TerminalTypeOK, Key
    <3>2. QED
      BY <1>6, <3>1 DEF CommandReads
  <2>3. queue = <<>> => queue' = <<>>
    BY <2>2
  <2>4. QED
    BY <1>1, <2>1, <2>2, <2>3
<1>7. CASE CommandSwitches
  <2>1. UNCHANGED <<typist, left, key, canonical>>
    BY <1>7 DEF CommandSwitches, typing
  <2>2. mode' \in {"line", "raw"}
    BY <1>1 DEF TerminalTypeOK
  <2>3. CASE mode' = "line" /\ queue # <<>>
    <3>1. queue' # <<>> /\ LastKey' = "enter"
      BY <1>1, <1>7, <2>3, QueueEnds DEF CommandSwitches, LastKey, TerminalTypeOK, Key
    <3>2. QED
      BY <1>1, <2>1, <2>3, <3>1
  <2>4. CASE queue' = queue /\ (mode' = "raw" \/ queue = <<>>)
    BY <1>1, <2>1, <2>4 DEF LastKey
  <2>5. QED
    BY <1>7, <2>2, <2>3, <2>4 DEF CommandSwitches
<1>8. CASE UNCHANGED <<typist, left, key, canonical, mode, queue>>
  BY <1>1, <1>8 DEF LastKey
<1>9. QED
  BY <1>2, <1>3, <1>4, <1>5, <1>6, <1>7, <1>8 DEF TerminalNext, Typist, Copier, ReadOutput, WriteOutput,
     Close, CloseStop, CloseSlave, DrainOutput, CloseMaster, CloseJoins, World, CommandWrites,
     DescendantHolds, DescendantEnds, CommandEnds, terminalVars, terminal, typing

(* It holds when the command is started.                                   *)
LEMMA IInvInit == TerminalInit => TerminalIInv
<1> SUFFICES ASSUME TerminalInit PROVE TerminalIInv
  OBVIOUS
<1>1. Buffers
  <2>1. queue \in Seq(Key) /\ Len(queue) = 0 /\ left \in Seq(Key)
    BY EmptySeq, TerminalAssumption DEF TerminalInit, Key
  <2>2. QED
    BY <2>1, Sizes DEF Buffers
<1>2. Flags /\ Places
  BY DEF TerminalInit, Flags, Places
<1>3. WriteCounts /\ Copying
  BY Sizes DEF TerminalInit, WriteCounts, Copying
<1>4. QED
  BY <1>1, <1>2, <1>3, TypeParts DEF TerminalInit, TerminalIInv, ClosingTerminal, Typing

-----------------------------------------------------------------------------
(* What the goroutines of a terminal and its Close can be, at every        *)
(* moment: proc.Terminal.                                                  *)
THEOREM TerminalInvariant == TerminalSpec => []TerminalIInv
<1>1. TerminalIInv /\ [TerminalNext]_terminalVars => TerminalIInv'
  BY TypeParts, BuffersNext, CountsNext, FlagsNext, PlacesNext, CopyingNext, ClosingNext, TypingNext DEF TerminalIInv
<1>2. QED
  BY IInvInit, <1>1, PTL DEF TerminalSpec

(* Everything the command wrote is copied when Close returns, unless a     *)
(* descendant or the writer held it up: copyOutput and Close.              *)
THEOREM OutputHolds == TerminalSpec => []OutputComplete
<1>1. TerminalIInv => OutputComplete
  BY DEF TerminalIInv, ClosingTerminal, Copying, OutputComplete, TerminalTypeOK
<1>2. QED
  BY <1>1, TerminalInvariant, PTL

(* A key joins unread ones only when it goes on with a line, however the   *)
(* command switches modes and whenever it reads: typeKeys and waitRead.    *)
THEOREM KeysHold == TerminalSpec => KeysReadSingly
<1>1. TerminalIInv /\ [TerminalNext]_terminalVars => [left' # left /\ queue # <<>> => canonical /\ key = "char"]_terminalVars
  <2> SUFFICES ASSUME TerminalIInv, TerminalNext, left' # left, queue # <<>> PROVE canonical /\ key = "char"
    OBVIOUS
  <2>1. typist = "write"
    BY DEF TerminalNext, Typist, WaitReady, TypeKey, AskMode, WaitRead, Copier, ReadOutput, WriteOutput,
       Close, CloseStop, CloseSlave, DrainOutput, CloseMaster, CloseJoins, World, CommandWrites,
       CommandReads, CommandSwitches, DescendantHolds, DescendantEnds, CommandEnds, typing
  <2>2. QED
    BY <2>1 DEF TerminalIInv, Typing, LineGoesOn
<1>2. QED
  BY <1>1, TerminalInvariant, PTL DEF TerminalSpec, KeysReadSingly
=============================================================================
