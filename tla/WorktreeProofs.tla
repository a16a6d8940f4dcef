---------------------------- MODULE WorktreeProofs ----------------------------
(***************************************************************************)
(* What Worktree promises for any number of himorimes, worktrees of the    *)
(* user and names, whatever may fail, and whenever who is killed, proved   *)
(* from WorktreeAssumption and NoEntryAssumption.                          *)
(***************************************************************************)
EXTENDS Worktree, TLAPS

(***************************************************************************)
(* The inductive invariant, for each himorime.  The first parts say how    *)
(* far it and its git can be and what exists by then; the last two follow  *)
(* a loop of pruneOrphans: what it is to clear is still before it, and     *)
(* nobody makes an orphan into a worktree again.                           *)
(***************************************************************************)
Looking == {"read", "lstat", "unlink"}
Belongs(i, o) == entries[i] # NoEntry /\ entries[i].owner = o
Recorded(i, o) == Belongs(i, o) /\ entries[i].recorded
Ahead(h, i, o) ==
  \/ i \in left[h]
  \/ pc[h] \in {"lstat", "unlink"} /\ seen[h] = [name |-> i, owner |-> o]

(* The worktree of h is not begun, or never will be.                       *)
Early(h) == phase[h] = "adding" /\ pc[h] \in {"idle", "list", "mkdir"} \cup Looking
Abandoned(h) == phase[h] = "adding" /\ pc[h] \in {"exit", "gone"}

(* git worktree add is at work on it.                                      *)
Adding(h) == git[h] \in {"entry", "dir", "record"}

(* Whatever is left of it, it does not come back.                          *)
Settled(o) == ~dir[o] /\ ~Early(o) /\ ~Adding(o)

(* A git process runs only where its himorime waits for it, or died.       *)
GitFollows(h) ==
  /\ pc[h] \notin {"add", "gitrm", "dead"} => git[h] = "none"
  /\ pc[h] \in {"idle", "mkdir"} => phase[h] = "adding"
  /\ pc[h] \in {"stat", "gitrm", "rmtree"} => phase[h] = "removing"

(* It has one entry at most, which is made when there is none, and         *)
(* recorded when the directory is made.                                    *)
EntryFollows(h) ==
  /\ \A i, j \in Names : Belongs(i, h) /\ Belongs(j, h) => i = j
  /\ git[h] = "entry" => \A i \in Names : ~Belongs(i, h)
  /\ Adding(h) => \A i \in Names : ~Recorded(i, h)

NothingYet(h) ==
  Early(h) \/ Abandoned(h) => ~dir[h] /\ \A i \in Names : ~Belongs(i, h)

(* What it is about to unlink is not of a worktree that the user had from  *)
(* the beginning, unless it looks like himorime's, whatever happened since *)
(* it was read.                                                            *)
UsersSpared(h) ==
  seen[h] # Nothing => \A o \in Users \ Lookalikes : ~Belongs(seen[h].name, o)

(* It removes its worktree, as long as nothing fails.                      *)
OwnRemoved(h) ==
  phase[h] = "removing" /\ ~failed[h] =>
    /\ pc[h] \in {"list", "exit", "gone"} \cup Looking => ~dir[h]
    /\ pc[h] \in Looking => \A i \in Names : Recorded(i, h) => Ahead(h, i, h)
    /\ pc[h] \in {"exit", "gone"} => \A i \in Names : ~Recorded(i, h)

Pruned(h) == pc[h] \in {"mkdir", "exit"}

GoalSettled(h) ==
  pc[h] \in Looking \/ Pruned(h) => \A o \in goal[h] : o \in Himorimes /\ Settled(o)

GoalPursued(h) ==
  /\ pc[h] \in Looking => \A o \in goal[h], i \in Names :
                            Belongs(i, o) => entries[i].recorded /\ Ahead(h, i, o)
  /\ Pruned(h) => \A o \in goal[h], i \in Names : ~Belongs(i, o)

Sound(h) ==
  /\ GitFollows(h) /\ EntryFollows(h) /\ NothingYet(h) /\ UsersSpared(h)
  /\ OwnRemoved(h) /\ GoalSettled(h) /\ GoalPursued(h)

IInv == TypeOK /\ \A h \in Himorimes : Sound(h)

-----------------------------------------------------------------------------
(* Types.                                                                  *)

(* Every step keeps the types of the variables.                            *)
LEMMA TypeNext == TypeOK /\ [Next]_vars => TypeOK'
<1> SUFFICES ASSUME TypeOK, [Next]_vars PROVE TypeOK'
  OBVIOUS
<1> USE WorktreeAssumption DEF TypeOK, Entry, Go
<1>1. ASSUME NEW h \in Himorimes, Prune(h) PROVE TypeOK'
  <2>1. CASE PruneList(h)
    BY <2>1 DEF PruneList, Used, Orphaned, repository, pruning
  <2>2. CASE PruneListFails(h)
    BY <2>2 DEF PruneListFails, AfterPrune, repository, pruning
  <2>3. CASE PruneRead(h)
    <3>1. PICK i \in left[h] :
            /\ left' = [left EXCEPT ![h] = @ \ {i}]
            /\ \/ /\ entries[i] # NoEntry
                  /\ seen' = [seen EXCEPT ![h] = [name |-> i, owner |-> entries[i].owner]]
                  /\ pc' = [pc EXCEPT ![h] = "lstat"]
               \/ UNCHANGED <<seen, pc>>
      BY <2>3 DEF PruneRead
    <3>2. i \in Names /\ entries[i] \in Entry \cup {NoEntry}
      OBVIOUS
    <3>3. CASE UNCHANGED <<seen, pc>>
      BY <2>3, <3>1, <3>3 DEF PruneRead, repository
    <3>4. CASE /\ seen' = [seen EXCEPT ![h] = [name |-> i, owner |-> entries[i].owner]]
               /\ pc' = [pc EXCEPT ![h] = "lstat"] /\ entries[i] # NoEntry
      <4>1. entries[i].owner \in Owners
        BY <3>2, <3>4
      <4>2. seen' \in [Himorimes -> [name : Names, owner : Owners] \cup {Nothing}]
        BY <3>2, <3>4, <4>1
      <4>3. [name |-> i, owner |-> entries[i].owner] # Nothing
        BY DEF Nothing
      <4>4. \A k \in Himorimes : pc'[k] \in {"lstat", "unlink"} => seen'[k] # Nothing
        BY <3>4, <4>3
      <4>5. QED
        BY <2>3, <3>1, <3>4, <4>2, <4>4 DEF PruneRead, repository
    <3>5. QED
      BY <3>1, <3>3, <3>4
  <2>4. CASE PruneLstat(h)
    BY <2>4 DEF PruneLstat, repository, pruning
  <2>5. CASE PruneUnlink(h)
    <3>1. seen[h] # Nothing /\ seen[h].name \in Names
      BY <2>5 DEF PruneUnlink
    <3>2. entries' \in [Names -> Entry \cup {NoEntry}]
      BY <2>5, <3>1 DEF PruneUnlink
    <3>3. failed' \in [Himorimes -> BOOLEAN] /\ goal' \in [Himorimes -> SUBSET Owners]
      <4>1. CASE UNCHANGED <<failed, goal>>
        BY <4>1
      <4>2. CASE /\ failed' = [failed EXCEPT ![h] = @ \/ phase[h] = "removing"]
                 /\ goal' = [goal EXCEPT ![h] = @ \ {seen[h].owner}]
        BY <4>2
      <4>3. QED
        BY <2>5, <4>1, <4>2 DEF PruneUnlink
    <3>4. /\ seen' = [seen EXCEPT ![h] = Nothing] /\ pc' = [pc EXCEPT ![h] = "read"]
          /\ UNCHANGED <<dir, phase, cancelled, git, left>>
      BY <2>5 DEF PruneUnlink
    <3>5. QED
      BY <3>2, <3>3, <3>4
  <2>6. CASE PruneEnds(h)
    BY <2>6 DEF PruneEnds, AfterPrune, repository, pruning
  <2>7. QED
    BY <1>1, <2>1, <2>2, <2>3, <2>4, <2>5, <2>6 DEF Prune
<1>2. ASSUME NEW h \in Himorimes, Add(h) PROVE TypeOK'
  <2>1. CASE Begin(h)
    BY <2>1 DEF Begin, repository, pruning
  <2>2. CASE MakeParent(h)
    BY <2>2 DEF MakeParent, repository, pruning
  <2>3. CASE AddReturns(h)
    BY <2>3 DEF AddReturns, repository, pruning
  <2>4. CASE Settle(h)
    BY <2>4 DEF Settle, repository, pruning
  <2>5. CASE Measured(h)
    BY <2>5 DEF Measured, repository, pruning
  <2>6. QED
    BY <1>2, <2>1, <2>2, <2>3, <2>4, <2>5 DEF Add
<1>3. ASSUME NEW h \in Himorimes, Remove(h) PROVE TypeOK'
  <2>1. CASE RemoveStats(h)
    BY <2>1 DEF RemoveStats, repository, pruning
  <2>2. CASE RemoveReturns(h)
    BY <2>2 DEF RemoveReturns, repository, pruning
  <2>3. CASE RemoveTree(h)
    BY <2>3 DEF RemoveTree, pruning
  <2>4. CASE Exit(h)
    BY <2>4 DEF Exit, pruning
  <2>5. QED
    BY <1>3, <2>1, <2>2, <2>3, <2>4 DEF Remove
<1>4. ASSUME NEW h \in Himorimes, Git(h) PROVE TypeOK'
  <2>1. CASE GitMakesEntry(h)
    BY <2>1 DEF GitMakesEntry, pruning, Owners
  <2>2. CASE GitMakesDir(h)
    BY <2>2 DEF GitMakesDir, pruning
  <2>3. CASE GitRecords(h)
    <3>1. entries' \in [Names -> Entry \cup {NoEntry}]
      <4>1. ASSUME NEW i \in Names
            PROVE  (IF entries[i] # NoEntry /\ entries[i].owner = h
                    THEN [entries[i] EXCEPT !.recorded = TRUE] ELSE entries[i])
                     \in Entry \cup {NoEntry}
        <5>1. entries[i] \in Entry \cup {NoEntry}
          OBVIOUS
        <5>2. ASSUME entries[i] \in Entry PROVE [entries[i] EXCEPT !.recorded = TRUE] \in Entry
          BY <5>2
        <5>3. QED
          BY <5>1, <5>2
      <4>2. QED
        BY <2>3, <4>1 DEF GitRecords
    <3>2. QED
      BY <2>3, <3>1 DEF GitRecords, pruning
  <2>4. CASE GitAddFails(h)
    BY <2>4 DEF GitAddFails, pruning
  <2>5. CASE GitKilled(h)
    BY <2>5 DEF GitKilled, repository, pruning
  <2>6. CASE GitRemoves(h)
    <3>1. entries' \in [Names -> Entry \cup {NoEntry}]
      BY <2>6 DEF GitRemoves
    <3>2. QED
      BY <2>6, <3>1 DEF GitRemoves, pruning
  <2>7. QED
    BY <1>4, <2>1, <2>2, <2>3, <2>4, <2>5, <2>6 DEF Git
<1>5. ASSUME NEW h \in Himorimes, Interrupt(h) \/ Kill(h) \/ TempCleared(h) PROVE TypeOK'
  BY <1>5 DEF Interrupt, Kill, TempCleared, repository, pruning
<1>6. ASSUME NEW u \in Users, Mount(u) PROVE TypeOK'
  BY <1>6 DEF Mount, pruning
<1>7. ASSUME NEW u \in NewUsers, UserAdds(u) PROVE TypeOK'
  BY <1>7 DEF UserAdds, pruning, Owners
<1>8. CASE UNCHANGED vars
  BY <1>8 DEF vars, repository, pruning
<1>9. QED
  BY <1>1, <1>2, <1>3, <1>4, <1>5, <1>6, <1>7, <1>8 DEF Next

-----------------------------------------------------------------------------
(* A step of one himorime, or of the user.                                 *)

(* The entry of o, if it still has one, is as it was.                      *)
Kept(o) == \A i \in Names : Belongs(i, o)' => entries'[i] = entries[i]

Waits(k) ==
  /\ pc'[k] = pc[k] /\ phase'[k] = phase[k] /\ git'[k] = git[k] /\ failed'[k] = failed[k]
  /\ left'[k] = left[k] /\ seen'[k] = seen[k] /\ goal'[k] = goal[k]

(* What a step of h leaves of the others' entries and directories is all   *)
(* that they rely on.                                                      *)
LEMMA OthersStand ==
  ASSUME IInv, TypeOK', NEW h,
         \A k \in Himorimes \ {h} : Waits(k) /\ (dir'[k] => dir[k]),
         \A o \in (Himorimes \ {h}) \cup Users : Kept(o),
         h \in Himorimes /\ Settled(h) => Settled(h)' /\ Kept(h),
         h \in Himorimes => Sound(h)'
  PROVE  IInv'
<1> SUFFICES ASSUME NEW k \in Himorimes \ {h} PROVE Sound(k)'
  BY DEF IInv
<1> DEFINE Stays(o) == Settled(o) => Settled(o)' /\ Kept(o)
<1>1. Sound(k) /\ Waits(k) /\ Kept(k) /\ (dir'[k] => dir[k])
  BY DEF IInv
<1>2. \A i \in Names : /\ Belongs(i, k)' => Belongs(i, k)
                       /\ Recorded(i, k)' => Recorded(i, k)
  BY <1>1 DEF Kept, Belongs, Recorded
<1>3. ASSUME NEW o \in Himorimes, Settled(o) PROVE Settled(o)' /\ Kept(o)
  <2>1. CASE o # h
    BY <1>3, <2>1 DEF Settled, Early, Adding, Waits
  <2>2. QED
    BY <1>3, <2>1
<1>4. ASSUME NEW i, NEW o PROVE Ahead(k, i, o)' <=> Ahead(k, i, o)
  BY <1>1 DEF Ahead, Waits
<1>5. GitFollows(k)'
  BY <1>1 DEF Sound, GitFollows, Waits
<1>6. EntryFollows(k)'
  BY <1>1, <1>2 DEF Sound, EntryFollows, Adding, Waits
<1>7. NothingYet(k)'
  BY <1>1, <1>2 DEF Sound, NothingYet, Early, Abandoned, Waits
<1>8. UsersSpared(k)'
  <2>1. ASSUME NEW o \in Users \ Lookalikes, NEW i \in Names, seen[k] # Nothing, seen[k].name = i
        PROVE  ~Belongs(i, o)'
    <3>1. ~Belongs(i, o) /\ Kept(o)
      BY <1>1, <2>1 DEF Sound, UsersSpared
    <3>2. QED
      BY <3>1 DEF Kept, Belongs
  <2>2. seen'[k] = seen[k] /\ (seen[k] # Nothing => seen[k].name \in Names)
    BY <1>1 DEF Waits, IInv, TypeOK
  <2>3. QED
    BY <2>1, <2>2 DEF UsersSpared, Belongs, Nothing
<1>9. OwnRemoved(k)'
  BY <1>1, <1>2, <1>4 DEF Sound, OwnRemoved, Waits
<1>10. GoalSettled(k)'
  BY <1>1, <1>3 DEF Sound, GoalSettled, Pruned, Waits
<1>11. GoalPursued(k)'
  <2>1. ASSUME NEW o \in goal[k], pc[k] \in Looking \/ Pruned(k), NEW i \in Names,
               Belongs(i, o)'
        PROVE  Belongs(i, o) /\ entries'[i] = entries[i]
    BY <1>1, <1>3, <2>1 DEF Sound, GoalSettled, Kept, Belongs
  <2>2. QED
    BY <1>1, <1>4, <2>1 DEF Sound, GoalPursued, Pruned, Waits
<1>12. QED
  BY <1>5, <1>6, <1>7, <1>8, <1>9, <1>10, <1>11 DEF Sound

(* A step that leaves the repository alone disturbs nobody but its         *)
(* himorime, unless it begins to add a worktree.                           *)
LEMMA RepositoryLeft ==
  ASSUME IInv, TypeOK', NEW h \in Himorimes, UNCHANGED repository,
         \A k \in Himorimes \ {h} : Waits(k),
         Early(h)' \/ Adding(h)' => Early(h) \/ Adding(h),
         Sound(h)'
  PROVE  IInv'
<1>1. \A o : Kept(o)
  BY DEF Kept, repository
<1>2. Settled(h) => Settled(h)'
  BY DEF Settled, repository
<1>3. dir' = dir
  BY DEF repository
<1>4. QED
  BY <1>1, <1>2, <1>3, OthersStand

(* A step of pruneOrphans.                                                 *)
LEMMA PruneNext == ASSUME IInv, TypeOK', NEW h \in Himorimes, Prune(h) PROVE IInv'
<1>1. Sound(h) /\ TypeOK
  BY DEF IInv
<1>2. CASE PruneList(h)
  <2>1. /\ pc' = [pc EXCEPT ![h] = "read"] /\ left' = [left EXCEPT ![h] = Used]
        /\ goal' = [goal EXCEPT ![h] = {entries[i].owner : i \in Orphaned}]
        /\ pc[h] = "list" /\ UNCHANGED <<repository, phase, cancelled, git, seen, failed>>
    BY <1>2 DEF PruneList, Go
  <2>2. \A k \in Himorimes \ {h} : Waits(k)
    BY <1>1, <2>1 DEF TypeOK, Waits
  <2>3. ASSUME NEW o \in goal'[h] PROVE o \in Himorimes /\ Settled(o)'
    <3>1. PICK i \in Orphaned : o = entries[i].owner
      BY <1>1, <2>1, <2>3 DEF TypeOK
    <3>2. i \in Names /\ o \in Himorimes /\ ~dir[o] /\ Recorded(i, o)
      BY <3>1 DEF Orphaned, Used, Recorded, Belongs
    <3>3. Settled(o)
      BY <3>2 DEF IInv, Sound, EntryFollows, NothingYet, Settled, Recorded
    <3>4. QED
      BY <1>1, <2>1, <3>2, <3>3 DEF Settled, Early, Adding, Looking, repository, TypeOK
  <2>4. ASSUME NEW o \in goal'[h], NEW i \in Names, Belongs(i, o)'
        PROVE  entries'[i].recorded /\ Ahead(h, i, o)'
    <3>1. PICK j \in Orphaned : o = entries[j].owner
      BY <1>1, <2>1, <2>4 DEF TypeOK
    <3>2. j \in Names /\ o \in Himorimes /\ Recorded(j, o) /\ Belongs(j, o)
      BY <3>1 DEF Orphaned, Used, Recorded, Belongs
    <3>3. Belongs(i, o)
      BY <2>1, <2>4 DEF Belongs, repository
    <3>4. i = j
      BY <3>2, <3>3 DEF IInv, Sound, EntryFollows
    <3>5. i \in left'[h]
      BY <1>1, <2>1, <3>3 DEF TypeOK, Used, Belongs
    <3>6. QED
      BY <2>1, <3>2, <3>4, <3>5 DEF Recorded, Ahead, repository
  <2>5. GoalSettled(h)' /\ GoalPursued(h)'
    BY <1>1, <2>1, <2>3, <2>4 DEF GoalSettled, GoalPursued, Pruned, TypeOK
  <2>6. OwnRemoved(h)'
    <3>1. \A i \in Names : Recorded(i, h)' => Ahead(h, i, h)'
      BY <1>1, <2>1 DEF Recorded, Belongs, Ahead, Used, TypeOK, repository
    <3>2. QED
      BY <1>1, <2>1, <3>1 DEF Sound, OwnRemoved, TypeOK, repository
  <2>7. GitFollows(h)' /\ EntryFollows(h)' /\ NothingYet(h)' /\ UsersSpared(h)'
    BY <1>1, <2>1 DEF Sound, GitFollows, EntryFollows, NothingYet, UsersSpared, Early,
       Abandoned, Adding, Looking, Belongs, Recorded, Nothing, TypeOK, repository
  <2>8. Early(h)' \/ Adding(h)' => Early(h) \/ Adding(h)
    BY <1>1, <2>1 DEF Early, Adding, TypeOK
  <2>9. QED
    BY <2>1, <2>2, <2>5, <2>6, <2>7, <2>8, RepositoryLeft DEF Sound
<1>3. CASE PruneListFails(h)
  <2>1. /\ pc[h] = "list" /\ pc' = [pc EXCEPT ![h] = AfterPrune(h)]
        /\ failed' = [failed EXCEPT ![h] = @ \/ phase[h] = "removing"]
        /\ goal' = [goal EXCEPT ![h] = {}]
        /\ UNCHANGED <<repository, phase, cancelled, git, left, seen>>
    BY <1>3 DEF PruneListFails, Go
  <2>2. \A k \in Himorimes \ {h} : Waits(k)
    BY <1>1, <2>1 DEF TypeOK, Waits
  <2>3. GoalSettled(h)' /\ GoalPursued(h)' /\ OwnRemoved(h)'
    BY <1>1, <2>1 DEF GoalSettled, GoalPursued, OwnRemoved, Pruned, Looking, AfterPrune, TypeOK
  <2>4. GitFollows(h)' /\ EntryFollows(h)' /\ NothingYet(h)' /\ UsersSpared(h)'
    BY <1>1, <2>1 DEF Sound, GitFollows, EntryFollows, NothingYet, UsersSpared, Early,
       Abandoned, Adding, Looking, Belongs, Recorded, Nothing, AfterPrune, TypeOK, repository
  <2>5. Early(h)' \/ Adding(h)' => Early(h) \/ Adding(h)
    BY <1>1, <2>1 DEF Early, Adding, AfterPrune, TypeOK
  <2>6. QED
    BY <2>1, <2>2, <2>3, <2>4, <2>5, RepositoryLeft DEF Sound
<1>4. CASE PruneRead(h)
  <2>1. PICK i \in left[h] :
          /\ left' = [left EXCEPT ![h] = @ \ {i}]
          /\ IF /\ entries[i] # NoEntry /\ entries[i].recorded
                /\ IsOwnWorktree(entries[i].owner)
             THEN /\ seen' = [seen EXCEPT ![h] = [name |-> i, owner |-> entries[i].owner]]
                  /\ pc' = [pc EXCEPT ![h] = "lstat"]
             ELSE UNCHANGED <<seen, pc>>
    BY <1>4 DEF PruneRead, Go
  <2>2. pc[h] = "read" /\ UNCHANGED <<repository, phase, cancelled, git, failed, goal>>
    BY <1>4 DEF PruneRead
  <2>3. \A k \in Himorimes \ {h} : Waits(k)
    BY <1>1, <2>1, <2>2 DEF TypeOK, Waits
  <2>4. pc'[h] \in {"read", "lstat"}
    BY <1>1, <2>1, <2>2 DEF TypeOK
  <2>5. ASSUME NEW j \in Names, NEW o \in Himorimes, Recorded(j, o), j \in left[h]
        PROVE  Ahead(h, j, o)'
    <3>1. CASE j # i
      BY <1>1, <2>1, <2>5, <3>1 DEF Ahead, TypeOK
    <3>2. CASE j = i
      <4>1. entries[i] # NoEntry /\ entries[i].recorded /\ entries[i].owner = o /\ IsOwnWorktree(o)
        BY <2>5, <3>2 DEF Recorded, Belongs, IsOwnWorktree
      <4>2. seen'[h] = [name |-> i, owner |-> o] /\ pc'[h] = "lstat"
        BY <1>1, <2>1, <4>1 DEF TypeOK
      <4>3. QED
        BY <3>2, <4>2 DEF Ahead
    <3>3. QED
      BY <3>1, <3>2
  <2>6. \A j, o : Ahead(h, j, o) => j \in left[h]
    BY <2>2 DEF Ahead
  <2>7. OwnRemoved(h)'
    <3>1. \A j \in Names : Recorded(j, h)' => Recorded(j, h)
      BY <2>2 DEF Recorded, Belongs, repository
    <3>2. QED
      BY <1>1, <2>2, <2>4, <2>5, <2>6, <3>1 DEF Sound, OwnRemoved, Looking, repository
  <2>8. GoalSettled(h)'
    BY <1>1, <2>2, <2>3, <2>4 DEF Sound, GoalSettled, Settled, Early, Adding, Pruned, Looking,
       Waits, repository
  <2>9. GoalPursued(h)'
    <3>1. ASSUME NEW o \in goal[h], NEW j \in Names, Belongs(j, o)'
          PROVE  entries'[j].recorded /\ Ahead(h, j, o)'
      <4>1. o \in Himorimes /\ Belongs(j, o) /\ entries[j].recorded /\ j \in left[h]
        BY <1>1, <2>2, <2>6, <3>1 DEF Sound, GoalSettled, GoalPursued, Looking, Belongs,
           repository
      <4>2. QED
        BY <2>2, <2>5, <4>1 DEF Recorded, repository
    <3>2. QED
      BY <2>2, <2>4, <3>1 DEF GoalPursued, Pruned
  <2>10. UsersSpared(h)'
    <3>1. CASE UNCHANGED seen
      BY <1>1, <2>2, <3>1 DEF Sound, UsersSpared, Belongs, repository, Nothing
    <3>2. CASE /\ entries[i] # NoEntry /\ IsOwnWorktree(entries[i].owner)
               /\ seen' = [seen EXCEPT ![h] = [name |-> i, owner |-> entries[i].owner]]
      <4>1. seen'[h].name = i
        BY <1>1, <3>2 DEF TypeOK
      <4>2. \A o \in Users \ Lookalikes : ~Belongs(i, o)
        BY <3>2, WorktreeAssumption DEF Belongs, IsOwnWorktree
      <4>3. QED
        BY <2>2, <4>1, <4>2 DEF UsersSpared, Belongs, repository
    <3>3. QED
      BY <2>1, <3>1, <3>2
  <2>11. GitFollows(h)' /\ EntryFollows(h)' /\ NothingYet(h)'
    BY <1>1, <2>2, <2>4 DEF Sound, GitFollows, EntryFollows, NothingYet, Early,
       Abandoned, Adding, Looking, Belongs, Recorded, repository
  <2>12. Early(h)' \/ Adding(h)' => Early(h) \/ Adding(h)
    BY <2>2 DEF Early, Adding, Looking
  <2>13. QED
    BY <2>2, <2>3, <2>7, <2>8, <2>9, <2>10, <2>11, <2>12, RepositoryLeft DEF Sound
<1>5. CASE PruneLstat(h)
  <2>1. /\ pc[h] = "lstat" /\ seen[h] # Nothing
        /\ pc' = [pc EXCEPT ![h] = IF dir[seen[h].owner] THEN "read" ELSE "unlink"]
        /\ UNCHANGED <<repository, phase, cancelled, git, pruning, failed>>
    BY <1>1, <1>5 DEF PruneLstat, Go, TypeOK
  <2>2. \A k \in Himorimes \ {h} : Waits(k)
    BY <1>1, <2>1 DEF TypeOK, Waits, pruning
  <2>3. pc'[h] = IF dir[seen[h].owner] THEN "read" ELSE "unlink"
    BY <1>1, <2>1 DEF TypeOK
  <2>4. ASSUME NEW i, NEW o, ~dir[o], Ahead(h, i, o) PROVE Ahead(h, i, o)'
    BY <2>1, <2>3, <2>4 DEF Ahead, pruning
  <2>5. OwnRemoved(h)'
    <3>1. \A i \in Names : Recorded(i, h)' => Recorded(i, h)
      BY <2>1 DEF Recorded, Belongs, repository
    <3>2. QED
      BY <1>1, <2>1, <2>3, <2>4, <3>1 DEF Sound, OwnRemoved, Looking, repository
  <2>6. GoalSettled(h)'
    BY <1>1, <2>1, <2>2, <2>3 DEF Sound, GoalSettled, Settled, Early, Adding, Pruned, Looking,
       Waits, repository, pruning
  <2>7. GoalPursued(h)'
    <3>1. ASSUME NEW o \in goal[h], NEW i \in Names, Belongs(i, o)'
          PROVE  entries'[i].recorded /\ Ahead(h, i, o)'
      <4>1. ~dir[o] /\ Belongs(i, o) /\ entries[i].recorded /\ Ahead(h, i, o)
        BY <1>1, <2>1, <3>1 DEF Sound, GoalSettled, GoalPursued, Settled, Looking, Belongs,
           repository
      <4>2. QED
        BY <2>1, <2>4, <4>1 DEF repository
    <3>2. QED
      BY <2>1, <2>3, <3>1 DEF GoalPursued, Pruned, pruning
  <2>8. /\ GitFollows(h)' /\ EntryFollows(h)' /\ NothingYet(h)' /\ UsersSpared(h)'
        /\ (Early(h)' \/ Adding(h)' => Early(h) \/ Adding(h))
    BY <1>1, <2>1, <2>3 DEF Sound, GitFollows, EntryFollows, NothingYet, UsersSpared, Early,
       Abandoned, Adding, Looking, Belongs, Recorded, Nothing, repository, pruning
  <2>9. QED
    BY <2>1, <2>2, <2>5, <2>6, <2>7, <2>8, RepositoryLeft DEF Sound
<1>6. CASE PruneUnlink(h)
  <2> DEFINE n == seen[h].name
  <2>1. /\ pc[h] = "unlink" /\ pc' = [pc EXCEPT ![h] = "read"]
        /\ seen' = [seen EXCEPT ![h] = Nothing]
        /\ UNCHANGED <<dir, phase, cancelled, git, left>>
    BY <1>6 DEF PruneUnlink, Go
  <2>2. \/ entries' = [entries EXCEPT ![n] = NoEntry] /\ UNCHANGED <<failed, goal>>
        \/ /\ UNCHANGED entries
           /\ failed' = [failed EXCEPT ![h] = @ \/ phase[h] = "removing"]
           /\ goal' = [goal EXCEPT ![h] = @ \ {seen[h].owner}]
    BY <1>6 DEF PruneUnlink
  <2>3. n \in Names /\ seen[h] \in [name : Names, owner : Owners]
    BY <1>1, <2>1 DEF TypeOK
  <2>4. \A k \in Himorimes \ {h} : Waits(k)
    BY <1>1, <2>1, <2>2 DEF TypeOK, Waits
  <2>5. \A i \in Names : entries'[i] = entries[i] \/ entries'[i] = NoEntry
    BY <1>1, <2>2, <2>3 DEF TypeOK
  <2>6. \A o : Kept(o)
    BY <2>5 DEF Kept, Belongs
  <2>7. \A i \in Names : /\ Belongs(i, h)' => Belongs(i, h)
                         /\ Recorded(i, h)' => Recorded(i, h) /\ Belongs(i, h)'
    BY <2>5 DEF Belongs, Recorded
  <2>8. pc'[h] = "read" /\ seen'[h] = Nothing /\ goal'[h] \subseteq goal[h]
    BY <1>1, <2>1, <2>2 DEF TypeOK
  <2>9. ASSUME NEW i \in Names, NEW o \in Himorimes, Belongs(i, o)', Ahead(h, i, o),
               \/ o \in goal'[h]
               \/ o = h /\ phase[h] = "removing" /\ ~failed'[h]
        PROVE  i \in left'[h]
    <3>1. CASE entries' = [entries EXCEPT ![n] = NoEntry]
      <4>1. i # n
        BY <1>1, <2>3, <2>9, <3>1 DEF Belongs, TypeOK
      <4>2. QED
        BY <2>1, <2>9, <4>1 DEF Ahead
    <3>2. CASE /\ failed' = [failed EXCEPT ![h] = @ \/ phase[h] = "removing"]
               /\ goal' = [goal EXCEPT ![h] = @ \ {seen[h].owner}]
      <4>1. seen[h] # [name |-> i, owner |-> o]
        <5>1. CASE o \in goal'[h]
          BY <1>1, <3>2, <5>1 DEF TypeOK
        <5>2. CASE phase[h] = "removing" /\ ~failed'[h]
          BY <1>1, <3>2, <5>2 DEF TypeOK
        <5>3. QED
          BY <2>9, <5>1, <5>2
      <4>2. QED
        BY <2>1, <2>9, <4>1 DEF Ahead
    <3>3. QED
      BY <2>2, <3>1, <3>2
  <2>10. OwnRemoved(h)'
    <3>1. phase'[h] = "removing" /\ ~failed'[h] => phase[h] = "removing" /\ ~failed[h]
      BY <1>1, <2>1, <2>2 DEF TypeOK
    <3>2. QED
      BY <1>1, <2>1, <2>7, <2>8, <2>9, <3>1 DEF Sound, OwnRemoved, Looking, Ahead
  <2>11. GoalSettled(h)'
    BY <1>1, <2>1, <2>4, <2>8 DEF Sound, GoalSettled, Settled, Early, Adding, Pruned, Looking,
       Waits
  <2>12. GoalPursued(h)'
    <3>1. ASSUME NEW o \in goal'[h], NEW i \in Names, Belongs(i, o)'
          PROVE  entries'[i].recorded /\ Ahead(h, i, o)'
      <4>1. o \in goal[h] /\ o \in Himorimes
        BY <1>1, <2>1, <2>8, <3>1 DEF Sound, GoalSettled, Looking
      <4>2. Belongs(i, o) /\ entries'[i] = entries[i]
        BY <2>5, <3>1 DEF Belongs
      <4>3. entries[i].recorded /\ Ahead(h, i, o)
        BY <1>1, <2>1, <4>1, <4>2 DEF Sound, GoalPursued, Looking
      <4>4. QED
        BY <2>9, <3>1, <4>1, <4>2, <4>3 DEF Ahead
    <3>2. QED
      BY <2>8, <3>1 DEF GoalPursued, Pruned
  <2>13. GitFollows(h)' /\ UsersSpared(h)' /\ EntryFollows(h)' /\ NothingYet(h)'
    <3>1. GitFollows(h)' /\ UsersSpared(h)'
      BY <1>1, <2>1, <2>8 DEF Sound, GitFollows, UsersSpared
    <3>2. EntryFollows(h)'
      BY <1>1, <2>1, <2>7 DEF Sound, EntryFollows, Adding
    <3>3. NothingYet(h)'
      BY <1>1, <2>1, <2>7, <2>8 DEF Sound, NothingYet, Early, Abandoned, Looking
    <3>4. QED
      BY <3>1, <3>2, <3>3
  <2>14. Settled(h) => Settled(h)'
    BY <2>1, <2>8 DEF Settled, Early, Adding, Looking
  <2>15. QED
    BY <2>1, <2>4, <2>6, <2>10, <2>11, <2>12, <2>13, <2>14, OthersStand DEF Sound
<1>7. CASE PruneEnds(h)
  <2>1. /\ pc[h] = "read" /\ left[h] = {} /\ pc' = [pc EXCEPT ![h] = AfterPrune(h)]
        /\ UNCHANGED <<repository, phase, cancelled, git, pruning, failed>>
    BY <1>7 DEF PruneEnds, Go
  <2>2. \A k \in Himorimes \ {h} : Waits(k)
    BY <1>1, <2>1 DEF TypeOK, Waits, pruning
  <2>3. pc'[h] = AfterPrune(h) /\ \A i, o : ~Ahead(h, i, o)
    BY <1>1, <2>1 DEF TypeOK, Ahead
  <2>4. OwnRemoved(h)'
    <3>1. \A i \in Names : Recorded(i, h)' => Recorded(i, h)
      BY <2>1 DEF Recorded, Belongs, repository
    <3>2. QED
      BY <1>1, <2>1, <2>3, <3>1 DEF Sound, OwnRemoved, Looking, AfterPrune, repository
  <2>5. GoalSettled(h)'
    BY <1>1, <2>1, <2>2, <2>3 DEF Sound, GoalSettled, Settled, Early, Adding, Pruned, Looking,
       Waits, AfterPrune, repository, pruning
  <2>6. GoalPursued(h)'
    BY <1>1, <2>1, <2>3 DEF Sound, GoalPursued, Belongs, Pruned, Looking, AfterPrune,
       repository, pruning
  <2>7. /\ GitFollows(h)' /\ EntryFollows(h)' /\ NothingYet(h)' /\ UsersSpared(h)'
        /\ (Early(h)' \/ Adding(h)' => Early(h) \/ Adding(h))
    BY <1>1, <2>1, <2>3 DEF Sound, GitFollows, EntryFollows, NothingYet, UsersSpared, Early,
       Abandoned, Adding, Looking, Belongs, Recorded, Nothing, AfterPrune, TypeOK, repository,
       pruning
  <2>8. QED
    BY <2>1, <2>2, <2>4, <2>5, <2>6, <2>7, RepositoryLeft DEF Sound
<1>8. QED
  BY <1>2, <1>3, <1>4, <1>5, <1>6, <1>7 DEF Prune

(* A step of AddWorktree after pruning, or of settleIndex.                 *)
LEMMA AddNext == ASSUME IInv, TypeOK', NEW h \in Himorimes, Add(h) PROVE IInv'
<1> USE DEF GitFollows, EntryFollows, NothingYet, Early, Abandoned, Adding, Looking, Pruned
<1>1. Sound(h) /\ TypeOK
  BY DEF IInv
<1>2. UNCHANGED repository /\ UNCHANGED <<left, seen, goal, failed>>
  BY DEF Add, Begin, MakeParent, AddReturns, Settle, Measured, pruning
<1>3. \A i \in Names : (Belongs(i, h)' <=> Belongs(i, h)) /\ (Recorded(i, h)' <=> Recorded(i, h))
  BY <1>2 DEF Belongs, Recorded, repository
<1>4. UsersSpared(h)'
  BY <1>1, <1>2 DEF Sound, UsersSpared, Belongs, Nothing, repository
<1>5. \A k \in Himorimes \ {h} : Waits(k)
  BY <1>1, <1>2 DEF Add, Begin, MakeParent, AddReturns, Settle, Measured, Go, Waits, TypeOK
<1>6. CASE Begin(h)
  <2>1. pc[h] = "idle" /\ pc'[h] = "list" /\ UNCHANGED <<phase, git>>
    BY <1>1, <1>6 DEF Begin, Go, TypeOK
  <2>2. GitFollows(h)' /\ EntryFollows(h)' /\ NothingYet(h)'
    BY <1>1, <1>2, <1>3, <2>1 DEF Sound, repository
  <2>3. OwnRemoved(h)' /\ GoalSettled(h)' /\ GoalPursued(h)'
    BY <1>1, <1>2, <2>1, <2>2 DEF Sound, OwnRemoved, GoalSettled, GoalPursued, repository
  <2>4. QED
    BY <1>2, <1>4, <1>5, <2>1, <2>2, <2>3, RepositoryLeft DEF Sound
<1>7. CASE MakeParent(h)
  <2>1. phase[h] = "adding" /\ git[h] = "none" /\ pc[h] = "mkdir"
    BY <1>1, <1>7 DEF MakeParent, Sound
  <2>2. \/ pc'[h] = "exit" /\ UNCHANGED <<git, phase>>
        \/ pc'[h] = "stat" /\ phase'[h] = "removing" /\ UNCHANGED git
        \/ pc'[h] = "add" /\ git'[h] = "entry" /\ UNCHANGED phase
    BY <1>1, <1>7 DEF MakeParent, Go, TypeOK
  <2>3. GitFollows(h)' /\ EntryFollows(h)'
    BY <1>1, <1>3, <2>1, <2>2 DEF Sound, Recorded
  <2>4. NothingYet(h)'
    BY <1>1, <1>2, <1>3, <2>1, <2>2 DEF Sound, repository
  <2>5. OwnRemoved(h)'
    BY <2>1, <2>2 DEF OwnRemoved
  <2>6. GoalSettled(h)'
    <3>1. ASSUME NEW o \in goal[h] PROVE o \in Himorimes /\ Settled(o)'
      <4>1. o \in Himorimes \ {h} /\ Settled(o)
        BY <1>1, <2>1, <3>1 DEF Sound, GoalSettled, Settled
      <4>2. QED
        BY <1>2, <1>5, <4>1 DEF Settled, Waits, repository
    <3>2. QED
      BY <1>2, <3>1 DEF GoalSettled
  <2>7. GoalPursued(h)'
    BY <1>1, <1>2, <2>1, <2>2 DEF Sound, GoalPursued, Belongs, repository
  <2>8. QED
    BY <1>2, <1>4, <1>5, <2>1, <2>3, <2>4, <2>5, <2>6, <2>7, RepositoryLeft DEF Sound
<1>8. CASE AddReturns(h) \/ Settle(h) \/ Measured(h)
  <2>1. /\ pc[h] \in {"add", "settle", "ready"}
        /\ \/ pc'[h] \in {"settle", "ready"} /\ phase'[h] = phase[h]
           \/ pc'[h] = "stat" /\ phase'[h] = "removing"
        /\ git'[h] = "none"
    BY <1>1, <1>8 DEF AddReturns, Settle, Measured, Go, TypeOK
  <2>2. GitFollows(h)' /\ EntryFollows(h)' /\ NothingYet(h)'
    BY <1>1, <1>3, <2>1 DEF Sound
  <2>3. OwnRemoved(h)' /\ GoalSettled(h)' /\ GoalPursued(h)'
    BY <2>1 DEF OwnRemoved, GoalSettled, GoalPursued
  <2>4. QED
    BY <1>2, <1>4, <1>5, <2>1, <2>2, <2>3, RepositoryLeft DEF Sound
<1>9. QED
  BY <1>6, <1>7, <1>8 DEF Add

(* A step of Remove, or the end of the invocation.                         *)
LEMMA RemoveNext == ASSUME IInv, TypeOK', NEW h \in Himorimes, Remove(h) PROVE IInv'
<1> USE DEF GitFollows, EntryFollows, NothingYet, Early, Abandoned, Adding, Looking, Pruned
<1>1. Sound(h) /\ TypeOK
  BY DEF IInv
<1>2. UNCHANGED <<entries, phase, left, seen, goal>>
  BY DEF Remove, RemoveStats, RemoveReturns, RemoveTree, Exit, repository, pruning
<1>3. \A i \in Names : (Belongs(i, h)' <=> Belongs(i, h)) /\ (Recorded(i, h)' <=> Recorded(i, h))
  BY <1>2 DEF Belongs, Recorded
<1>4. UsersSpared(h)'
  BY <1>1, <1>2 DEF Sound, UsersSpared, Belongs, Nothing
<1>5. \A k \in Himorimes \ {h} : Waits(k) /\ (dir'[k] => dir[k])
  <2>1. \A k \in Himorimes \ {h} : pc'[k] = pc[k] /\ git'[k] = git[k]
    BY <1>1 DEF Remove, RemoveStats, RemoveReturns, RemoveTree, Exit, Go, TypeOK
  <2>2. \A k \in Himorimes \ {h} : failed'[k] = failed[k] /\ dir'[k] = dir[k]
    BY <1>1 DEF Remove, RemoveStats, RemoveReturns, RemoveTree, Exit, TypeOK, Owners,
       repository
  <2>3. QED
    BY <1>2, <2>1, <2>2 DEF Waits
<1>6. /\ dir'[h] => dir[h]
      /\ \A o : Kept(o)
  BY <1>1, <1>2 DEF Remove, RemoveStats, RemoveReturns, RemoveTree, Exit, TypeOK, repository,
     Kept
<1>7. CASE RemoveStats(h) \/ RemoveReturns(h)
  <2>1. \/ pc[h] = "stat" /\ pc'[h] = "gitrm" /\ git'[h] = "rmdir"
        \/ pc[h] = "stat" /\ pc'[h] = "rmtree" /\ git'[h] = git[h]
        \/ pc[h] = "gitrm" /\ pc'[h] = "rmtree" /\ git'[h] = "none"
    BY <1>1, <1>7 DEF RemoveStats, RemoveReturns, Go, TypeOK
  <2>2. GitFollows(h)' /\ EntryFollows(h)' /\ NothingYet(h)'
    BY <1>1, <1>2, <1>3, <2>1 DEF Sound
  <2>3. OwnRemoved(h)' /\ GoalSettled(h)' /\ GoalPursued(h)'
    BY <2>1 DEF OwnRemoved, GoalSettled, GoalPursued
  <2>4. Settled(h) => Settled(h)'
    BY <1>1, <1>2, <1>6, <2>1 DEF Sound, Settled
  <2>5. QED
    BY <1>4, <1>5, <1>6, <2>2, <2>3, <2>4, OthersStand DEF Sound
<1>8. CASE RemoveTree(h)
  <2>1. /\ pc[h] = "rmtree" /\ pc'[h] = "list" /\ git'[h] = "none"
        /\ ~dir'[h] \/ failed'[h]
    <3>1. pc[h] = "rmtree" /\ pc'[h] = "list" /\ git'[h] = git[h]
      BY <1>1, <1>8 DEF RemoveTree, Go, TypeOK
    <3>2. ~dir'[h] \/ failed'[h]
      BY <1>1, <1>8 DEF RemoveTree, TypeOK, Owners
    <3>3. QED
      BY <1>1, <3>1, <3>2 DEF Sound
  <2>2. OwnRemoved(h)' /\ GoalSettled(h)' /\ GoalPursued(h)'
    BY <2>1 DEF OwnRemoved, GoalSettled, GoalPursued
  <2>3. GitFollows(h)' /\ EntryFollows(h)' /\ NothingYet(h)'
    BY <1>1, <1>2, <1>3, <2>1 DEF Sound
  <2>4. Settled(h) => Settled(h)'
    BY <1>1, <1>2, <1>6, <2>1 DEF Sound, Settled
  <2>5. QED
    BY <1>4, <1>5, <1>6, <2>2, <2>3, <2>4, OthersStand DEF Sound
<1>9. CASE Exit(h)
  <2>1. /\ pc[h] = "exit" /\ pc'[h] = "gone" /\ git'[h] = "none"
        /\ \/ ~dir'[h] /\ failed'[h] = failed[h]
           \/ failed'[h]
    <3>1. pc[h] = "exit" /\ pc'[h] = "gone" /\ git'[h] = git[h]
      BY <1>1, <1>9 DEF Exit, Go, TypeOK
    <3>2. \/ ~dir'[h] /\ failed'[h] = failed[h]
          \/ failed'[h]
      BY <1>1, <1>9 DEF Exit, TypeOK, Owners
    <3>3. QED
      BY <1>1, <3>1, <3>2 DEF Sound
  <2>2. OwnRemoved(h)'
    BY <1>1, <1>2, <1>3, <1>6, <2>1 DEF Sound, OwnRemoved
  <2>3. GoalSettled(h)' /\ GoalPursued(h)'
    BY <2>1 DEF GoalSettled, GoalPursued
  <2>4. GitFollows(h)' /\ EntryFollows(h)' /\ NothingYet(h)'
    BY <1>1, <1>2, <1>3, <1>6, <2>1 DEF Sound
  <2>5. Settled(h) => Settled(h)'
    BY <1>2, <1>6, <2>1 DEF Settled
  <2>6. QED
    BY <1>4, <1>5, <1>6, <2>2, <2>3, <2>4, <2>5, OthersStand DEF Sound
<1>10. QED
  BY <1>7, <1>8, <1>9 DEF Remove

(* A step of the git process of a himorime, which the himorime may have    *)
(* left behind.                                                            *)
LEMMA GitNext == ASSUME IInv, TypeOK', NEW h \in Himorimes, Git(h) PROVE IInv'
<1> USE DEF GitFollows, EntryFollows, NothingYet, Early, Abandoned, Adding, Looking, Pruned
<1>1. Sound(h) /\ TypeOK
  BY DEF IInv
<1>2. UNCHANGED <<pc, phase, failed, left, seen, goal>>
  BY DEF Git, GitMakesEntry, GitMakesDir, GitRecords, GitAddFails, GitKilled, GitRemoves, pruning
<1>3. git[h] # "none" /\ pc[h] \in {"add", "gitrm", "dead"}
  BY <1>1 DEF Git, GitMakesEntry, GitMakesDir, GitRecords, GitAddFails, GitKilled, GitRemoves,
     Sound
<1>4. \A k \in Himorimes \ {h} : Waits(k) /\ (dir'[k] => dir[k])
  <2>1. \A k \in Himorimes \ {h} : git'[k] = git[k]
    BY <1>1 DEF Git, GitMakesEntry, GitMakesDir, GitRecords, GitAddFails, GitKilled,
       GitRemoves, TypeOK
  <2>2. \A k \in Himorimes \ {h} : dir'[k] = dir[k]
    BY <1>1 DEF Git, GitMakesEntry, GitMakesDir, GitRecords, GitAddFails, GitKilled,
       GitRemoves, TypeOK, Owners, repository
  <2>3. QED
    BY <1>2, <2>1, <2>2 DEF Waits
<1>5. OwnRemoved(h)' /\ GoalSettled(h)' /\ GoalPursued(h)' /\ NothingYet(h)' /\ GitFollows(h)'
  BY <1>1, <1>2, <1>3 DEF OwnRemoved, GoalSettled, GoalPursued, Sound
<1>6. ASSUME \A o \in (Himorimes \ {h}) \cup Users : Kept(o) PROVE UsersSpared(h)'
  <2>1. ASSUME NEW o \in Users \ Lookalikes, NEW i \in Names, seen[h] # Nothing, seen[h].name = i
        PROVE  ~Belongs(i, o)'
    <3>1. ~Belongs(i, o) /\ Kept(o)
      BY <1>1, <1>6, <2>1 DEF Sound, UsersSpared
    <3>2. QED
      BY <3>1 DEF Kept, Belongs
  <2>2. seen' = seen /\ (seen[h] # Nothing => seen[h].name \in Names)
    BY <1>1, <1>2 DEF TypeOK
  <2>3. QED
    BY <2>1, <2>2 DEF UsersSpared, Belongs, Nothing
<1>7. CASE GitMakesEntry(h)
  <2>1. PICK i \in Names :
          entries[i] = NoEntry /\ entries' = [entries EXCEPT ![i] = [owner |-> h, recorded |-> FALSE]]
    BY <1>7 DEF GitMakesEntry
  <2>2. git[h] = "entry" /\ git'[h] = "dir" /\ dir' = dir
    BY <1>1, <1>7 DEF GitMakesEntry, TypeOK
  <2>3. \A j \in Names : j # i => entries'[j] = entries[j]
    BY <1>1, <2>1 DEF TypeOK
  <2>4. entries'[i] = [owner |-> h, recorded |-> FALSE]
    BY <1>1, <2>1 DEF TypeOK
  <2>5. \A o \in (Himorimes \ {h}) \cup Users : Kept(o)
    BY <2>3, <2>4, WorktreeAssumption DEF Kept, Belongs
  <2>6. EntryFollows(h)'
    <3>1. \A j \in Names : Belongs(j, h)' => j = i
      BY <1>1, <2>2, <2>3 DEF Sound, Belongs
    <3>2. \A j \in Names : ~Recorded(j, h)'
      BY <2>4, <3>1 DEF Recorded, Belongs
    <3>3. QED
      BY <2>2, <3>1, <3>2
  <2>7. ~Settled(h)
    BY <2>2 DEF Settled
  <2>8. QED
    BY <1>4, <1>5, <1>6, <2>5, <2>6, <2>7, OthersStand DEF Sound
<1>8. CASE GitMakesDir(h)
  <2>1. git[h] = "dir" /\ git'[h] = "record" /\ entries' = entries
    BY <1>1, <1>8 DEF GitMakesDir, TypeOK
  <2>2. \A o : Kept(o)
    BY <2>1 DEF Kept
  <2>3. EntryFollows(h)'
    BY <1>1, <2>1 DEF Sound, Belongs, Recorded
  <2>4. ~Settled(h)
    BY <2>1 DEF Settled
  <2>5. QED
    BY <1>4, <1>5, <1>6, <2>2, <2>3, <2>4, OthersStand DEF Sound
<1>9. CASE GitRecords(h)
  <2>1. git[h] = "record" /\ git'[h] = "done"
    BY <1>1, <1>9 DEF GitRecords, TypeOK
  <2>2. \A i \in Names : IF Belongs(i, h) THEN entries'[i] = [entries[i] EXCEPT !.recorded = TRUE]
                                       ELSE entries'[i] = entries[i]
    BY <1>9 DEF GitRecords, Belongs
  <2>3. \A i \in Names : Belongs(i, h) => entries'[i].owner = h
    BY <1>1, <2>2 DEF Belongs, TypeOK, Entry
  <2>4. \A o \in (Himorimes \ {h}) \cup Users : Kept(o)
    BY <2>2, <2>3, WorktreeAssumption DEF Kept, Belongs
  <2>5. \A i \in Names : Belongs(i, h)' => Belongs(i, h)
    BY <2>2 DEF Belongs
  <2>6. EntryFollows(h)'
    BY <1>1, <2>1, <2>5 DEF Sound
  <2>7. ~Settled(h)
    BY <2>1 DEF Settled
  <2>8. QED
    BY <1>4, <1>5, <1>6, <2>4, <2>6, <2>7, OthersStand DEF Sound
<1>10. CASE GitAddFails(h) \/ GitKilled(h) \/ GitRemoves(h)
  <2>1. /\ \A i \in Names : entries'[i] = entries[i] \/ entries'[i] = NoEntry
        /\ git'[h] \in {"failed", "rmentry", "done"} /\ (dir'[h] => dir[h])
    BY <1>1, <1>10 DEF GitAddFails, GitKilled, GitRemoves, TypeOK, repository
  <2>2. \A o : Kept(o)
    BY <2>1 DEF Kept, Belongs
  <2>3. \A i \in Names : Belongs(i, h)' => Belongs(i, h)
    BY <2>1 DEF Belongs
  <2>4. EntryFollows(h)'
    BY <1>1, <2>1, <2>3 DEF Sound
  <2>5. Settled(h) => Settled(h)'
    BY <1>2, <2>1 DEF Settled
  <2>6. QED
    BY <1>4, <1>5, <1>6, <2>2, <2>4, <2>5, OthersStand DEF Sound
<1>11. QED
  BY <1>7, <1>8, <1>9, <1>10 DEF Git

(* A himorime is interrupted or killed, or its temporary directory is      *)
(* cleared.                                                                *)
LEMMA ProcessNext ==
  ASSUME IInv, TypeOK', NEW h \in Himorimes, Interrupt(h) \/ Kill(h) \/ TempCleared(h)
  PROVE  IInv'
<1> USE DEF GitFollows, EntryFollows, NothingYet, Early, Abandoned, Adding, Looking, Pruned
<1>1. Sound(h) /\ TypeOK
  BY DEF IInv
<1>2. UNCHANGED <<entries, phase, git, left, seen, goal, failed>>
  BY DEF Interrupt, Kill, TempCleared, repository, pruning
<1>3. \A i \in Names : (Belongs(i, h)' <=> Belongs(i, h)) /\ (Recorded(i, h)' <=> Recorded(i, h))
  BY <1>2 DEF Belongs, Recorded
<1>4. UsersSpared(h)'
  BY <1>1, <1>2 DEF Sound, UsersSpared, Belongs, Nothing
<1>5. EntryFollows(h)'
  BY <1>1, <1>2, <1>3 DEF Sound
<1>6. \A o : Kept(o)
  BY <1>2 DEF Kept
<1>7. \A k \in Himorimes \ {h} : Waits(k) /\ (dir'[k] => dir[k])
  <2>1. \A k \in Himorimes \ {h} : pc'[k] = pc[k]
    BY <1>1 DEF Interrupt, Kill, TempCleared, Go, TypeOK
  <2>2. \A k \in Himorimes \ {h} : dir'[k] = dir[k]
    BY <1>1 DEF Interrupt, Kill, TempCleared, TypeOK, Owners, repository
  <2>3. QED
    BY <1>2, <2>1, <2>2 DEF Waits
<1>8. CASE Interrupt(h)
  <2>1. UNCHANGED <<pc, dir>>
    BY <1>8 DEF Interrupt, repository
  <2>2. \A o : Settled(o)' <=> Settled(o)
    BY <1>2, <2>1 DEF Settled
  <2>3. GitFollows(h)' /\ NothingYet(h)' /\ OwnRemoved(h)'
    BY <1>1, <1>2, <1>3, <2>1 DEF Sound, OwnRemoved, Ahead
  <2>4. GoalSettled(h)'
    BY <1>1, <1>2, <2>1, <2>2 DEF Sound, GoalSettled
  <2>5. GoalPursued(h)'
    BY <1>1, <1>2, <2>1 DEF Sound, GoalPursued, Ahead, Belongs
  <2>6. QED
    BY <1>4, <1>5, <1>6, <1>7, <2>2, <2>3, <2>4, <2>5, OthersStand DEF Sound
<1>9. CASE Kill(h) \/ TempCleared(h)
  <2>1. pc'[h] = "dead" /\ (dir'[h] => dir[h])
    BY <1>1, <1>9 DEF Kill, TempCleared, Go, TypeOK, repository, Owners
  <2>2. GitFollows(h)' /\ NothingYet(h)' /\ OwnRemoved(h)' /\ GoalSettled(h)' /\ GoalPursued(h)'
    BY <2>1 DEF OwnRemoved, GoalSettled, GoalPursued
  <2>3. Settled(h) => Settled(h)'
    BY <1>2, <2>1 DEF Settled
  <2>4. QED
    BY <1>4, <1>5, <1>6, <1>7, <2>2, <2>3, OthersStand DEF Sound
<1>10. QED
  BY <1>8, <1>9

(* The user mounts or unmounts a disk, or adds a worktree.                 *)
LEMMA UserNext ==
  ASSUME IInv, TypeOK', NEW u \in Users \cup NewUsers, Mount(u) \/ (u \in NewUsers /\ UserAdds(u))
  PROVE  IInv'
<1>1. TypeOK /\ u \notin Himorimes
  BY WorktreeAssumption DEF IInv
<1>2. UNCHANGED <<pc, phase, git, left, seen, goal, failed>>
  BY DEF Mount, UserAdds, pruning
<1>3. \A k \in Himorimes \ {u} : Waits(k) /\ (dir'[k] => dir[k])
  BY <1>1, <1>2 DEF Mount, UserAdds, Waits, TypeOK, Owners
<1>4. \A o \in Himorimes \cup Users : Kept(o)
  <2>1. CASE Mount(u)
    BY <2>1 DEF Mount, Kept
  <2>2. CASE u \in NewUsers /\ UserAdds(u)
    <3>1. PICK i \in Names : entries' = [entries EXCEPT ![i] = [owner |-> u, recorded |-> TRUE]]
      BY <2>2 DEF UserAdds
    <3>2. u \notin Himorimes \cup Users
      BY <2>2, WorktreeAssumption
    <3>3. QED
      BY <1>1, <3>1, <3>2 DEF Kept, Belongs, TypeOK
  <2>3. QED
    BY <2>1, <2>2
<1>5. QED
  BY <1>1, <1>3, <1>4, OthersStand

(* It holds when the first himorime begins.                                *)
LEMMA IInvInit == Init => IInv
<1> SUFFICES ASSUME Init PROVE IInv
  OBVIOUS
<1>1. TypeOK
  <2>1. entries \in [Names -> Entry \cup {NoEntry}]
    BY DEF Init, Entry, Owners
  <2>2. QED
    BY <2>1 DEF Init, TypeOK
<1>2. ASSUME NEW h \in Himorimes PROVE Sound(h)
  <2>1. /\ pc[h] = "idle" /\ phase[h] = "adding" /\ git[h] = "none" /\ seen[h] = Nothing
        /\ ~dir[h]
    BY WorktreeAssumption DEF Init, Owners
  <2>2. \A i \in Names : ~Belongs(i, h)
    BY WorktreeAssumption DEF Init, Belongs
  <2>3. QED
    BY <2>1, <2>2 DEF Sound, GitFollows, EntryFollows, NothingYet, UsersSpared, OwnRemoved,
       GoalSettled, GoalPursued, Early, Abandoned, Adding, Looking, Pruned
<1>3. QED
  BY <1>1, <1>2 DEF IInv

(* Every step keeps it.                                                    *)
LEMMA IInvNext == IInv /\ [Next]_vars => IInv'
<1> SUFFICES ASSUME IInv, [Next]_vars PROVE IInv'
  OBVIOUS
<1>1. TypeOK'
  BY TypeNext DEF IInv
<1>2. CASE Next
  BY <1>1, <1>2, PruneNext, AddNext, RemoveNext, GitNext, ProcessNext, UserNext DEF Next
<1>3. CASE UNCHANGED vars
  <2>1. ASSUME NEW h \in Himorimes PROVE Sound(h)'
    BY <1>3 DEF IInv, Sound, GitFollows, EntryFollows, NothingYet, UsersSpared, OwnRemoved,
       GoalSettled, GoalPursued, Early, Abandoned, Adding, Looking, Pruned, Settled, Ahead,
       Belongs, Recorded, Nothing, vars, repository, pruning
  <2>2. QED
    BY <1>1, <2>1 DEF IInv
<1>4. QED
  BY <1>2, <1>3

-----------------------------------------------------------------------------
(* What each himorime and the repository can be, at every moment: gitwt.   *)
THEOREM WorktreeInvariant == Spec => []IInv
<1>1. QED
  BY IInvInit, IInvNext, PTL DEF Spec

(* A himorime that was not killed, and had nothing fail while it removed   *)
(* its worktree, leaves neither the directory nor an entry that names it:  *)
(* AddWorktree and Remove of gitwt.                                        *)
THEOREM LeavesNothing == Spec => []LeavesNoWorktree
<1>1. IInv => LeavesNoWorktree
  <2> SUFFICES ASSUME IInv PROVE LeavesNoWorktree
    OBVIOUS
  <2>1. ASSUME NEW h \in Himorimes, pc[h] = "gone", ~failed[h]
        PROVE  ~dir[h] /\ \A i \in Names : ~Recorded(i, h)
    <3>1. phase[h] \in {"adding", "removing"} /\ Sound(h)
      BY DEF IInv, TypeOK
    <3>2. QED
      BY <2>1, <3>1 DEF Sound, NothingYet, OwnRemoved, Abandoned, Recorded
  <2>2. QED
    BY <2>1 DEF LeavesNoWorktree, Used, Recorded, Belongs, IInv
<1>2. QED
  BY <1>1, WorktreeInvariant, PTL

(* The pruning of a comparison clears whatever killed himorimes had left   *)
(* when it began, unless removing an entry fails: pruneOrphans.            *)
THEOREM OrphansGone == Spec => []OrphansCleared
<1>1. IInv => OrphansCleared
  BY DEF IInv, Sound, GoalPursued, Pruned, OrphansCleared, Used, Belongs
<1>2. QED
  BY <1>1, WorktreeInvariant, PTL

(* No step touches the entry of a worktree which the user had from the     *)
(* beginning, when none of these looks like himorime's: pruneOrphans       *)
(* removes an entry by a name that it read before.                         *)
THEOREM UsersEntriesLast ==
  ASSUME Users \cap Lookalikes = {}
  PROVE  Spec => LastingEntriesUntouched
<1> DEFINE Untouched == \A i \in Names : entries[i] # NoEntry /\ entries[i].owner \in Users
                          => entries'[i] = entries[i]
<1>1. IInv /\ [Next]_vars => [Untouched]_vars
  <2> SUFFICES ASSUME IInv, Next, NEW i \in Names, entries[i] # NoEntry, entries[i].owner \in Users
               PROVE  entries'[i] = entries[i]
    BY DEF vars, repository
  <2> USE DEF IInv, TypeOK
  <2>1. ASSUME NEW h \in Himorimes, Prune(h) PROVE entries'[i] = entries[i]
    <3>1. CASE PruneUnlink(h)
      <4>1. seen[h] # Nothing /\ seen[h].name \in Names /\ UsersSpared(h)
        BY <3>1 DEF PruneUnlink, Sound
      <4>2. seen[h].name # i
        BY <4>1 DEF UsersSpared, Belongs
      <4>3. QED
        BY <3>1, <4>1, <4>2 DEF PruneUnlink
    <3>2. QED
      BY <2>1, <3>1 DEF Prune, PruneList, PruneListFails, PruneRead, PruneLstat, PruneEnds,
         repository
  <2>2. ASSUME NEW h \in Himorimes, Git(h) PROVE entries'[i] = entries[i]
    BY <2>2, WorktreeAssumption DEF Git, GitMakesEntry, GitMakesDir, GitRecords, GitAddFails,
       GitKilled, GitRemoves, repository
  <2>3. ASSUME NEW h \in Himorimes,
               Add(h) \/ Remove(h) \/ Interrupt(h) \/ Kill(h) \/ TempCleared(h)
        PROVE  entries'[i] = entries[i]
    BY <2>3 DEF Add, Begin, MakeParent, AddReturns, Settle, Measured, Remove, RemoveStats,
       RemoveReturns, RemoveTree, Exit, Interrupt, Kill, TempCleared, repository
  <2>4. ASSUME NEW u, Mount(u) \/ UserAdds(u) PROVE entries'[i] = entries[i]
    BY <2>4 DEF Mount, UserAdds
  <2>5. QED
    BY <2>1, <2>2, <2>3, <2>4 DEF Next
<1>2. QED
  BY <1>1, WorktreeInvariant, PTL DEF Spec, LastingEntriesUntouched
=============================================================================
