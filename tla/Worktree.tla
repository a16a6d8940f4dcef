------------------------------- MODULE Worktree -----------------------------
(***************************************************************************)
(* The base worktrees of comparisons (package gitwt) in one repository of  *)
(* the user.  Several himorimes add and remove theirs at the same time;    *)
(* any of them may be interrupted or killed at any step, and what a killed *)
(* one leaves is pruned by a later one.                                    *)
(*                                                                         *)
(* A worktree is known by its owner: a himorime or one of the user's       *)
(* worktrees.  The repository's .git/worktrees maps names to entries; git  *)
(* names an entry after the last element of the worktree's path, which is  *)
(* "tree" for each of himorime's, and numbers what would collide.          *)
(***************************************************************************)
EXTENDS Naturals, FiniteSets

CONSTANTS
  Himorimes,   \* invocations of compare
  Users,       \* worktrees of the user that exist from the beginning
  NewUsers,    \* worktrees named "tree" which the user may add
  Lookalikes,  \* worktrees of the user whose path is shaped like himorime's
  MaxName,     \* entry names are 0..MaxName
  NoEntry,     \* a free name
  Faults       \* what may go wrong: see FaultKinds

(* "git": a git command fails; "mkdir": a directory cannot be made; "rm":  *)
(* a tree or an entry cannot be removed.                                   *)
FaultKinds == {"git", "mkdir", "rm"}

ASSUME WorktreeAssumption ==
  /\ Himorimes \cap (Users \cup NewUsers) = {} /\ Users \cap NewUsers = {}
  /\ Lookalikes \subseteq Users \cup NewUsers
  /\ MaxName \in Nat /\ Faults \subseteq FaultKinds

Names == 0..MaxName
Owners == Himorimes \cup Users \cup NewUsers
Entry == [owner : Owners, recorded : BOOLEAN]

ASSUME NoEntryAssumption == NoEntry \notin Entry

VARIABLES
  entries,   \* .git/worktrees; recorded: its file gitdir was written
  dir,       \* does the directory of a worktree exist?
  pc,        \* where each himorime is
  phase,     \* is it adding its worktree or removing it?
  cancelled, \* is its context canceled?
  git,       \* the git process it runs on its worktree
  left,      \* pruneOrphans: the entries still to be looked at
  seen,      \* pruneOrphans: the name and owner last read
  failed,    \* did something fail while removing?
  goal       \* history: the orphans there were when pruning began

repository == <<entries, dir>>
pruning == <<left, seen, goal>>
vars == <<repository, pc, phase, cancelled, git, pruning, failed>>

Nothing == [name |-> MaxName + 1]

Used == {i \in Names : entries[i] # NoEntry}

(* Entries that name a himorime's directory which does not exist.          *)
Orphaned ==
  {i \in Used : /\ entries[i].recorded /\ entries[i].owner \in Himorimes
                /\ ~dir[entries[i].owner]}

Init ==
  /\ entries \in {f \in [Names -> {NoEntry} \cup [owner : Users, recorded : {TRUE}]] :
                    \A o \in Users :
                      Cardinality({i \in Names : f[i] # NoEntry /\ f[i].owner = o}) = 1}
  /\ dir \in {f \in [Owners -> BOOLEAN] : \A o \in Owners \ Users : ~f[o]}
  /\ pc = [h \in Himorimes |-> "idle"]
  /\ phase = [h \in Himorimes |-> "adding"]
  /\ cancelled = [h \in Himorimes |-> FALSE]
  /\ git = [h \in Himorimes |-> "none"]
  /\ left = [h \in Himorimes |-> {}] /\ seen = [h \in Himorimes |-> Nothing]
  /\ failed = [h \in Himorimes |-> FALSE] /\ goal = [h \in Himorimes |-> {}]

Go(h, where) == pc' = [pc EXCEPT ![h] = where]

Alive(h) == pc[h] \notin {"idle", "gone", "dead"}

(* A git command of an interrupted AddWorktree is not started, or killed.  *)
Interrupted(h) == cancelled[h] /\ phase[h] = "adding"

-----------------------------------------------------------------------------
(* pruneOrphans.                                                           *)

AfterPrune(h) == IF phase[h] = "adding" THEN "mkdir" ELSE "exit"

(* AddWorktree is called, and prunes first.                                *)
Begin(h) ==
  /\ pc[h] = "idle" /\ Go(h, "list")
  /\ UNCHANGED <<repository, phase, cancelled, git, pruning, failed>>

(* Git tells where the entries are, and they are listed.                   *)
PruneList(h) ==
  /\ pc[h] = "list" /\ ~Interrupted(h)
  /\ left' = [left EXCEPT ![h] = Used]
  /\ goal' = [goal EXCEPT ![h] = {entries[i].owner : i \in Orphaned}]
  /\ Go(h, "read")
  /\ UNCHANGED <<repository, phase, cancelled, git, seen, failed>>

(* AddWorktree ignores this error, Remove reports it.                      *)
PruneListFails(h) ==
  /\ pc[h] = "list"
  /\ Interrupted(h) \/ "git" \in Faults
  /\ failed' = [failed EXCEPT ![h] = @ \/ phase[h] = "removing"]
  /\ goal' = [goal EXCEPT ![h] = {}]
  /\ Go(h, AfterPrune(h))
  /\ UNCHANGED <<repository, phase, cancelled, git, left, seen>>

IsAnyWorktree(o) == o \in Owners  \* mutant: what git worktree prune does

(* The shape AddWorktree gives a checkout.                                 *)
IsOwnWorktree(o) == o \in Himorimes \cup Lookalikes

(* The next entry is read; one without gitdir, or which is gone by now, or *)
(* which is not himorime's is left alone.                                  *)
PruneRead(h) ==
  /\ pc[h] = "read" /\ left[h] # {}
  /\ \E i \in left[h] :
       /\ \A j \in left[h] : i <= j
       /\ left' = [left EXCEPT ![h] = @ \ {i}]
       /\ IF /\ entries[i] # NoEntry /\ entries[i].recorded
             /\ IsOwnWorktree(entries[i].owner)
          THEN /\ seen' = [seen EXCEPT ![h] = [name |-> i, owner |-> entries[i].owner]]
               /\ Go(h, "lstat")
          ELSE UNCHANGED <<seen, pc>>
  /\ UNCHANGED <<repository, phase, cancelled, git, failed, goal>>

PruneStops(h) ==  \* mutant: a directory that exists ends the loop
  /\ pc[h] = "lstat"
  /\ Go(h, IF dir[seen[h].owner] THEN AfterPrune(h) ELSE "unlink")
  /\ UNCHANGED <<repository, phase, cancelled, git, pruning, failed>>

PruneLstat(h) ==
  /\ pc[h] = "lstat"
  /\ Go(h, IF dir[seen[h].owner] THEN "read" ELSE "unlink")
  /\ UNCHANGED <<repository, phase, cancelled, git, pruning, failed>>

(* The entry is removed, whatever has become of it.                        *)
PruneUnlink(h) ==
  /\ pc[h] = "unlink"
  /\ \/ entries' = [entries EXCEPT ![seen[h].name] = NoEntry] /\ UNCHANGED <<failed, goal>>
     \/ /\ "rm" \in Faults /\ UNCHANGED entries
        /\ failed' = [failed EXCEPT ![h] = @ \/ phase[h] = "removing"]
        /\ goal' = [goal EXCEPT ![h] = @ \ {seen[h].owner}]
  /\ Go(h, "read")
  /\ seen' = [seen EXCEPT ![h] = Nothing]
  /\ UNCHANGED <<dir, phase, cancelled, git, left>>

PruneEnds(h) ==
  /\ pc[h] = "read" /\ left[h] = {}
  /\ Go(h, AfterPrune(h))
  /\ UNCHANGED <<repository, phase, cancelled, git, pruning, failed>>

Prune(h) ==
  \/ PruneList(h) \/ PruneListFails(h) \/ PruneRead(h)
  \/ PruneLstat(h) \/ PruneUnlink(h) \/ PruneEnds(h)

-----------------------------------------------------------------------------
(* AddWorktree, after pruning.                                             *)

(* The temporary directories are made and git is started; what was made is *)
(* removed when either cannot be.                                          *)
MakeParent(h) ==
  /\ pc[h] = "mkdir"
  /\ \/ "mkdir" \in Faults /\ Go(h, "exit") /\ UNCHANGED <<git, phase>>
     \/ /\ Interrupted(h) /\ Go(h, "stat")
        /\ phase' = [phase EXCEPT ![h] = "removing"] /\ UNCHANGED git
     \/ /\ ~Interrupted(h) /\ Go(h, "add")
        /\ git' = [git EXCEPT ![h] = "entry"] /\ UNCHANGED phase
  /\ UNCHANGED <<repository, cancelled, pruning, failed>>

(* git worktree add: an entry with a free name, the directory, then the    *)
(* path of the directory in the entry.                                     *)
GitMakesEntry(h) ==
  /\ git[h] = "entry"
  /\ \E i \in Names :
       /\ entries[i] = NoEntry /\ \A j \in Names : j < i => entries[j] # NoEntry
       /\ entries' = [entries EXCEPT ![i] = [owner |-> h, recorded |-> FALSE]]
  /\ git' = [git EXCEPT ![h] = "dir"]
  /\ UNCHANGED <<dir, pc, phase, cancelled, pruning, failed>>

GitMakesDir(h) ==
  /\ git[h] = "dir"
  /\ dir' = [dir EXCEPT ![h] = TRUE]
  /\ git' = [git EXCEPT ![h] = "record"]
  /\ UNCHANGED <<entries, pc, phase, cancelled, pruning, failed>>

GitRecords(h) ==
  /\ git[h] = "record"
  /\ entries' = [i \in Names |->
       IF entries[i] # NoEntry /\ entries[i].owner = h
       THEN [entries[i] EXCEPT !.recorded = TRUE] ELSE entries[i]]
  /\ git' = [git EXCEPT ![h] = "done"]
  /\ UNCHANGED <<dir, pc, phase, cancelled, pruning, failed>>

(* It fails and removes what it made.                                      *)
GitAddFails(h) ==
  /\ "git" \in Faults /\ git[h] \in {"entry", "dir", "record"}
  /\ entries' = [i \in Names |->
       IF entries[i] # NoEntry /\ entries[i].owner = h THEN NoEntry ELSE entries[i]]
  /\ dir' = [dir EXCEPT ![h] = FALSE]
  /\ git' = [git EXCEPT ![h] = "failed"]
  /\ UNCHANGED <<pc, phase, cancelled, pruning, failed>>

(* The context kills it, and it removes nothing.                           *)
GitKilled(h) ==
  /\ pc[h] = "add" /\ Interrupted(h) /\ git[h] \in {"entry", "dir", "record", "done"}
  /\ git' = [git EXCEPT ![h] = "failed"]
  /\ UNCHANGED <<repository, pc, phase, cancelled, pruning, failed>>

(* AddWorktree returns the error of a git that failed.                     *)
AddGivesUp(h) ==  \* mutant: what git left is not removed
  /\ pc[h] = "add" /\ git[h] \in {"done", "failed"}
  /\ git' = [git EXCEPT ![h] = "none"]
  /\ Go(h, IF git[h] = "done" THEN "settle" ELSE "exit")
  /\ UNCHANGED <<repository, phase, cancelled, pruning, failed>>

AddReturns(h) ==
  /\ pc[h] = "add" /\ git[h] \in {"done", "failed"}
  /\ git' = [git EXCEPT ![h] = "none"]
  /\ Go(h, IF git[h] = "done" THEN "settle" ELSE "stat")
  /\ phase' = [phase EXCEPT ![h] = IF git[h] = "done" THEN @ ELSE "removing"]
  /\ UNCHANGED <<repository, cancelled, pruning, failed>>

(* settleIndex asks git twice and waits in between; with an error the      *)
(* worktree is removed again.                                              *)
Settle(h) ==
  /\ pc[h] = "settle"
  /\ \/ /\ ~cancelled[h]
        /\ \E i \in Used : entries[i].owner = h
        /\ Go(h, "ready") /\ UNCHANGED phase
     \/ /\ \/ cancelled[h] \/ "git" \in Faults
           \/ ~\E i \in Used : entries[i].owner = h
        /\ Go(h, "stat") /\ phase' = [phase EXCEPT ![h] = "removing"]
  /\ UNCHANGED <<repository, cancelled, git, pruning, failed>>

(* The invocation is over and calls Remove.                                *)
Measured(h) ==
  /\ pc[h] = "ready"
  /\ Go(h, "stat") /\ phase' = [phase EXCEPT ![h] = "removing"]
  /\ UNCHANGED <<repository, cancelled, git, pruning, failed>>

Add(h) == Begin(h) \/ MakeParent(h) \/ AddReturns(h) \/ Settle(h) \/ Measured(h)

-----------------------------------------------------------------------------
(* Remove, and the end of the invocation.                                  *)

RemoveStats(h) ==
  /\ pc[h] = "stat"
  /\ IF dir[h] THEN Go(h, "gitrm") /\ git' = [git EXCEPT ![h] = "rmdir"]
               ELSE Go(h, "rmtree") /\ UNCHANGED git
  /\ UNCHANGED <<repository, phase, cancelled, pruning, failed>>

(* git worktree remove --force: it refuses, for instance because the entry *)
(* is still locked or gone, or removes the directory and then the entry.   *)
GitRemoves(h) ==
  /\ \/ /\ git[h] = "rmdir"
        /\ \/ /\ \E i \in Used : entries[i].owner = h /\ entries[i].recorded
              /\ dir' = [dir EXCEPT ![h] = FALSE] /\ git' = [git EXCEPT ![h] = "rmentry"]
           \/ git' = [git EXCEPT ![h] = "done"] /\ UNCHANGED dir
        /\ UNCHANGED entries
     \/ /\ git[h] = "rmentry"
        /\ entries' = [i \in Names |->
             IF entries[i] # NoEntry /\ entries[i].owner = h THEN NoEntry ELSE entries[i]]
        /\ git' = [git EXCEPT ![h] = "done"] /\ UNCHANGED dir
  /\ UNCHANGED <<pc, phase, cancelled, pruning, failed>>

(* Its error is not kept.                                                  *)
RemoveReturns(h) ==
  /\ pc[h] = "gitrm" /\ git[h] = "done"
  /\ git' = [git EXCEPT ![h] = "none"] /\ Go(h, "rmtree")
  /\ UNCHANGED <<repository, phase, cancelled, pruning, failed>>

(* The tree is removed, then pruneOrphans deletes the entry.               *)
RemoveTree(h) ==
  /\ pc[h] = "rmtree"
  /\ \/ dir' = [dir EXCEPT ![h] = FALSE] /\ UNCHANGED failed
     \/ "rm" \in Faults /\ failed' = [failed EXCEPT ![h] = TRUE] /\ UNCHANGED dir
  /\ Go(h, "list")
  /\ UNCHANGED <<entries, phase, cancelled, git, pruning>>

(* The temporary directory goes last, and with it what is left of the tree.*)
Exit(h) ==
  /\ pc[h] = "exit"
  /\ \/ dir' = [dir EXCEPT ![h] = FALSE] /\ UNCHANGED failed
     \/ "rm" \in Faults /\ failed' = [failed EXCEPT ![h] = TRUE] /\ UNCHANGED dir
  /\ Go(h, "gone")
  /\ UNCHANGED <<entries, phase, cancelled, git, pruning>>

Remove(h) == RemoveStats(h) \/ RemoveReturns(h) \/ RemoveTree(h) \/ Exit(h)

Git(h) ==
  \/ GitMakesEntry(h) \/ GitMakesDir(h) \/ GitRecords(h) \/ GitAddFails(h)
  \/ GitKilled(h) \/ GitRemoves(h)

-----------------------------------------------------------------------------
(* What happens to the processes, and what the user and the system do.     *)

Interrupt(h) ==
  /\ Alive(h) /\ ~cancelled[h]
  /\ cancelled' = [cancelled EXCEPT ![h] = TRUE]
  /\ UNCHANGED <<repository, pc, phase, git, pruning, failed>>

(* A himorime that is killed leaves its git running.                       *)
Kill(h) ==
  /\ Alive(h) /\ Go(h, "dead")
  /\ UNCHANGED <<repository, phase, cancelled, git, pruning, failed>>

(* Somebody clears the temporary directory of a killed himorime.           *)
TempCleared(h) ==
  /\ pc[h] = "dead" /\ dir[h] /\ git[h] \in {"none", "done", "failed"}
  /\ dir' = [dir EXCEPT ![h] = FALSE]
  /\ UNCHANGED <<entries, pc, phase, cancelled, git, pruning, failed>>

(* The disk of a worktree of the user is unmounted or mounted.             *)
Mount(u) ==
  /\ \E i \in Used : entries[i].owner = u
  /\ dir' = [dir EXCEPT ![u] = ~@]
  /\ UNCHANGED <<entries, pc, phase, cancelled, git, pruning, failed>>

(* The user adds a worktree whose directory is called "tree".              *)
UserAdds(u) ==
  /\ ~dir[u] /\ \A i \in Used : entries[i].owner # u
  /\ \E i \in Names :
       /\ entries[i] = NoEntry /\ \A j \in Names : j < i => entries[j] # NoEntry
       /\ entries' = [entries EXCEPT ![i] = [owner |-> u, recorded |-> TRUE]]
  /\ dir' = [dir EXCEPT ![u] = TRUE]
  /\ UNCHANGED <<pc, phase, cancelled, git, pruning, failed>>

Next ==
  \/ \E h \in Himorimes :
       Prune(h) \/ Add(h) \/ Remove(h) \/ Git(h) \/ Interrupt(h) \/ Kill(h) \/ TempCleared(h)
  \/ \E u \in Users : Mount(u)
  \/ \E u \in NewUsers : UserAdds(u)

Spec == Init /\ [][Next]_vars

-----------------------------------------------------------------------------
(* Every variable keeps to the values the code can give it.                *)
TypeOK ==
  /\ entries \in [Names -> Entry \cup {NoEntry}]
  /\ dir \in [Owners -> BOOLEAN]
  /\ pc \in [Himorimes -> {"idle", "list", "read", "lstat", "unlink", "mkdir", "add", "settle",
                           "ready", "stat", "gitrm", "rmtree", "exit", "gone", "dead"}]
  /\ phase \in [Himorimes -> {"adding", "removing"}]
  /\ cancelled \in [Himorimes -> BOOLEAN] /\ failed \in [Himorimes -> BOOLEAN]
  /\ git \in [Himorimes -> {"none", "entry", "dir", "record", "done", "failed", "rmdir", "rmentry"}]
  /\ left \in [Himorimes -> SUBSET Names] /\ goal \in [Himorimes -> SUBSET Owners]
  /\ seen \in [Himorimes -> [name : Names, owner : Owners] \cup {Nothing}]
  /\ \A h \in Himorimes : pc[h] \in {"lstat", "unlink"} => seen[h] # Nothing
  /\ \A h \in Himorimes : pc[h] \in {"settle", "ready"} => git[h] = "none"

(* "Entries of the user's worktrees are never touched, even when their     *)
(* directories are missing": it holds for the worktrees that the user has  *)
(* all along, however many himorimes prune, add and remove around them.    *)
LastingEntriesUntouched ==
  [][\A i \in Names : entries[i] # NoEntry /\ entries[i].owner \in Users
       => entries'[i] = entries[i]]_vars

(* A himorime that was not killed, and had nothing fail while it removed   *)
(* its worktree, leaves neither the directory nor an entry that names it,  *)
(* however and wherever its adding failed or was interrupted.              *)
LeavesNoWorktree ==
  /\ TypeOK
  /\ \A h \in Himorimes : pc[h] = "gone" /\ ~failed[h] =>
       /\ ~dir[h]
       /\ \A i \in Used : entries[i].owner = h => ~entries[i].recorded

(* Whatever killed himorimes left whose directory is gone is cleared by    *)
(* the pruning of the next comparison, unless removing that entry fails.   *)
OrphansCleared ==
  \A h \in Himorimes : pc[h] \in {"mkdir", "exit"} =>
    \A i \in Used : entries[i].owner \notin goal[h]
=============================================================================
