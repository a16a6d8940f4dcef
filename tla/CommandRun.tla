----------------------------- MODULE CommandRun -----------------------------
(***************************************************************************)
(* What proc.Run promises its callers, whichever way it starts commands:   *)
(*   - a command is started at most once, and never once Run has returned; *)
(*   - no process of the command's tree is left unkilled when Run returns, *)
(*     whether the command ended, timed out or was canceled;               *)
(*   - a result says timed out or canceled only when the timeout expired   *)
(*     or the context was canceled while Run was waiting for the command.  *)
(* The tree is the command's job or process group; a process that left its *)
(* group is none of it.  Spawner and ProcRun implement it.                 *)
(***************************************************************************)
VARIABLES
  phase,      \* is Run called, idle, or himorime gone?
  started,    \* has the command of this call been started?
  alive,      \* is any process of its tree neither ended nor killed?
  expired,    \* has the timeout of this call expired?
  cancelled,  \* is the context canceled?
  outcome     \* what the last call returned

vars == <<phase, started, alive, expired, cancelled, outcome>>

Outcomes == {"none", "exited", "timed_out", "canceled", "start_error", "error"}

TypeOK ==
  /\ phase \in {"idle", "called", "gone"}
  /\ started \in BOOLEAN /\ alive \in BOOLEAN
  /\ expired \in BOOLEAN /\ cancelled \in BOOLEAN
  /\ outcome \in Outcomes

Init ==
  /\ phase = "idle" /\ outcome = "none"
  /\ started = FALSE /\ alive = FALSE /\ expired = FALSE /\ cancelled = FALSE

Call ==
  /\ phase = "idle"
  /\ phase' = "called" /\ started' = FALSE /\ expired' = FALSE
  /\ outcome' = "none"
  /\ UNCHANGED <<alive, cancelled>>

(* A command whose request was sent starts even if himorime goes away.     *)
Start ==
  /\ phase \in {"called", "gone"} /\ ~started
  /\ started' = TRUE /\ alive' = TRUE
  /\ UNCHANGED <<phase, expired, cancelled, outcome>>

(* The last process of the tree ends, is killed or leaves the group.       *)
Die ==
  /\ alive /\ alive' = FALSE
  /\ UNCHANGED <<phase, started, expired, cancelled, outcome>>

Expire ==
  /\ phase = "called" /\ ~expired
  /\ expired' = TRUE
  /\ UNCHANGED <<phase, started, alive, cancelled, outcome>>

Cancel ==
  /\ ~cancelled /\ cancelled' = TRUE
  /\ UNCHANGED <<phase, started, alive, expired, outcome>>

Justified(o) ==
  \/ o = "exited" /\ started
  \/ o = "timed_out" /\ started /\ expired
  \/ o = "canceled" /\ cancelled
  \/ o = "start_error" /\ ~started
  \/ o = "error"

Return(o) ==
  /\ phase = "called" /\ ~alive /\ Justified(o)
  /\ phase' = "idle" /\ outcome' = o
  /\ UNCHANGED <<started, alive, expired, cancelled>>

(* himorime exits, or is killed in the middle of a call.                   *)
Leave ==
  /\ phase # "gone" /\ phase' = "gone"
  /\ UNCHANGED <<started, alive, expired, cancelled, outcome>>

Next ==
  \/ Call \/ Start \/ Die \/ Expire \/ Cancel \/ Leave
  \/ \E o \in Outcomes : Return(o)

Spec == Init /\ [][Next]_vars
=============================================================================
