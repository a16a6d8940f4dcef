----------------------------- MODULE MCWorktree -----------------------------
(* Instances of Worktree for TLC.                                          *)
EXTENDS Worktree, TLC

CONSTANTS h1, h2, u, v

(* Nothing tells one himorime from another.                                *)
Symmetry == Permutations(Himorimes)
=============================================================================
