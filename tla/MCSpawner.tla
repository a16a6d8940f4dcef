------------------------------ MODULE MCSpawner -----------------------------
(* Instances of Spawner for TLC.                                           *)
EXTENDS Spawner, TLC

CONSTANTS s1, s2, s3, a, b

(* Nothing tells one spawner from another but what happened to it.         *)
Symmetry == Permutations(Spawners)
=============================================================================
