------------------------------ MODULE MCProcRun -----------------------------
(* Instances of ProcRun for TLC: Unix and Windows differ in suspends.      *)
EXTENDS ProcRun
=============================================================================
