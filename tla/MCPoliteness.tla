---------------------------- MODULE MCPoliteness ----------------------------
EXTENDS Politeness, TLC

(* A caller's name is never compared with another's.                       *)
WorkerSymmetry == Permutations(Workers)
=============================================================================
