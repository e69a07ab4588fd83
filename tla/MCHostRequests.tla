--------------------------- MODULE MCHostRequests ---------------------------
EXTENDS HostRequests, TLC

(* The workers run the same loop, and no state or property names one.      *)
WorkerSymmetry == Permutations(Workers)
=============================================================================
