---------------------------- MODULE MCFetchRecords ----------------------------
(* FetchRecords for TLC.                                                       *)
EXTENDS FetchRecords, TLC

(* The servers are alike; no run of this module checks liveness.               *)
Symmetry == Permutations(Servers)
===============================================================================
