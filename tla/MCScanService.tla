---------------------------- MODULE MCScanService ----------------------------
(* ScanService for TLC: connections are interchangeable. *)
EXTENDS ScanService, TLC

ConnSymmetry == Permutations(Conns)
=============================================================================
