--------------------------- MODULE MCLatencyHist ---------------------------
(* LatencyHist for TLC: the CPUs are interchangeable. *)
EXTENDS LatencyHist, TLC

MCSymmetry == Permutations(CPUs)
=============================================================================
