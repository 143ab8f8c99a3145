---------------------------- MODULE MCStatistics ----------------------------
(* Statistics for TLC.  CPUs and domain IDs are model values and symmetric;*)
(* PIDs, thread IDs and vCPU indexes are numbers, as 0 and the order of    *)
(* the indexes have a meaning.                                             *)
EXTENDS Statistics, TLC

MCSymmetry == Permutations(CPUs) \cup Permutations(DomIDs)
=============================================================================
