---------------------------- MODULE MCEventPath ----------------------------
(* EventPath for TLC: the processes are interchangeable in safety runs. *)
EXTENDS EventPath, TLC

MCSymmetry == Permutations(Procs)
=============================================================================
