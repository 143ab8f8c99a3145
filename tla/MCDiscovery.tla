---------------------------- MODULE MCDiscovery ----------------------------
(* Model values of Discovery for TLC. *)
EXTENDS Discovery, TLC

(* A running guest, and a suspended one, whose process still runs although *)
(* libvirt.go does not look for its PID.                                   *)
MCStates == {"running", "pmsuspended"}

(* PIDs are only compared. *)
MCSymmetry == Permutations(Pids)
=============================================================================
