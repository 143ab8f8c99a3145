----------------------------- MODULE MCDetector -----------------------------
(* Model values of Detector for TLC. *)
EXTENDS Detector

MCStates == {"running", "paused", "crashed", "shut off"}
=============================================================================
