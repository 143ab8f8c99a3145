---------------------------- MODULE MCQmpPoller ----------------------------
(* Model values of QmpPoller for TLC. *)
EXTENDS QmpPoller

MCTwoStates == {"running", "io-error"}
=============================================================================
