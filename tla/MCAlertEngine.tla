--------------------------- MODULE MCAlertEngine ---------------------------
(* Model values of AlertEngine for TLC. *)
EXTENDS AlertReader

(* With clear_ratio 1/2: "runq" (higher is worse) clears below 2, warns at *)
(* 4 and is critical at 6; "memfree" (lower is worse) clears above 8,      *)
(* warns at 4 and is critical at 2.                                        *)
MCLevel == [k \in CondKeys |-> IF k = "memfree"
              THEN [warn |-> 4, crit |-> 2, lower |-> TRUE]
              ELSE [warn |-> 4, crit |-> 6, lower |-> FALSE]]

(* Clear, warning and critical for "runq". *)
MCFewValues == {1, 4, 6}
=============================================================================
