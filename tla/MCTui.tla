------------------------------- MODULE MCTui -------------------------------
(* Two VMs, a filter of at most one letter and one numeric sort key. *)
EXTENDS Tui

MCTwoIDs == <<"a", "b">>
MCTwoMatch == <<{"a", "b"}, {"b"}>>
MCAlerts == {<<>>, <<2>>, <<0, 2>>}

(* Includes a window lower than header and footer, which NoPanic excludes. *)
MCLowRows == {-1, 2}
=============================================================================
