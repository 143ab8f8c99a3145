---------------------------- MODULE AlertReader ----------------------------
(***************************************************************************)
(* The alert engine with a reader: once per frame the TUI calls Recent(0)  *)
(* (internal/tui/model.go), which takes e.mu twice, in Active and again    *)
(* for the history, while the other goroutines go on in between.           *)
(***************************************************************************)
EXTENDS AlertEngine

VARIABLE view  \* a Recent between its lock sections, and what Active gave it

Idle == [busy |-> FALSE, ids |-> {}]

ReaderInit == Init /\ view = Idle

(* Engine.Active. *)
Active == {conds[k].alert : k \in CondKeys} \ {0}

RecentActive ==
  /\ ~view.busy /\ mu = Free /\ view' = [busy |-> TRUE, ids |-> Active]
  /\ UNCHANGED vars

RecentHistory ==
  /\ view.busy /\ mu = Free /\ view' = Idle
  /\ UNCHANGED vars

ReaderNext == (Next /\ UNCHANGED view) \/ RecentActive \/ RecentHistory

ReaderSpec == ReaderInit /\ [][ReaderNext]_<<vars, view>>
-----------------------------------------------------------------------------
Past == {history[i] : i \in DOMAIN history}

(* Recent returns the active conditions and the past alerts, each of these *)
(* once and at most HistoryLimit of them.  A condition is among both only  *)
(* if it ended during the call; an alert is among neither only if it was   *)
(* raised during the call and is still firing, or HistoryLimit others took *)
(* its place: none is lost between the two lock sections (Active, Recent,  *)
(* resolve, pushHistory).                                                  *)
RecentExact ==
  [][view.busy /\ ~view'.busy =>
       /\ Len(history) <= HistoryLimit
       /\ \A i, j \in DOMAIN history : history[i] = history[j] => i = j
       /\ \A i \in Past : ~alerts[i].active
       /\ \A i \in DOMAIN alerts \ (view.ids \cup Past) :
            i \in Active \/ Len(history) = HistoryLimit]_<<vars, view>>
=============================================================================
