------------------------------ MODULE Windows ------------------------------
(***************************************************************************)
(* What the store promises to whoever reads its histories: every VM that   *)
(* is listed has a window of its last values for each series, all windows  *)
(* advance by one value in the same step, and a VM that is forgotten and   *)
(* listed again has empty windows.  Neither rings nor snapshots appear;    *)
(* Store implements this specification.                                    *)
(***************************************************************************)
EXTENDS Integers, Sequences, Functions

CONSTANTS IDs, Series, Value, Size

VARIABLES
  shown,     \* listed VM -> series -> its values, oldest first
  hostShown  \* the values of the host

vars == <<shown, hostShown>>

Init == shown = <<>> /\ hostShown = <<>>

(* A value enters a window, and the oldest leaves when it is full. *)
Shift(w, v) == IF Len(w) < Size THEN Append(w, v) ELSE Append(Tail(w), v)

List(id) ==
  /\ id \notin DOMAIN shown
  /\ shown' = [i \in DOMAIN shown \cup {id} |->
                 IF i = id THEN [s \in Series |-> <<>>] ELSE shown[i]]
  /\ UNCHANGED hostShown

Forget(ids) == shown' = Restrict(shown, DOMAIN shown \ ids) /\ UNCHANGED hostShown

Advance(values, h) ==
  /\ shown' = [i \in DOMAIN shown |-> [s \in Series |-> Shift(shown[i][s], values[i][s])]]
  /\ hostShown' = Shift(hostShown, h)

Next ==
  \/ \E id \in IDs : List(id)
  \/ \E ids \in SUBSET IDs : Forget(ids)
  \/ \E values \in [DOMAIN shown -> [Series -> Value]], h \in Value : Advance(values, h)

Spec == Init /\ [][Next]_vars
=============================================================================
