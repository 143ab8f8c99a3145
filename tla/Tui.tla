--------------------------------- MODULE Tui ---------------------------------
(***************************************************************************)
(* The Bubble Tea model of the terminal interface (internal/tui/model.go,  *)
(* with the indices that views.go and detail.go compute): what a tick, a   *)
(* key and a render do to the rows, the selection, the tab and the scroll  *)
(* position.  The framework runs Update and View in one goroutine, and may *)
(* handle any number of messages between two renders.                      *)
(*                                                                         *)
(* The filter is the number of letters typed, Match what they select.  The *)
(* first sort key is the name; under the others any order can come out.    *)
(* rows is the height that is left for the lines of a panel.               *)
(***************************************************************************)
EXTENDS Integers, Sequences, SequencesExt, FiniteSets

CONSTANTS
  IDs,         \* sequence: every VM, in the order of the names
  Match,       \* Match[n + 1]: the VMs n letters of the filter select
  Sorts,       \* number of sort keys
  BaseTabs,    \* tabs of a VM that does not migrate
  AlertLists,  \* the lists of severities Recent may return
  Lines,       \* lengths a panel's text may have
  Rows,        \* heights; negative when header and footer do not fit
  Page,        \* pageSize
  Far,         \* the distance of "home" and "end"
  None, MaxScroll

ASSUME TuiAssumption ==
  /\ IsInjective(IDs) /\ None \notin Range(IDs)
  /\ Match # <<>> /\ \A i \in DOMAIN Match : Match[i] \subseteq Range(IDs)
  /\ Match[1] = Range(IDs)
  /\ {Sorts, BaseTabs, Page, Far, MaxScroll} \subseteq Nat \ {0}
  /\ Lines \subseteq Nat \ {0} /\ Rows \subseteq Int

VARIABLES
  doms,      \* IDs of m.doms
  migrating, \* the ones with a migration
  alerts,    \* m.alerts
  visible, cursor, selID,
  sort, reverse, filter, filtering,
  screen, help, tab, alertCursor, alertMin, scroll,
  rows,
  panic      \* an index or a slice bound was out of range

data == <<doms, migrating, alerts>>
table == <<visible, cursor, selID>>
view == <<sort, reverse, filter>>
place == <<screen, tab, alertCursor, alertMin, scroll>>
vars == <<data, table, view, filtering, place, help, rows, panic>>

Screens == {"dashboard", "detail", "alerts", "status", "log"}

(* Type correctness: the rows are distinct listed VMs, and cursor, tab and *)
(* scroll stay within their bounds.                                        *)
TypeOK ==
  /\ doms \subseteq Range(IDs) /\ migrating \subseteq doms /\ alerts \in AlertLists
  /\ Range(visible) \subseteq doms /\ Len(visible) = Cardinality(Range(visible))
  /\ cursor \in 0 .. Len(IDs) - 1 /\ selID \in Range(IDs) \cup {None}
  /\ sort \in 0 .. Sorts - 1 /\ reverse \in BOOLEAN
  /\ filter \in 0 .. Len(Match) - 1 /\ filtering \in BOOLEAN /\ help \in BOOLEAN
  /\ screen \in Screens \cup {"quit"} /\ tab \in 0 .. BaseTabs
  /\ alertCursor \in Nat /\ alertMin \in 0 .. 2 /\ scroll \in 0 .. MaxScroll
  /\ rows \in Rows /\ panic \in BOOLEAN

Least(a, b) == IF a < b THEN a ELSE b
Most(a, b) == IF a > b THEN a ELSE b
-----------------------------------------------------------------------------
(* The orders in which SortStableFunc may leave the rows s. *)
Orders(s, key, rev) ==
  IF key = 0
  THEN LET byName == SelectSeq(IDs, LAMBDA d : d \in s)
       IN  {IF rev THEN Reverse(byName) ELSE byName}
  ELSE SetToSeqs(s)

(* syncSel, of rows v and a cursor c that may lie outside. *)
SyncSel(v, c) ==
  IF v = <<>>
  THEN cursor' = 0 /\ selID' = None
  ELSE LET k == Least(Most(c, 0), Len(v) - 1)
       IN  cursor' = k /\ selID' = v[k + 1]

Index(v, d) == (CHOOSE i \in DOMAIN v : v[i] = d) - 1

(* Mutant: the selection keeps its row and not its VM. *)
ApplyViewByRow(ds, key, rev, n) ==
  \E v \in Orders(ds \cap Match[n + 1], key, rev) : visible' = v /\ SyncSel(v, cursor)

(* applyView: the rows of the domains ds under a sort key, its direction   *)
(* and a filter; the cursor goes to the VM that was selected, or to the    *)
(* first row.                                                              *)
ApplyView(ds, key, rev, n) ==
  \E v \in Orders(ds \cap Match[n + 1], key, rev) :
    /\ visible' = v
    /\ SyncSel(v, IF selID \in Range(v) THEN Index(v, selID) ELSE 0)

Init ==
  /\ doms \in SUBSET Range(IDs) /\ migrating = {} /\ alerts \in AlertLists
  /\ filter \in 0 .. Len(Match) - 1
  /\ visible = SelectSeq(IDs, LAMBDA d : d \in doms \cap Match[filter + 1]) /\ cursor = 0
  /\ selID = IF visible = <<>> THEN None ELSE visible[1]
  /\ sort = 0 /\ reverse = FALSE /\ filtering = FALSE
  /\ screen = "dashboard" /\ help = FALSE /\ tab = 0 /\ alertCursor = 0 /\ alertMin = 0
  /\ scroll = 0 /\ rows \in Rows /\ panic = FALSE

Running == screen # "quit" /\ ~panic

(* tickMsg: refresh reads the store and the engine. *)
Refresh ==
  /\ Running
  /\ \E ds \in SUBSET Range(IDs) : \E ms \in SUBSET ds :
       doms' = ds /\ migrating' = ms /\ ApplyView(ds, sort, reverse, filter)
  /\ alerts' \in AlertLists
  /\ UNCHANGED <<view, filtering, place, help, rows, panic>>

Resize == Running /\ rows' \in Rows /\ UNCHANGED <<data, table, view, filtering, place, help, panic>>

Quit ==
  /\ Running /\ screen' = "quit"
  /\ UNCHANGED <<data, table, view, filtering, tab, alertCursor, alertMin, scroll, help, rows, panic>>

(* filterKey: every key but enter changes the text or ends the filter. *)
FilterKey ==
  /\ Running /\ filtering
  /\ \/ filtering' = FALSE /\ filter' = filter /\ ApplyView(doms, sort, reverse, filter)
     \/ filtering' = FALSE /\ filter' = 0 /\ ApplyView(doms, sort, reverse, 0)
     \/ \E n \in {filter - 1, filter, filter + 1} \cap (0 .. Len(Match) - 1) :
          filtering' = filtering /\ filter' = n /\ ApplyView(doms, sort, reverse, n)
  /\ UNCHANGED <<data, sort, reverse, place, help, rows, panic>>

CloseHelp ==
  /\ Running /\ ~filtering /\ help /\ help' = FALSE
  /\ UNCHANGED <<data, table, view, filtering, place, rows, panic>>

(* The keys that reach the two switches of key. *)
Listening == Running /\ ~filtering /\ ~help

Help == Listening /\ help' = TRUE /\ UNCHANGED <<data, table, view, filtering, place, rows, panic>>

Back == screen' = "dashboard" /\ scroll' = 0 /\ UNCHANGED <<tab, alertCursor, alertMin>>

(* "q" quits from the dashboard and leaves every other screen. *)
KeyQ ==
  /\ Listening /\ screen # "dashboard" /\ Back
  /\ UNCHANGED <<data, table, view, filtering, help, rows, panic>>

KeyEsc ==
  /\ Listening /\ Back
  /\ IF screen = "dashboard" /\ filter # 0
     THEN filter' = 0 /\ ApplyView(doms, sort, reverse, 0)
     ELSE UNCHANGED <<filter, table>>
  /\ UNCHANGED <<data, sort, reverse, filtering, help, rows, panic>>

Open(s) ==
  /\ Listening
  /\ IF screen = s THEN Back
     ELSE screen' = s /\ scroll' = 0 /\ alertCursor' = 0 /\ UNCHANGED <<tab, alertMin>>
  /\ UNCHANGED <<data, table, view, filtering, help, rows, panic>>

FilteredAlerts == SelectSeq(alerts, LAMBDA a : a >= alertMin)

(* move, also from the mouse wheel, which no mode holds back. *)
Move(n) ==
  /\ Running
  /\ CASE screen = "dashboard" -> SyncSel(visible, cursor + n) /\ UNCHANGED <<visible, alertCursor, scroll>>
       [] screen = "alerts" ->
            /\ alertCursor' = Least(Most(alertCursor + n, 0), Most(Len(FilteredAlerts) - 1, 0))
            /\ UNCHANGED <<table, scroll>>
       [] OTHER -> /\ scroll + n <= MaxScroll /\ scroll' = Most(scroll + n, 0)
                   /\ UNCHANGED <<table, alertCursor>>
  /\ UNCHANGED <<data, view, filtering, screen, tab, alertMin, help, rows, panic>>

MoveKey(n) == (Listening \/ n \in {-1, 1}) /\ Move(n)

(* The keys of the dashboard. *)
Enter ==
  /\ Listening /\ screen = "dashboard" /\ selID # None
  /\ screen' = "detail" /\ tab' = 0
  /\ UNCHANGED <<data, table, view, filtering, alertCursor, alertMin, scroll, help, rows, panic>>

Filter ==
  /\ Listening /\ screen = "dashboard" /\ filtering' = TRUE
  /\ UNCHANGED <<data, table, view, place, help, rows, panic>>

Sort ==
  /\ Listening /\ screen = "dashboard"
  /\ \/ sort' = (sort + 1) % Sorts /\ reverse' = reverse
     \/ reverse' = ~reverse /\ sort' = sort
  /\ ApplyView(doms, sort', reverse', filter)
  /\ UNCHANGED <<data, filter, filtering, place, help, rows, panic>>

Tabs == IF selID \in migrating THEN BaseTabs + 1 ELSE BaseTabs

(* The keys of the detail screen: next, previous, or by number. *)
SwitchTab ==
  /\ Listening /\ screen = "detail"
  /\ tab' \in {(tab + 1) % Tabs, (tab + Tabs - 1) % Tabs} \cup (0 .. Tabs - 1)
  /\ UNCHANGED <<data, table, view, filtering, screen, alertCursor, alertMin, scroll, help, rows, panic>>

AlertFilter ==
  /\ Listening /\ screen = "alerts" /\ alertMin' = (alertMin + 1) % 3 /\ alertCursor' = 0
  /\ UNCHANGED <<data, table, view, filtering, screen, tab, scroll, help, rows, panic>>
-----------------------------------------------------------------------------
(* scrollLines, and the same lines of viewDetail: the scroll position is   *)
(* clamped, then len lines are cut to the panel.                           *)
ScrollLines(len) == Least(scroll, Most(len - rows, 0))
CutFails(len, at) == at > len \/ (len - at > rows /\ rows < 0)

(* Mutant: the tab that was open is drawn though it is gone. *)
ViewDetailTab ==
  /\ screen = "detail" /\ selID \in doms
  /\ \E len \in Lines :
       /\ tab' = tab
       /\ scroll' = ScrollLines(len)
       /\ panic' = (tab' >= Tabs \/ CutFails(len, scroll'))
  /\ UNCHANGED <<screen, alertCursor>>

(* viewDetail of the selected VM. *)
ViewDetail ==
  /\ screen = "detail" /\ selID \in doms
  /\ \E len \in Lines :
       /\ tab' = Least(tab, Tabs - 1)
       /\ scroll' = ScrollLines(len)
       /\ panic' = (tab' >= Tabs \/ CutFails(len, scroll'))
  /\ UNCHANGED <<screen, alertCursor>>

(* View of a detail screen whose VM is gone. *)
ViewGone ==
  /\ screen = "detail" /\ selID \notin doms /\ screen' = "dashboard"
  /\ UNCHANGED <<tab, scroll, alertCursor, panic>>

ViewAlerts ==
  /\ screen = "alerts"
  /\ alertCursor' = Least(alertCursor, Most(Len(FilteredAlerts) - 1, 0))
  /\ panic' = (FilteredAlerts # <<>> /\ alertCursor' >= Len(FilteredAlerts))
  /\ UNCHANGED <<screen, tab, scroll>>

ViewStatus ==
  /\ screen = "status"
  /\ \E len \in Lines : scroll' = ScrollLines(len) /\ panic' = CutFails(len, scroll')
  /\ UNCHANGED <<screen, tab, alertCursor>>

(* viewLog: the position counts from the newest line. *)
ViewLog ==
  /\ screen = "log"
  /\ \E len \in Lines :
       LET end == Most(len - scroll, Least(rows, len))
           start == Most(end - rows, 0)
       IN  scroll' = len - end /\ panic' = (end < start \/ end > len)
  /\ UNCHANGED <<screen, tab, alertCursor>>

ViewDashboard == screen = "dashboard" /\ UNCHANGED <<screen, tab, scroll, alertCursor, panic>>

View ==
  /\ Running
  /\ ViewDetail \/ ViewGone \/ ViewAlerts \/ ViewStatus \/ ViewLog \/ ViewDashboard
  /\ UNCHANGED <<data, table, view, filtering, alertMin, help, rows>>

Next ==
  \/ Refresh \/ Resize \/ Quit \/ FilterKey \/ CloseHelp \/ Help \/ KeyQ \/ KeyEsc
  \/ \E s \in {"alerts", "status", "log"} : Open(s)
  \/ \E n \in {-1, 1, -Page, Page, -Far, Far} : MoveKey(n)
  \/ Enter \/ Filter \/ Sort \/ SwitchTab \/ AlertFilter \/ View

Spec == Init /\ [][Next]_vars
-----------------------------------------------------------------------------
(* Whatever comes between two renders (VMs and alerts that go, a migration *)
(* that ends, keys, a smaller window) a render indexes no list outside its *)
(* bounds: tabs, alerts and lines are clamped where they are drawn.  That  *)
(* needs a window in which the header and the footer fit.                  *)
NoPanic == ~panic

(* The cursor is on the selected VM. *)
SelectionShown ==
  IF visible = <<>> THEN selID = None /\ cursor = 0
  ELSE cursor < Len(visible) /\ visible[cursor + 1] = selID

(* applyView's comment: the selection stays on the same VM when rows move, *)
(* as long as that VM is shown; and the highlighted row is always the VM   *)
(* that Enter opens, after every tick, key and filter (applyView, syncSel).*)
SelectionKept ==
  [][/\ SelectionShown'
     /\ visible' # visible /\ selID \in Range(visible') => selID' = selID]_vars
=============================================================================
