---------------------------- MODULE AlertEngine ----------------------------
(***************************************************************************)
(* The alert engine (internal/alert/alert.go).                             *)
(*                                                                         *)
(* Goroutines share one Engine.  The eBPF and kernel-log goroutines        *)
(* (Sources) call Raise; the poller goroutine calls Evaluate once per tick *)
(* and Raise from the detector.  Both take e.mu, change the alert tables,  *)
(* release e.mu and only then call the subscribers, so every goroutine has *)
(* a private list of notices (out) between the unlock and the last call.   *)
(*                                                                         *)
(* Evaluate is one critical section; its loop iterations are the steps     *)
(* taken while the poller holds e.mu.  Times are ticks of a clock that     *)
(* starts at 1, and 0 is the zero time.Time.  Messages, categories and     *)
(* names are left out; a key stands for rule|domain|subject.               *)
(***************************************************************************)
EXTENDS Integers, Sequences

CONSTANTS
  CondKeys,      \* keys of the sampled conditions
  EventKeys,     \* keys of event alerts
  Muted,         \* keys whose rule is listed in alerts.mute
  Poller,        \* the goroutine of Poller.Run
  Sources,       \* the goroutines that call Raise: eBPF events, kernel log
  Free,          \* e.mu is not held
  Level,         \* thresholds of each condition: [warn, crit, lower]
  Values,        \* the values a sample can have
  RatioNum,      \* alerts.clear_ratio = RatioNum / RatioDen
  RatioDen,
  RaiseAfter,    \* alerts.raise_after
  ClearAfter,    \* alerts.clear_after
  Dedup,         \* alerts.dedup
  HistoryLimit,  \* alerts.history
  MaxSkew,       \* how far in the past a source may date an event
  EventSeverities, \* the severities events are raised with
  MaxTime,       \* bound on the clock
  MaxAlerts,     \* bound on the alert IDs
  MaxCalls       \* bound on the Raise calls per key

Threads == Sources \cup {Poller}
Keys == CondKeys \cup EventKeys
Severities == 0 .. 2
Info == 0
Warning == 1
Critical == 2
Transitions == {"raised", "repeated", "escalated", "resolved", "summary"}

(* config.Config.validate: the ratio is in (0, 1], the history positive.   *)
ASSUME ConfigAssumption ==
  /\ RatioNum \in Nat \ {0} /\ RatioDen \in Nat \ {0} /\ RatioNum <= RatioDen
  /\ HistoryLimit \in Nat \ {0}
  /\ RaiseAfter \in Nat /\ ClearAfter \in Nat /\ Dedup \in Nat
  /\ Level \in [CondKeys -> [warn : Nat, crit : Nat, lower : BOOLEAN]]

ASSUME ModelAssumption ==
  /\ CondKeys \cap EventKeys = {}
  /\ Poller \notin Sources /\ Free \notin Threads
  /\ Values \subseteq Nat
  /\ EventSeverities \subseteq Severities
  /\ MaxSkew \in Nat /\ MaxTime \in Nat \ {0} /\ MaxAlerts \in Nat
  /\ MaxCalls \in Nat

VARIABLES
  clock,    \* the wall clock
  mu,       \* the goroutine that holds e.mu, or Free
  alerts,   \* every alert created; the ID of an alert is its position
  conds,    \* e.conds; a missing entry and a new condState are the same
  events,   \* e.events: the ID of the alert inside its dedup window, or 0
  history,  \* e.history: IDs, oldest first
  tick,     \* locals of the tick: its time, is Evaluate due, the loops' work
  out,      \* notices a goroutine has collected and not yet delivered
  seen,     \* what subscribers were told last about each alert
  over,     \* history variable: since when each value is over a threshold
  under,    \* history variable: since when it is under the clear level
  calls,    \* history variable: Raise calls per event key
  summed    \* history variable: IDs a summary was collected for

obsVars == <<over, under, calls, summed>>
vars == <<clock, mu, alerts, conds, events, history, tick, out, seen, obsVars>>

Time == 0 .. MaxTime
IDs == 1 .. MaxAlerts

AlertRec == [key : Keys, sev : Severities, first : Time, last : Time,
             count : Nat, active : BOOLEAN, resolved : Time]
CondState == [pending : Severities, pendingAt : Time, belowAt : Time,
              alert : Nat]
NoCond == [pending |-> Info, pendingAt |-> 0, belowAt |-> 0, alert |-> 0]
Notice == [id : IDs, sev : Severities, count : Nat, why : Transitions]

(* Type correctness: every alert a table, the history or a pending notice  *)
(* of the engine refers to exists, and an evaluation in progress started   *)
(* no later than now.                                                      *)
TypeOK ==
  /\ clock \in Time \ {0}
  /\ mu \in {Free, Poller}
  /\ alerts \in Seq(AlertRec) /\ Len(alerts) <= MaxAlerts
  /\ conds \in [CondKeys -> CondState]
  /\ \A k \in CondKeys : conds[k].alert <= Len(alerts)
  /\ events \in [EventKeys -> Nat]
  /\ \A k \in EventKeys : events[k] <= Len(alerts)
  /\ history \in Seq(IDs)
  /\ tick \in [at : Time, due : BOOLEAN, todo : SUBSET CondKeys,
               rest : SUBSET CondKeys, evs : SUBSET EventKeys]
  /\ tick.at <= clock
  /\ out \in [Threads -> Seq(Notice)]
  /\ seen \in [IDs -> Transitions \cup {"none"}]
  /\ over \in [CondKeys -> Time] /\ under \in [CondKeys -> Time]
  /\ calls \in [EventKeys -> Nat]
  /\ summed \subseteq IDs

Init ==
  /\ clock = 1
  /\ mu = Free
  /\ alerts = <<>>
  /\ conds = [k \in CondKeys |-> NoCond]
  /\ events = [k \in EventKeys |-> 0]
  /\ history = <<>>
  /\ tick = [at |-> 0, due |-> FALSE, todo |-> {}, rest |-> {}, evs |-> {}]
  /\ out = [t \in Threads |-> <<>>]
  /\ seen = [i \in IDs |-> "none"]
  /\ over = [k \in CondKeys |-> 0]
  /\ under = [k \in CondKeys |-> 0]
  /\ calls = [k \in EventKeys |-> 0]
  /\ summed = {}
-----------------------------------------------------------------------------
(* Sample.severity and Sample.clear. *)

Over(k, v, t) == t # 0 /\ IF Level[k].lower THEN v <= t ELSE v >= t

Severity(k, v) ==
  IF Over(k, v, Level[k].crit) THEN Critical
  ELSE IF Over(k, v, Level[k].warn) THEN Warning
  ELSE Info

Clear(k, v) ==
  LET t == IF Level[k].warn = 0 THEN Level[k].crit ELSE Level[k].warn
  IN  IF Level[k].lower
      THEN v * RatioNum > t * RatioDen
      ELSE v * RatioDen < t * RatioNum

NextID == Len(alerts) + 1

NoticeOf(id, a, why) ==
  [id |-> id, sev |-> a.sev, count |-> a.count, why |-> why]

(* The notice n joins the ones that goroutine t delivers after unlocking.  *)
Collect(t, n) == out' = [out EXCEPT ![t] = Append(@, n)]

(* Mutant: the history is trimmed one entry too early. *)
PushHistoryShort(h, id) ==
  LET full == Append(h, id)
  IN  IF Len(full) >= HistoryLimit
      THEN SubSeq(full, Len(full) - HistoryLimit + 2, Len(full))
      ELSE full

PushHistory(h, id) ==
  LET full == Append(h, id)
  IN  IF Len(full) > HistoryLimit
      THEN SubSeq(full, Len(full) - HistoryLimit + 1, Len(full))
      ELSE full
-----------------------------------------------------------------------------
(* Engine.Raise.  Kernel events and log records bring their own date, the  *)
(* detector's alerts are dated now; the detector raises after Evaluate.    *)

Dates(t) == IF t = Poller THEN {clock}
            ELSE {at \in 1 .. clock : clock - at <= MaxSkew}

CanRaise(t, k) ==
  /\ k \notin Muted /\ mu = Free /\ out[t] = <<>> /\ calls[k] < MaxCalls
  /\ t = Poller => tick.at # 0 /\ ~tick.due

(* Mutant: the window is measured from the first occurrence. *)
MergesFromFirst(k, at) ==
  events[k] # 0 /\ at - alerts[events[k]].first < Dedup

Merges(k, at) == events[k] # 0 /\ at - alerts[events[k]].last < Dedup

(* Mutant: the repeat is announced but not counted. *)
RaiseRepeatUncounted(t, k, sev, at) ==
  /\ CanRaise(t, k) /\ Merges(k, at)
  /\ LET a == [alerts[events[k]] EXCEPT !.last = at]
     IN  /\ alerts' = [alerts EXCEPT ![events[k]] = a]
         /\ Collect(t, NoticeOf(events[k], a, "repeated"))
  /\ calls' = [calls EXCEPT ![k] = @ + 1]
  /\ UNCHANGED <<clock, mu, conds, events, history, tick, seen, over, under,
                 summed>>

RaiseRepeat(t, k, sev, at) ==
  /\ CanRaise(t, k) /\ Merges(k, at)
  /\ LET id == events[k]
         a == [alerts[id] EXCEPT !.count = @ + 1, !.last = at,
                                 !.sev = IF sev > @ THEN sev ELSE @]
     IN  /\ alerts' = [alerts EXCEPT ![id] = a]
         /\ Collect(t, NoticeOf(id, a, "repeated"))
  /\ calls' = [calls EXCEPT ![k] = @ + 1]
  /\ UNCHANGED <<clock, mu, conds, events, history, tick, seen, over, under,
                 summed>>

(* Mutant: an alert that replaces an open window is not announced. *)
RaiseNewSilent(t, k, sev, at) ==
  /\ CanRaise(t, k) /\ ~Merges(k, at)
  /\ NextID \in IDs
  /\ LET a == [key |-> k, sev |-> sev, first |-> at, last |-> at,
               count |-> 1, active |-> FALSE, resolved |-> 0]
     IN  /\ alerts' = Append(alerts, a)
         /\ IF events[k] = 0 THEN Collect(t, NoticeOf(NextID, a, "raised"))
            ELSE UNCHANGED out
  /\ events' = [events EXCEPT ![k] = NextID]
  /\ history' = PushHistory(history, NextID)
  /\ calls' = [calls EXCEPT ![k] = @ + 1]
  /\ UNCHANGED <<clock, mu, conds, tick, seen, over, under, summed>>

RaiseNew(t, k, sev, at) ==
  /\ CanRaise(t, k) /\ ~Merges(k, at)
  /\ NextID \in IDs
  /\ LET a == [key |-> k, sev |-> sev, first |-> at, last |-> at,
               count |-> 1, active |-> FALSE, resolved |-> 0]
     IN  /\ alerts' = Append(alerts, a)
         /\ Collect(t, NoticeOf(NextID, a, "raised"))
  /\ events' = [events EXCEPT ![k] = NextID]
  /\ history' = PushHistory(history, NextID)
  /\ calls' = [calls EXCEPT ![k] = @ + 1]
  /\ UNCHANGED <<clock, mu, conds, tick, seen, over, under, summed>>
-----------------------------------------------------------------------------
(* The end of Poller.Tick: now is read before the store is committed and   *)
(* the detector calls Evaluate with it, however late.                      *)
Commit ==
  /\ mu # Poller /\ ~tick.due /\ out[Poller] = <<>> /\ clock > tick.at
  /\ tick' = [tick EXCEPT !.at = clock, !.due = TRUE]
  /\ UNCHANGED <<clock, mu, alerts, conds, events, history, out, seen, obsVars>>

(* Engine.Evaluate.  S is the set of keys the detector sampled. *)
BeginEvaluate(S) ==
  /\ mu = Free /\ tick.due
  /\ mu' = Poller
  /\ tick' = [tick EXCEPT !.due = FALSE, !.todo = S \ Muted,
                          !.rest = CondKeys \ (S \ Muted), !.evs = EventKeys]
  /\ UNCHANGED <<clock, alerts, conds, events, history, out, seen, obsVars>>

(* Mutant: only the first change of severity starts the hold. *)
ObservedOnce(k, v) ==
  [conds[k] EXCEPT !.pending = Severity(k, v),
                   !.pendingAt = IF @ = 0 THEN tick.at ELSE @]

(* The first lines of Engine.step: a change of severity restarts the hold. *)
Observed(k, v) ==
  IF Severity(k, v) = conds[k].pending THEN conds[k]
  ELSE [conds[k] EXCEPT !.pending = Severity(k, v), !.pendingAt = tick.at]

Held(k, v) == tick.at - Observed(k, v).pendingAt >= RaiseAfter

(* One sample is taken out of the loop; the history variables record it.   *)
Sampling(k, v) ==
  /\ mu = Poller /\ k \in tick.todo
  /\ tick' = [tick EXCEPT !.todo = @ \ {k}]
  /\ over' = [over EXCEPT ![k] = IF Severity(k, v) = Info THEN 0
                                 ELSE IF @ = 0 THEN tick.at ELSE @]
  /\ under' = [under EXCEPT ![k] = IF ~Clear(k, v) THEN 0
                                   ELSE IF @ = 0 THEN tick.at ELSE @]
  /\ UNCHANGED <<clock, mu, events, seen, calls, summed>>

StepQuiet(k, v) ==
  /\ Sampling(k, v)
  /\ conds[k].alert = 0 /\ (Severity(k, v) = Info \/ ~Held(k, v))
  /\ conds' = [conds EXCEPT ![k] = Observed(k, v)]
  /\ UNCHANGED <<alerts, history, out>>

StepRaise(k, v) ==
  /\ Sampling(k, v)
  /\ conds[k].alert = 0 /\ Severity(k, v) # Info /\ Held(k, v)
  /\ NextID \in IDs
  /\ LET a == [key |-> k, sev |-> Severity(k, v), first |-> tick.at,
               last |-> tick.at, count |-> 1, active |-> TRUE, resolved |-> 0]
     IN  /\ alerts' = Append(alerts, a)
         /\ Collect(Poller, NoticeOf(NextID, a, "raised"))
  /\ conds' = [conds EXCEPT ![k] = [Observed(k, v) EXCEPT !.alert = NextID,
                                                          !.belowAt = 0]]
  /\ UNCHANGED history

BelowAt(k) == IF conds[k].belowAt = 0 THEN tick.at ELSE conds[k].belowAt

StepClearing(k, v) ==
  /\ Sampling(k, v)
  /\ conds[k].alert # 0 /\ Clear(k, v) /\ tick.at - BelowAt(k) < ClearAfter
  /\ alerts' = [alerts EXCEPT ![conds[k].alert].last = tick.at]
  /\ conds' = [conds EXCEPT ![k] = [Observed(k, v) EXCEPT
                                      !.belowAt = BelowAt(k)]]
  /\ UNCHANGED <<history, out>>

(* Mutant: the condState keeps its alert. *)
ResolveKept(k, c, last) ==
  LET id == conds[k].alert
      a == [alerts[id] EXCEPT !.last = last, !.active = FALSE,
                              !.resolved = tick.at]
  IN  /\ alerts' = [alerts EXCEPT ![id] = a]
      /\ history' = PushHistory(history, id)
      /\ Collect(Poller, NoticeOf(id, a, "resolved"))
      /\ conds' = [conds EXCEPT ![k] = [c EXCEPT !.alert = id]]

(* Engine.resolve: c is the condState that is left behind. *)
Resolve(k, c, last) ==
  LET id == conds[k].alert
      a == [alerts[id] EXCEPT !.last = last, !.active = FALSE,
                              !.resolved = tick.at]
  IN  /\ alerts' = [alerts EXCEPT ![id] = a]
      /\ history' = PushHistory(history, id)
      /\ Collect(Poller, NoticeOf(id, a, "resolved"))
      /\ conds' = [conds EXCEPT ![k] = c]

StepResolve(k, v) ==
  /\ Sampling(k, v)
  /\ conds[k].alert # 0 /\ Clear(k, v) /\ tick.at - BelowAt(k) >= ClearAfter
  /\ Resolve(k, [Observed(k, v) EXCEPT !.alert = 0, !.belowAt = 0], tick.at)

Escalates(k, v) ==
  /\ Severity(k, v) # Info /\ Held(k, v)
  /\ Severity(k, v) # alerts[conds[k].alert].sev

StepEscalate(k, v) ==
  /\ Sampling(k, v)
  /\ conds[k].alert # 0 /\ ~Clear(k, v) /\ Escalates(k, v)
  /\ LET id == conds[k].alert
         a == [alerts[id] EXCEPT !.last = tick.at, !.sev = Severity(k, v)]
     IN  /\ alerts' = [alerts EXCEPT ![id] = a]
         /\ Collect(Poller, NoticeOf(id, a, "escalated"))
  /\ conds' = [conds EXCEPT ![k] = [Observed(k, v) EXCEPT !.belowAt = 0]]
  /\ UNCHANGED history

(* Mutant: a value back in the hysteresis band does not restart clearing. *)
StepFiringKept(k, v) ==
  /\ Sampling(k, v)
  /\ conds[k].alert # 0 /\ ~Clear(k, v) /\ ~Escalates(k, v)
  /\ alerts' = [alerts EXCEPT ![conds[k].alert].last = tick.at]
  /\ conds' = [conds EXCEPT ![k] = Observed(k, v)]
  /\ UNCHANGED <<history, out>>

StepFiring(k, v) ==
  /\ Sampling(k, v)
  /\ conds[k].alert # 0 /\ ~Clear(k, v) /\ ~Escalates(k, v)
  /\ alerts' = [alerts EXCEPT ![conds[k].alert].last = tick.at]
  /\ conds' = [conds EXCEPT ![k] = [Observed(k, v) EXCEPT !.belowAt = 0]]
  /\ UNCHANGED <<history, out>>

EvalSample(k, v) ==
  \/ StepQuiet(k, v) \/ StepRaise(k, v) \/ StepClearing(k, v)
  \/ StepResolve(k, v) \/ StepEscalate(k, v) \/ StepFiring(k, v)

(* A condition whose subject was not sampled is resolved and forgotten.    *)
EvalUnsampled(k) ==
  /\ mu = Poller /\ tick.todo = {} /\ k \in tick.rest
  /\ \/ /\ conds[k].alert # 0
        /\ Resolve(k, NoCond, alerts[conds[k].alert].last)
     \/ /\ conds[k].alert = 0
        /\ conds' = [conds EXCEPT ![k] = NoCond]
        /\ UNCHANGED <<alerts, history, out>>
  /\ tick' = [tick EXCEPT !.rest = @ \ {k}]
  /\ over' = [over EXCEPT ![k] = 0] /\ under' = [under EXCEPT ![k] = 0]
  /\ UNCHANGED <<clock, mu, events, seen, calls, summed>>

(* Engine.expireEvents, one key of the map at a time. *)
Expired(k) == events[k] # 0 /\ tick.at - alerts[events[k]].last >= Dedup

EvalExpire(k) ==
  /\ mu = Poller /\ tick.todo = {} /\ tick.rest = {} /\ k \in tick.evs
  /\ LET id == events[k] IN
     \/ /\ ~Expired(k)
        /\ UNCHANGED <<events, out, summed>>
     \/ /\ Expired(k) /\ alerts[id].count > 1
        /\ events' = [events EXCEPT ![k] = 0]
        /\ Collect(Poller, NoticeOf(id, alerts[id], "summary"))
        /\ summed' = summed \cup {id}
     \/ /\ Expired(k) /\ alerts[id].count <= 1
        /\ events' = [events EXCEPT ![k] = 0]
        /\ UNCHANGED <<out, summed>>
  /\ tick' = [tick EXCEPT !.evs = @ \ {k}]
  /\ UNCHANGED <<clock, mu, alerts, conds, history, seen, over, under, calls>>

EndEvaluate ==
  /\ mu = Poller /\ tick.todo = {} /\ tick.rest = {} /\ tick.evs = {}
  /\ mu' = Free
  /\ UNCHANGED <<clock, alerts, conds, events, history, tick, out, seen,
                 obsVars>>
-----------------------------------------------------------------------------
(* Engine.notify: one call of the subscribers, outside the lock. *)
Notify(t) ==
  /\ out[t] # <<>> /\ ~(t = Poller /\ mu = Poller)
  /\ seen' = [seen EXCEPT ![Head(out[t]).id] = Head(out[t]).why]
  /\ out' = [out EXCEPT ![t] = Tail(@)]
  /\ UNCHANGED <<clock, mu, alerts, conds, events, history, tick, obsVars>>

(* External: time passes. *)
Pass ==
  /\ clock < MaxTime
  /\ clock' = clock + 1
  /\ UNCHANGED <<mu, alerts, conds, events, history, tick, out, seen, obsVars>>

Next ==
  \/ \E t \in Threads, k \in EventKeys, sev \in EventSeverities :
       \E at \in Dates(t) :
         RaiseRepeat(t, k, sev, at) \/ RaiseNew(t, k, sev, at)
  \/ Commit
  \/ \E S \in SUBSET CondKeys : BeginEvaluate(S)
  \/ \E k \in CondKeys, v \in Values : EvalSample(k, v)
  \/ \E k \in CondKeys : EvalUnsampled(k)
  \/ \E k \in EventKeys : EvalExpire(k)
  \/ EndEvaluate
  \/ \E t \in Threads : Notify(t)
  \/ Pass

Spec == Init /\ [][Next]_vars
-----------------------------------------------------------------------------
(* A condition alert is raised (Engine.step) only when every sample taken  *)
(* during the last RaiseAfter was over a threshold: no single spike, and   *)
(* no spike before a gap in the samples, counts towards the hold.          *)
NoEarlyRaise ==
  [][\A k \in CondKeys :
       conds[k].alert = 0 /\ conds'[k].alert # 0
         => over'[k] # 0 /\ tick.at - over'[k] >= RaiseAfter]_vars

(* An active condition whose subject was sampled in this tick resolves     *)
(* only when every sample of the last ClearAfter was under the clear       *)
(* level: values inside the hysteresis band never resolve it.              *)
NoEarlyClear ==
  [][\A k \in CondKeys :
       conds[k].alert # 0 /\ conds'[k].alert = 0 /\ k \in tick.todo
         => under'[k] # 0 /\ tick.at - under'[k] >= ClearAfter]_vars

(* e.conds holds each active alert exactly once and under its own key, and *)
(* an alert inside a dedup window is the newest one of its key: an update  *)
(* through either table can never reach another subject's alert.           *)
OwnedOnce ==
  /\ \A k \in CondKeys : conds[k].alert # 0 =>
       alerts[conds[k].alert].key = k /\ alerts[conds[k].alert].active
  /\ \A i \in DOMAIN alerts : alerts[i].active =>
       \E k \in CondKeys : conds[k].alert = i
  /\ \A k \in EventKeys : events[k] # 0 =>
       /\ alerts[events[k]].key = k
       /\ \A i \in DOMAIN alerts : alerts[i].key = k => i <= events[k]

(* Alert i is still in a table of the engine. *)
Open(i) == (\E k \in CondKeys : conds[k].alert = i)
           \/ (\E k \in EventKeys : events[k] = i)

(* An alert that left e.conds or e.events is closed: no later Raise or     *)
(* Evaluate changes it, although e.history still points to it.             *)
ClosedFrozen ==
  [][\A i \in DOMAIN alerts : ~Open(i) => ~Open(i)' /\ alerts'[i] = alerts[i]]_vars

(* Two event alerts of one key are at least the dedup window apart, less   *)
(* how far in the past a source may date an event: every occurrence inside *)
(* the window was merged by Raise, whatever Evaluate expired in between    *)
(* and in whatever order the sources date their events.                    *)
DedupSpacing ==
  \A i, j \in DOMAIN alerts :
    i < j /\ alerts[i].key = alerts[j].key /\ alerts[i].key \in EventKeys
      => alerts[j].first - alerts[i].last >= Dedup - MaxSkew

(* The occurrences recorded in all alerts of key k. *)
CountOf(k) ==
  LET Sum[i \in 0 .. Len(alerts)] ==
        IF i = 0 THEN 0
        ELSE Sum[i - 1] + (IF alerts[i].key = k THEN alerts[i].count ELSE 0)
  IN  Sum[Len(alerts)]

(* Every Raise is counted in exactly one alert, whatever mixture of merged *)
(* repeats, replaced windows and expirations followed it.                  *)
CountConserved == \A k \in EventKeys : CountOf(k) = calls[k]

(* Subscribers are told about a condition in the order of its life: raised *)
(* first, then severity changes, resolved last, although notify runs       *)
(* outside the lock.                                                       *)
CondNoticeOrder ==
  [][\A i \in IDs : seen'[i] # seen[i] /\ alerts[i].key \in CondKeys =>
       \/ seen[i] = "none" /\ seen'[i] = "raised"
       \/ seen[i] \in {"raised", "escalated"}
            /\ seen'[i] \in {"escalated", "resolved"}]_vars

(* Once no goroutine has notices left, subscribers know of every alert, of *)
(* the end of every condition that is no longer active, and of the repeats *)
(* of an event whose window has closed, unless a newer alert of its key    *)
(* took its place before Evaluate came by.                                 *)
SubscribersCaughtUp ==
  (mu = Free /\ \A t \in Threads : out[t] = <<>>) =>
    \A i \in DOMAIN alerts :
      /\ seen[i] # "none"
      /\ alerts[i].key \in CondKeys => (seen[i] = "resolved" <=> ~alerts[i].active)
      /\ alerts[i].key \in EventKeys /\ ~Open(i) /\ alerts[i].count > 1 =>
           i \in summed \/ \E j \in DOMAIN alerts : j > i /\ alerts[j].key = alerts[i].key
-----------------------------------------------------------------------------
(* What the documentation says and the code does not always do. *)

(* docs/architecture.md: a summary is emitted with the total when the      *)
(* window closes on a repeated event.                                      *)
SummaryForEveryRepeat ==
  \A i \in DOMAIN alerts :
    alerts[i].key \in EventKeys /\ alerts[i].count > 1 /\ ~Open(i)
      => i \in summed

(* Package comment of alert: conditions fire once the value has stayed     *)
(* over a threshold for RaiseAfter (checked when Evaluate returns).        *)
FiresOnceHeld ==
  mu = Free /\ ~tick.due => \A k \in CondKeys :
    over[k] # 0 /\ tick.at - over[k] >= RaiseAfter => conds[k].alert # 0

(* Package comment of alert: repeats inside the dedup window are merged    *)
(* into one alert, here with sources that date events in the past.         *)
RepeatsMerged ==
  \A i, j \in DOMAIN alerts :
    i < j /\ alerts[i].key = alerts[j].key /\ alerts[i].key \in EventKeys
      => \/ alerts[j].first - alerts[i].first >= Dedup
         \/ alerts[j].first < alerts[i].first
=============================================================================
