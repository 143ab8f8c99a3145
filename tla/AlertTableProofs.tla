-------------------------- MODULE AlertTableProofs --------------------------
(***************************************************************************)
(* Theorems about the tables of the alert engine: which alert e.conds,     *)
(* e.events and e.history hold, and how far apart event alerts are.        *)
(***************************************************************************)
EXTENDS AlertEngineProofs

(* What the later theorems need of the tables, as an inductive             *)
(* invariant: e.conds and e.events own their alerts (OwnedOnce); an event  *)
(* alert that left its window did so a dedup period after its last         *)
(* occurrence, with a summary or a successor if it had repeats; the        *)
(* history holds alerts that are not active, none twice, and misses one    *)
(* only when it is full.                                                   *)
WindowInv ==
  \A i \in DOMAIN alerts :
    alerts[i].key \in EventKeys /\ events[alerts[i].key] # i =>
      /\ clock - alerts[i].last >= Dedup
      /\ alerts[i].count > 1 =>
           i \in summed \/ \E j \in DOMAIN alerts : j > i /\ alerts[j].key = alerts[i].key

Kept == {history[i] : i \in DOMAIN history}

HistoryInv ==
  /\ Len(history) <= HistoryLimit
  /\ \A p, q \in DOMAIN history : history[p] = history[q] => p = q
  /\ \A i \in Kept : i \in DOMAIN alerts /\ ~alerts[i].active
  /\ \A i \in DOMAIN alerts : ~alerts[i].active /\ i \notin Kept
       => Len(history) = HistoryLimit

TableInv == OwnedOnce /\ WindowInv /\ DedupSpacing /\ HistoryInv

(* The domain of the table, and its entries. *)
LEMMA AlertsDomain ==
  ASSUME TypeOK
  PROVE  /\ Len(alerts) \in Nat /\ DOMAIN alerts = 1 .. Len(alerts)
         /\ \A i \in DOMAIN alerts : alerts[i] \in AlertRec /\ i \in IDs /\ i \in Nat
<1>1. Len(alerts) \in Nat /\ DOMAIN alerts = 1 .. Len(alerts)
  BY LenProperties DEF TypeOK
<1> QED  BY <1>1, KnownAlert

(* The table after a change in place. *)
LEMMA UpdateFacts ==
  ASSUME TypeOK, NEW id \in DOMAIN alerts, NEW a \in AlertRec,
         alerts' = [alerts EXCEPT ![id] = a]
  PROVE  /\ DOMAIN alerts' = DOMAIN alerts
         /\ \A i \in DOMAIN alerts : alerts'[i] = IF i = id THEN a ELSE alerts[i]
OBVIOUS

(* The table after a new alert. *)
LEMMA AppendFacts ==
  ASSUME TypeOK, NEW a \in AlertRec, alerts' = Append(alerts, a)
  PROVE  /\ DOMAIN alerts' = DOMAIN alerts \cup {NextID} /\ NextID \notin DOMAIN alerts
         /\ NextID \in Nat /\ \A i \in DOMAIN alerts : alerts'[i] = alerts[i] /\ i < NextID
         /\ alerts'[NextID] = a
<1>1. /\ Len(alerts) \in Nat /\ DOMAIN alerts = 1 .. Len(alerts) /\ NextID = Len(alerts) + 1
      /\ alerts' \in Seq(AlertRec) /\ Len(alerts') = Len(alerts) + 1
  BY AlertsDomain, CreateType DEF NextID
<1>2. DOMAIN alerts' = 1 .. Len(alerts) + 1
  BY <1>1, LenProperties
<1> QED  BY <1>1, <1>2, CreateType

(* What a step does to the tables, without the loop it is part of: nothing *)
(* but the hold times, or the begin, an update or the end of a condition.  *)
SameOwners == \A k \in CondKeys : conds'[k].alert = conds[k].alert

Quiet ==
  /\ SameOwners /\ clock' \in Nat /\ clock' >= clock
  /\ UNCHANGED <<alerts, events, history, calls, summed>>

Begun(k) ==
  /\ conds[k].alert = 0 /\ conds'[k].alert = NextID /\ NextID \in IDs
  /\ \A j \in CondKeys \ {k} : conds'[j].alert = conds[j].alert
  /\ \E a \in AlertRec :
       /\ a.key = k /\ a.active = TRUE /\ alerts' = Append(alerts, a)
       /\ Collect(Poller, NoticeOf(NextID, a, "raised"))
  /\ UNCHANGED <<clock, events, history, seen, calls, summed>>

Updated(k) ==
  /\ conds[k].alert # 0 /\ SameOwners
  /\ \E a \in AlertRec :
       /\ a.key = alerts[conds[k].alert].key /\ a.active = alerts[conds[k].alert].active
       /\ alerts' = [alerts EXCEPT ![conds[k].alert] = a]
       /\ UNCHANGED out \/ Collect(Poller, NoticeOf(conds[k].alert, a, "escalated"))
  /\ UNCHANGED <<clock, events, history, seen, calls, summed>>

Ended(k) ==
  /\ conds[k].alert # 0 /\ conds'[k].alert = 0
  /\ \A j \in CondKeys \ {k} : conds'[j].alert = conds[j].alert
  /\ \E a \in AlertRec :
       /\ a.key = alerts[conds[k].alert].key /\ a.active = FALSE
       /\ alerts' = [alerts EXCEPT ![conds[k].alert] = a]
       /\ Collect(Poller, NoticeOf(conds[k].alert, a, "resolved"))
  /\ history' = PushHistory(history, conds[k].alert)
  /\ UNCHANGED <<clock, events, seen, calls, summed>>

(* Engine.resolve ends a condition. *)
LEMMA ResolveEffect ==
  ASSUME TypeOK, NEW k \in CondKeys, conds[k].alert # 0, NEW c \in CondState, c.alert = 0,
         NEW last \in Time, Resolve(k, c, last),
         UNCHANGED <<clock, events, seen, calls, summed>>
  PROVE  Ended(k)
<1> DEFINE id == conds[k].alert
           a == [alerts[id] EXCEPT !.last = last, !.active = FALSE,
                                   !.resolved = tick.at]
<1>1. id \in DOMAIN alerts
  BY AlertsDomain DEF TypeOK, CondState
<1>2. alerts[id] \in AlertRec
  BY <1>1, AlertsDomain
<1>3. a \in AlertRec /\ a.key = alerts[id].key /\ a.active = FALSE
  BY <1>2, Zenon DEF AlertRec, TypeOK
<1>4. alerts' = [alerts EXCEPT ![id] = a] /\ history' = PushHistory(history, id)
      /\ Collect(Poller, NoticeOf(id, a, "resolved")) /\ conds' = [conds EXCEPT ![k] = c]
  BY DEF Resolve
<1>5. conds'[k].alert = 0 /\ \A j \in CondKeys \ {k} : conds'[j].alert = conds[j].alert
  BY <1>4 DEF TypeOK
<1> HIDE DEF a
<1> QED  BY <1>3, <1>4, <1>5, Zenon DEF Ended

(* Engine.step does one of these for the sampled key. *)
LEMMA SampleEffect ==
  ASSUME TypeOK, NEW k \in CondKeys, NEW v \in Values, EvalSample(k, v)
  PROVE  (Quiet /\ UNCHANGED <<out, seen>>) \/ Begun(k) \/ Updated(k) \/ Ended(k)
<1> DEFINE id == conds[k].alert
<1>0. /\ Observed(k, v) \in CondState /\ Observed(k, v).alert = id /\ BelowAt(k) \in Time
      /\ Severity(k, v) \in Severities /\ tick.at \in Time /\ 0 \in Time /\ k \in Keys
      /\ clock \in Nat /\ conds \in [CondKeys -> CondState]
  BY ObservedType, SeverityType, ModelAssumption DEF TypeOK, Time, Keys
<1>1. id # 0 => id \in DOMAIN alerts /\ alerts[id] \in AlertRec
  <2> HAVE id # 0
  <2>1. id \in DOMAIN alerts
    BY AlertsDomain DEF TypeOK, CondState
  <2> HIDE DEF id
  <2> QED  BY <2>1, AlertsDomain
<1>2. Sampling(k, v) /\ \A j \in CondKeys \ {k} : conds'[j] = conds[j]
  BY StepCond
<1>3. UNCHANGED <<clock, events, seen, calls, summed>>
  BY <1>2 DEF Sampling
<1>4. CASE StepQuiet(k, v)
  <2>1. conds'[k].alert = id /\ UNCHANGED <<alerts, history, out>>
    BY <1>0, <1>4 DEF StepQuiet
  <2> QED  BY <1>0, <1>2, <1>3, <2>1 DEF Quiet, SameOwners
<1>5. CASE StepRaise(k, v)
  <2> DEFINE a == [key |-> k, sev |-> Severity(k, v), first |-> tick.at,
                   last |-> tick.at, count |-> 1, active |-> TRUE, resolved |-> 0]
  <2>1. a \in AlertRec /\ a.key = k /\ a.active = TRUE
    BY <1>0, Zenon DEF AlertRec
  <2>2. /\ NextID \in IDs /\ alerts' = Append(alerts, a)
        /\ Collect(Poller, NoticeOf(NextID, a, "raised")) /\ history' = history /\ id = 0
    BY <1>5 DEF StepRaise
  <2>3. conds'[k].alert = NextID
    BY <1>0, <1>5 DEF StepRaise, CondState
  <2> HIDE DEF a
  <2> QED  BY <1>2, <1>3, <2>1, <2>2, <2>3 DEF Begun
<1>6. CASE StepClearing(k, v) \/ StepFiring(k, v)
  <2> DEFINE a == [alerts[id] EXCEPT !.last = tick.at]
  <2>1. id # 0 /\ alerts' = [alerts EXCEPT ![id] = a] /\ UNCHANGED <<history, out>>
    BY <1>6 DEF StepClearing, StepFiring
  <2>2. a \in AlertRec /\ a.key = alerts[id].key /\ a.active = alerts[id].active
    BY <1>0, <1>1, <2>1 DEF AlertRec
  <2>3. conds'[k].alert = id
    BY <1>0, <1>6 DEF StepClearing, StepFiring, CondState
  <2> HIDE DEF a
  <2> QED  BY <1>2, <1>3, <2>1, <2>2, <2>3, Zenon DEF Updated, SameOwners
<1>7. CASE StepResolve(k, v)
  <2> DEFINE c == [Observed(k, v) EXCEPT !.alert = 0, !.belowAt = 0]
  <2>1. c \in CondState /\ c.alert = 0
    BY <1>0, Zenon DEF CondState
  <2>2. id # 0 /\ Resolve(k, c, tick.at)
    BY <1>7 DEF StepResolve
  <2> HIDE DEF c
  <2> QED  BY <1>0, <1>3, <2>1, <2>2, ResolveEffect
<1>8. CASE StepEscalate(k, v)
  <2> DEFINE a == [alerts[id] EXCEPT !.last = tick.at, !.sev = Severity(k, v)]
  <2>1. /\ id # 0 /\ alerts' = [alerts EXCEPT ![id] = a] /\ history' = history
        /\ Collect(Poller, NoticeOf(id, a, "escalated"))
    BY <1>8 DEF StepEscalate
  <2>2. a \in AlertRec /\ a.key = alerts[id].key /\ a.active = alerts[id].active
    BY <1>0, <1>1, <2>1, Zenon DEF AlertRec
  <2>3. conds'[k].alert = id
    BY <1>0, <1>8 DEF StepEscalate, CondState
  <2> HIDE DEF a
  <2> QED  BY <1>2, <1>3, <2>1, <2>2, <2>3, Zenon DEF Updated, SameOwners
<1> QED  BY <1>4, <1>5, <1>6, <1>7, <1>8 DEF EvalSample

(* A condition without a sample ends or has no alert. *)
LEMMA UnsampledEffect ==
  ASSUME TypeOK, NEW k \in CondKeys, EvalUnsampled(k)
  PROVE  (Quiet /\ UNCHANGED <<out, seen>>) \/ Ended(k)
<1>0. NoCond \in CondState /\ NoCond.alert = 0 /\ clock \in Nat
  BY ModelAssumption DEF NoCond, CondState, Severities, Info, TypeOK, Time
<1>1. CASE conds[k].alert # 0
  <2>1. conds[k].alert \in DOMAIN alerts
    BY <1>1, AlertsDomain DEF TypeOK, CondState
  <2>2. alerts[conds[k].alert].last \in Time
    BY <2>1, AlertsDomain DEF AlertRec
  <2> QED  BY <1>0, <1>1, <2>2, ResolveEffect DEF EvalUnsampled
<1>2. CASE conds[k].alert = 0
  <2>1. /\ conds' = [conds EXCEPT ![k] = NoCond]
        /\ UNCHANGED <<alerts, history, out, clock, mu, events, seen, calls, summed>>
    BY <1>2 DEF EvalUnsampled
  <2>2. SameOwners
    BY <1>0, <1>2, <2>1 DEF SameOwners, TypeOK
  <2> QED  BY <1>0, <2>1, <2>2 DEF Quiet
<1> QED  BY <1>1, <1>2

(* The steps of the engine, by what they do to the tables. *)
LEMMA StepEffects ==
  ASSUME TypeOK, [Next]_vars
  PROVE  \/ \E t \in Threads, k \in EventKeys, sev \in Severities : \E at \in Dates(t) :
              RaiseRepeat(t, k, sev, at) \/ RaiseNew(t, k, sev, at)
         \/ \E k \in EventKeys : EvalExpire(k)
         \/ \E k \in CondKeys : Begun(k) \/ Updated(k) \/ Ended(k)
         \/ Quiet /\ UNCHANGED <<out, seen>>
         \/ Quiet /\ \E t \in Threads : Notify(t)
<1>0. clock \in Nat
  BY ModelAssumption DEF TypeOK, Time
<1>1. CASE \E t \in Threads, k \in EventKeys, sev \in EventSeverities : \E at \in Dates(t) :
              RaiseRepeat(t, k, sev, at) \/ RaiseNew(t, k, sev, at)
  BY <1>1, ModelAssumption
<1>2. CASE \/ Commit \/ EndEvaluate \/ Pass \/ UNCHANGED vars
           \/ \E S \in SUBSET CondKeys : BeginEvaluate(S)
  <2>1. UNCHANGED <<alerts, conds, events, history, out, seen, calls, summed>>
    BY <1>2, ZenonT(30) DEF Commit, EndEvaluate, Pass, vars, obsVars, BeginEvaluate
  <2>2. clock' = clock \/ clock' = clock + 1
    BY <1>2, Zenon DEF Commit, EndEvaluate, Pass, vars, BeginEvaluate
  <2> QED  BY <1>0, <2>1, <2>2 DEF Quiet, SameOwners
<1>3. CASE \E t \in Threads : Notify(t)
  <2>1. UNCHANGED <<clock, alerts, conds, events, history, calls, summed>>
    BY <1>3 DEF Notify, obsVars
  <2> QED  BY <1>0, <1>3, <2>1 DEF Quiet, SameOwners
<1> QED
  BY <1>1, <1>2, <1>3, SampleEffect, UnsampledEffect DEF Next

(* Every ID that e.conds or e.events holds is in the table. *)
LEMMA HeldInTable ==
  ASSUME TypeOK
  PROVE  /\ \A k \in CondKeys : conds[k].alert \in Nat
                /\ (conds[k].alert # 0 => conds[k].alert \in DOMAIN alerts)
         /\ \A k \in EventKeys : events[k] \in Nat /\ (events[k] # 0 => events[k] \in DOMAIN alerts)
         /\ 0 \notin DOMAIN alerts
BY AlertsDomain DEF TypeOK, CondState

(* A condition's step leaves the event alerts alone, and a change of an    *)
(* alert in place keeps its key.                                           *)
LEMMA CondStepEvents ==
  ASSUME TypeOK, OwnedOnce, NEW k \in CondKeys, Begun(k) \/ Updated(k) \/ Ended(k)
  PROVE  /\ DOMAIN alerts \subseteq DOMAIN alerts' /\ UNCHANGED <<clock, events, calls, summed>>
         /\ \A i \in DOMAIN alerts : alerts'[i].key = alerts[i].key
         /\ \A i \in DOMAIN alerts : alerts[i].key \in EventKeys => alerts'[i] = alerts[i]
         /\ \A i \in DOMAIN alerts' \ DOMAIN alerts : alerts'[i].key \in CondKeys
<1>1. CASE Begun(k)
  <2>1. PICK a \in AlertRec : a.key = k /\ alerts' = Append(alerts, a)
    BY <1>1 DEF Begun
  <2> QED  BY <1>1, <2>1, AppendFacts DEF Begun
<1>2. CASE Updated(k) \/ Ended(k)
  <2>1. conds[k].alert \in DOMAIN alerts /\ alerts[conds[k].alert].key = k /\ k \notin EventKeys
    BY <1>2, HeldInTable, ModelAssumption, ZenonT(30) DEF Updated, Ended, OwnedOnce
  <2>2. PICK a \in AlertRec : a.key = k /\ alerts' = [alerts EXCEPT ![conds[k].alert] = a]
    BY <1>2, <2>1, Zenon DEF Updated, Ended
  <2>3. /\ DOMAIN alerts' = DOMAIN alerts
        /\ \A i \in DOMAIN alerts : alerts'[i] = IF i = conds[k].alert THEN a ELSE alerts[i]
    BY <2>1, <2>2, UpdateFacts
  <2>4. UNCHANGED <<clock, events, calls, summed>>
    BY <1>2, ZenonT(30) DEF Updated, Ended
  <2> QED  BY <2>1, <2>2, <2>3, <2>4
<1> QED  BY <1>1, <1>2

(* A change of an alert that keeps its key and whether it is active. *)
LEMMA OwnedKept ==
  ASSUME TypeOK, OwnedOnce, SameOwners, events' = events, DOMAIN alerts' = DOMAIN alerts,
         \A i \in DOMAIN alerts : alerts'[i].key = alerts[i].key /\ alerts'[i].active = alerts[i].active
  PROVE  OwnedOnce'
<1>1. \A k \in CondKeys : conds'[k].alert # 0 =>
        alerts'[conds'[k].alert].key = k /\ alerts'[conds'[k].alert].active
  BY HeldInTable DEF OwnedOnce, SameOwners
<1>2. \A i \in DOMAIN alerts' : alerts'[i].active => \E k \in CondKeys : conds'[k].alert = i
  BY DEF OwnedOnce, SameOwners
<1>3. \A k \in EventKeys : events'[k] # 0 =>
        /\ alerts'[events'[k]].key = k
        /\ \A i \in DOMAIN alerts' : alerts'[i].key = k => i <= events'[k]
  BY HeldInTable DEF OwnedOnce
<1> QED  BY <1>1, <1>2, <1>3, Zenon DEF OwnedOnce

(* The tables keep owning their alerts. *)
LEMMA OwnedStep == TypeOK /\ OwnedOnce /\ [Next]_vars => OwnedOnce'
<1> SUFFICES ASSUME TypeOK, OwnedOnce, [Next]_vars PROVE OwnedOnce'
  OBVIOUS
<1>0. CondKeys \cap EventKeys = {} /\ \A i \in DOMAIN alerts : i \in Nat
  BY ModelAssumption, AlertsDomain
<1>1. ASSUME NEW t \in Threads, NEW k \in EventKeys, NEW sev \in Severities,
             NEW at \in Dates(t), RaiseRepeat(t, k, sev, at)
      PROVE  OwnedOnce'
  <2> DEFINE id == events[k]
             a == [alerts[id] EXCEPT !.count = @ + 1, !.last = at,
                                     !.sev = IF sev > @ THEN sev ELSE @]
  <2>1. alerts' = [alerts EXCEPT ![id] = a] /\ UNCHANGED <<conds, events>>
    BY <1>1 DEF RaiseRepeat
  <2>2. id \in DOMAIN alerts
    BY <1>1, HeldInTable DEF RaiseRepeat, Merges
  <2>3. alerts[id] \in AlertRec /\ a.key = alerts[id].key /\ a.active = alerts[id].active
    BY <2>2, AlertsDomain DEF AlertRec
  <2>4. /\ DOMAIN alerts' = DOMAIN alerts
        /\ \A i \in DOMAIN alerts : alerts'[i].key = alerts[i].key /\ alerts'[i].active = alerts[i].active
    BY <2>1, <2>2, <2>3
  <2> HIDE DEF a, id
  <2> QED  BY <2>1, <2>4, OwnedKept DEF SameOwners
<1>2. ASSUME NEW t \in Threads, NEW k \in EventKeys, NEW sev \in Severities,
             NEW at \in Dates(t), RaiseNew(t, k, sev, at)
      PROVE  OwnedOnce'
  <2>1. PICK a \in AlertRec : /\ a.key = k /\ a.active = FALSE /\ alerts' = Append(alerts, a)
    <3> DEFINE a == [key |-> k, sev |-> sev, first |-> at, last |-> at,
                     count |-> 1, active |-> FALSE, resolved |-> 0]
    <3>1. a \in AlertRec /\ a.key = k /\ a.active = FALSE
      BY ModelAssumption DEF AlertRec, Time, Dates, TypeOK, Keys
    <3>2. alerts' = Append(alerts, a)
      BY <1>2 DEF RaiseNew
    <3> HIDE DEF a
    <3> QED  BY <3>1, <3>2
  <2>2. events' = [events EXCEPT ![k] = NextID] /\ conds' = conds
    BY <1>2 DEF RaiseNew
  <2>3. events'[k] = NextID /\ \A j \in EventKeys \ {k} : events'[j] = events[j]
    BY <2>2 DEF TypeOK
  <2> QED
    BY <1>0, <2>1, <2>2, <2>3, AppendFacts, HeldInTable DEF OwnedOnce
<1>3. ASSUME NEW k \in EventKeys, EvalExpire(k) PROVE OwnedOnce'
  <2>1. UNCHANGED <<alerts, conds>> /\ events' \in {events, [events EXCEPT ![k] = 0]}
    BY <1>3 DEF EvalExpire
  <2> QED  BY <2>1 DEF OwnedOnce, TypeOK
<1>4. ASSUME NEW k \in CondKeys, Begun(k) PROVE OwnedOnce'
  <2>1. PICK a \in AlertRec : a.key = k /\ a.active = TRUE /\ alerts' = Append(alerts, a)
    BY <1>4, Zenon DEF Begun
  <2>2. /\ conds[k].alert = 0 /\ conds'[k].alert = NextID /\ events' = events
        /\ \A j \in CondKeys \ {k} : conds'[j].alert = conds[j].alert
    BY <1>4 DEF Begun
  <2>3. /\ DOMAIN alerts' = DOMAIN alerts \cup {NextID}
        /\ \A i \in DOMAIN alerts : alerts'[i] = alerts[i]
        /\ alerts'[NextID].key = k /\ alerts'[NextID].active = TRUE
    BY <2>1, AppendFacts
  <2>4. \A j \in CondKeys : conds'[j].alert # 0 =>
          alerts'[conds'[j].alert].key = j /\ alerts'[conds'[j].alert].active
    BY <2>2, <2>3, HeldInTable DEF OwnedOnce
  <2>5. \A i \in DOMAIN alerts' : alerts'[i].active => \E j \in CondKeys : conds'[j].alert = i
    <3>1. ASSUME NEW i \in DOMAIN alerts, alerts[i].active
          PROVE  \E j \in CondKeys \ {k} : conds[j].alert = i
      BY <2>2, <3>1, HeldInTable DEF OwnedOnce
    <3> QED  BY <2>2, <2>3, <3>1
  <2>6. \A j \in EventKeys : events'[j] # 0 =>
          /\ alerts'[events'[j]].key = j
          /\ \A i \in DOMAIN alerts' : alerts'[i].key = j => i <= events'[j]
    BY <1>0, <2>2, <2>3, HeldInTable DEF OwnedOnce
  <2> QED  BY <2>4, <2>5, <2>6 DEF OwnedOnce
<1>5. ASSUME NEW k \in CondKeys, Updated(k) PROVE OwnedOnce'
  <2>1. conds[k].alert \in DOMAIN alerts
    BY <1>5, HeldInTable DEF Updated
  <2>2. PICK a \in AlertRec : /\ a.key = alerts[conds[k].alert].key
                              /\ a.active = alerts[conds[k].alert].active
                              /\ alerts' = [alerts EXCEPT ![conds[k].alert] = a]
    BY <1>5, ZenonT(30) DEF Updated
  <2>3. /\ DOMAIN alerts' = DOMAIN alerts
        /\ \A i \in DOMAIN alerts : alerts'[i].key = alerts[i].key /\ alerts'[i].active = alerts[i].active
    BY <2>1, <2>2, UpdateFacts
  <2>4. SameOwners /\ events' = events
    BY <1>5 DEF Updated
  <2> QED  BY <2>3, <2>4, OwnedKept
<1>6. ASSUME NEW k \in CondKeys, Ended(k) PROVE OwnedOnce'
  <2>1. conds[k].alert \in DOMAIN alerts /\ alerts[conds[k].alert].key = k
    BY <1>6, HeldInTable, Zenon DEF Ended, OwnedOnce
  <2>2. PICK a \in AlertRec : /\ a.key = k /\ a.active = FALSE
                              /\ alerts' = [alerts EXCEPT ![conds[k].alert] = a]
    BY <1>6, <2>1, Zenon DEF Ended
  <2>3. /\ DOMAIN alerts' = DOMAIN alerts
        /\ \A i \in DOMAIN alerts : /\ alerts'[i].key = alerts[i].key
                                    /\ i # conds[k].alert => alerts'[i].active = alerts[i].active
        /\ alerts'[conds[k].alert].active = FALSE
    BY <2>1, <2>2, UpdateFacts
  <2>4. /\ conds'[k].alert = 0 /\ events' = events
        /\ \A j \in CondKeys \ {k} : conds'[j].alert = conds[j].alert
    BY <1>6 DEF Ended
  <2>5. \A j \in CondKeys : conds'[j].alert # 0 =>
          alerts'[conds'[j].alert].key = j /\ alerts'[conds'[j].alert].active
    <3>1. \A j \in CondKeys : conds'[j].alert # 0 => j # k /\ conds'[j].alert = conds[j].alert
      BY <2>4
    <3>2. \A j \in CondKeys : j # k /\ conds[j].alert # 0 => conds[j].alert # conds[k].alert
      BY <2>1 DEF OwnedOnce
    <3> QED  BY <2>3, <3>1, <3>2, HeldInTable DEF OwnedOnce
  <2>6. \A i \in DOMAIN alerts' : alerts'[i].active => \E j \in CondKeys : conds'[j].alert = i
    <3>1. ASSUME NEW i \in DOMAIN alerts, alerts'[i].active
          PROVE  \E j \in CondKeys \ {k} : conds[j].alert = i
      BY <2>3, <3>1 DEF OwnedOnce
    <3> QED  BY <2>3, <2>4, <3>1
  <2>7. \A j \in EventKeys : events'[j] # 0 =>
          /\ alerts'[events'[j]].key = j
          /\ \A i \in DOMAIN alerts' : alerts'[i].key = j => i <= events'[j]
    BY <2>3, <2>4, HeldInTable DEF OwnedOnce
  <2> QED  BY <2>5, <2>6, <2>7 DEF OwnedOnce
<1>7. CASE Quiet
  BY <1>7 DEF Quiet, SameOwners, OwnedOnce
<1> QED  BY <1>1, <1>2, <1>3, <1>4, <1>5, <1>6, <1>7, StepEffects

(* What merging a repeat does to the tables. *)
RepeatedAlert(t, k, at) ==
  \E a \in AlertRec :
    /\ a.key = k /\ a.active = alerts[events[k]].active /\ a.first = alerts[events[k]].first
    /\ a.count = alerts[events[k]].count + 1 /\ a.last = at
    /\ alerts' = [alerts EXCEPT ![events[k]] = a]
    /\ Collect(t, NoticeOf(events[k], a, "repeated"))

(* Raise inside the window changes the open alert so. *)
LEMMA RepeatFacts ==
  ASSUME TypeOK, OwnedOnce, NEW t \in Threads, NEW k \in EventKeys, NEW sev \in Severities,
         NEW at \in Dates(t), RaiseRepeat(t, k, sev, at)
  PROVE  /\ events[k] \in DOMAIN alerts /\ alerts[events[k]].key = k
         /\ UNCHANGED <<clock, conds, events, history, seen, summed>>
         /\ calls' = [calls EXCEPT ![k] = @ + 1]
         /\ RepeatedAlert(t, k, at)
<1> DEFINE id == events[k]
           a == [alerts[id] EXCEPT !.count = @ + 1, !.last = at,
                                   !.sev = IF sev > @ THEN sev ELSE @]
<1>1. /\ alerts' = [alerts EXCEPT ![id] = a] /\ Collect(t, NoticeOf(id, a, "repeated"))
      /\ UNCHANGED <<clock, conds, events, history, seen, summed>>
      /\ calls' = [calls EXCEPT ![k] = @ + 1]
  BY DEF RaiseRepeat
<1>2. id \in DOMAIN alerts /\ alerts[id].key = k
  BY HeldInTable DEF RaiseRepeat, Merges, OwnedOnce
<1>3. alerts[id] \in AlertRec /\ at \in Time
  BY <1>2, AlertsDomain, ModelAssumption DEF Dates, Time, TypeOK
<1>4. (IF sev > alerts[id].sev THEN sev ELSE alerts[id].sev) \in Severities
      /\ alerts[id].count + 1 \in Nat
  <2>1. alerts[id].sev \in Severities /\ alerts[id].count \in Nat
    BY <1>3 DEF AlertRec
  <2> QED  BY <2>1
<1>5. /\ a \in AlertRec /\ a.key = k /\ a.active = alerts[id].active
      /\ a.first = alerts[id].first /\ a.count = alerts[id].count + 1 /\ a.last = at
  BY <1>2, <1>3, <1>4, ZenonT(30) DEF AlertRec
<1> HIDE DEF a, id
<1>6. RepeatedAlert(t, k, at)
  BY <1>1, <1>2, <1>5, Zenon DEF id, RepeatedAlert
<1> QED  BY <1>1, <1>2, <1>6, Zenon DEF id

(* What a new event alert does to the tables. *)
NewAlert(t, k, at) ==
  \E a \in AlertRec :
    /\ a.key = k /\ a.active = FALSE /\ a.first = at /\ a.last = at /\ a.count = 1
    /\ alerts' = Append(alerts, a) /\ Collect(t, NoticeOf(NextID, a, "raised"))

(* Raise without an open window adds such an alert. *)
LEMMA NewFacts ==
  ASSUME TypeOK, NEW t \in Threads, NEW k \in EventKeys, NEW sev \in Severities,
         NEW at \in Dates(t), RaiseNew(t, k, sev, at)
  PROVE  /\ UNCHANGED <<clock, conds, seen, summed>> /\ calls' = [calls EXCEPT ![k] = @ + 1]
         /\ NextID \in IDs /\ history' = PushHistory(history, NextID)
         /\ events'[k] = NextID /\ \A j \in EventKeys \ {k} : events'[j] = events[j]
         /\ NewAlert(t, k, at)
<1> DEFINE a == [key |-> k, sev |-> sev, first |-> at, last |-> at,
                 count |-> 1, active |-> FALSE, resolved |-> 0]
<1>1. /\ UNCHANGED <<clock, conds, seen, summed>> /\ calls' = [calls EXCEPT ![k] = @ + 1]
      /\ NextID \in IDs /\ history' = PushHistory(history, NextID)
      /\ events' = [events EXCEPT ![k] = NextID]
      /\ alerts' = Append(alerts, a) /\ Collect(t, NoticeOf(NextID, a, "raised"))
  BY DEF RaiseNew
<1>2. /\ a \in AlertRec /\ a.key = k /\ a.active = FALSE /\ a.first = at /\ a.last = at
      /\ a.count = 1
  BY ModelAssumption DEF AlertRec, Time, Dates, TypeOK, Keys
<1>3. events'[k] = NextID /\ \A j \in EventKeys \ {k} : events'[j] = events[j]
  BY <1>1 DEF TypeOK
<1> HIDE DEF a
<1> QED  BY <1>1, <1>2, <1>3, Zenon DEF NewAlert

(* A source dates an event at most MaxSkew before now. *)
LEMMA DateBounds ==
  ASSUME TypeOK, NEW t \in Threads, NEW at \in Dates(t)
  PROVE  at \in Nat /\ clock \in Nat /\ at <= clock /\ clock - at <= MaxSkew
BY ModelAssumption DEF Dates, TypeOK, Time

(* The dates of an alert are dates, and what Dedup and MaxSkew are. *)
LEMMA AlertDates ==
  ASSUME TypeOK
  PROVE  /\ Dedup \in Nat /\ MaxSkew \in Nat /\ clock \in Nat /\ tick.at \in Nat /\ tick.at <= clock
         /\ \A i \in DOMAIN alerts : /\ i \in Nat /\ alerts[i].first \in Nat
                                     /\ alerts[i].last \in Nat /\ alerts[i].count \in Nat
<1>1. \A i \in DOMAIN alerts : alerts[i] \in AlertRec /\ i \in Nat
  BY AlertsDomain
<1>2. MaxTime \in Nat /\ Dedup \in Nat /\ MaxSkew \in Nat
  BY ConfigAssumption, ModelAssumption
<1>3. clock \in Nat /\ tick.at \in Nat /\ tick.at <= clock
  BY <1>2 DEF Time, TypeOK
<1>4. ASSUME NEW i \in DOMAIN alerts
      PROVE  alerts[i].first \in Nat /\ alerts[i].last \in Nat /\ alerts[i].count \in Nat
  <2>1. alerts[i].first \in Time /\ alerts[i].last \in Time /\ alerts[i].count \in Nat
    BY <1>1 DEF AlertRec
  <2> QED  BY <1>2, <2>1 DEF Time
<1> QED  BY <1>1, <1>2, <1>3, <1>4

(* An event alert outside its window was last seen a dedup period ago, and *)
(* its repeats were summed up or it has a successor.                       *)
LEMMA WindowStep == TypeOK /\ OwnedOnce /\ WindowInv /\ [Next]_vars => WindowInv'
<1> SUFFICES ASSUME TypeOK, OwnedOnce, WindowInv, [Next]_vars PROVE WindowInv'
  OBVIOUS
<1>0. CondKeys \cap EventKeys = {}
  BY ModelAssumption
<1>1. ASSUME NEW t \in Threads, NEW k \in EventKeys, NEW sev \in Severities,
             NEW at \in Dates(t), RaiseRepeat(t, k, sev, at)
      PROVE  WindowInv'
  <2>1. /\ events[k] \in DOMAIN alerts /\ alerts[events[k]].key = k
        /\ UNCHANGED <<clock, events, summed>>
    BY <1>1, RepeatFacts, ZenonT(30)
  <2>r. RepeatedAlert(t, k, at)
    BY <1>1, RepeatFacts
  <2>2. PICK a \in AlertRec :
              /\ a.key = k /\ a.active = alerts[events[k]].active /\ a.first = alerts[events[k]].first
              /\ a.count = alerts[events[k]].count + 1 /\ a.last = at
              /\ alerts' = [alerts EXCEPT ![events[k]] = a]
              /\ Collect(t, NoticeOf(events[k], a, "repeated"))
    BY <2>r, Zenon DEF RepeatedAlert
  <2>3. /\ DOMAIN alerts' = DOMAIN alerts
        /\ \A i \in DOMAIN alerts : alerts'[i] = IF i = events[k] THEN a ELSE alerts[i]
    BY <2>1, <2>2, UpdateFacts
  <2>4. \A i \in DOMAIN alerts : alerts'[i].key = alerts[i].key /\ (i # events[k] => alerts'[i] = alerts[i])
    BY <2>1, <2>2, <2>3, Zenon
  <2>5. ASSUME NEW i \in DOMAIN alerts, alerts'[i].key \in EventKeys, events'[alerts'[i].key] # i
        PROVE  /\ clock' - alerts'[i].last >= Dedup
               /\ alerts'[i].count > 1 => i \in summed'
                    \/ \E j \in DOMAIN alerts' : j > i /\ alerts'[j].key = alerts'[i].key
    <3>1. i # events[k] /\ alerts'[i] = alerts[i] /\ events[alerts[i].key] # i
      BY <2>1, <2>4, <2>5, ZenonT(30)
    <3> QED  BY <2>1, <2>3, <2>4, <2>5, <3>1 DEF WindowInv
  <2> QED  BY <2>3, <2>5 DEF WindowInv
<1>2. ASSUME NEW t \in Threads, NEW k \in EventKeys, NEW sev \in Severities,
             NEW at \in Dates(t), RaiseNew(t, k, sev, at)
      PROVE  WindowInv'
  <2>1. /\ UNCHANGED <<clock, summed>> /\ events'[k] = NextID
        /\ \A j \in EventKeys \ {k} : events'[j] = events[j]
    BY <1>2, NewFacts, ZenonT(30)
  <2>0. NewAlert(t, k, at)
    BY <1>2, NewFacts, Zenon
  <2>2. PICK a \in AlertRec :
              /\ a.key = k /\ a.active = FALSE /\ a.first = at /\ a.last = at /\ a.count = 1
              /\ alerts' = Append(alerts, a) /\ Collect(t, NoticeOf(NextID, a, "raised"))
    BY <2>0 DEF NewAlert
  <2>3. /\ DOMAIN alerts' = DOMAIN alerts \cup {NextID} /\ NextID \notin DOMAIN alerts
        /\ NextID \in Nat /\ \A i \in DOMAIN alerts : alerts'[i] = alerts[i] /\ i < NextID
        /\ alerts'[NextID] = a
    BY <2>2, AppendFacts
  <2>4. ASSUME NEW i \in DOMAIN alerts', alerts'[i].key \in EventKeys, events'[alerts'[i].key] # i
        PROVE  /\ clock - alerts'[i].last >= Dedup
               /\ alerts'[i].count > 1 => i \in summed
                    \/ \E j \in DOMAIN alerts' : j > i /\ alerts'[j].key = alerts'[i].key
    <3>1. i \in DOMAIN alerts /\ i # NextID /\ alerts'[i] = alerts[i]
      BY <2>1, <2>2, <2>3, <2>4
    <3>2. CASE alerts[i].key = k /\ events[k] = i
      <4>1. at - alerts[i].last >= Dedup
        <5>1. ~Merges(k, at) /\ events[k] # 0
          BY <1>2, <3>1, <3>2, HeldInTable, ZenonT(30) DEF RaiseNew
        <5>2. ~(at - alerts[i].last < Dedup)
          BY <3>2, <5>1 DEF Merges
        <5> QED  BY <3>1, <5>2, AlertDates, DateBounds
      <4>2. clock - alerts[i].last >= Dedup
        BY <3>1, <4>1, DateBounds, AlertDates
      <4> QED  BY <2>2, <2>3, <3>1, <3>2, <4>2, ZenonT(30)
    <3>3. CASE ~(alerts[i].key = k /\ events[k] = i)
      <4>1. events[alerts[i].key] # i
        BY <2>1, <2>4, <3>1, <3>3, Zenon
      <4> QED  BY <2>3, <2>4, <3>1, <4>1 DEF WindowInv
    <3> QED  BY <3>2, <3>3
  <2> QED  BY <2>1, <2>4, ZenonT(30) DEF WindowInv
<1>3. ASSUME NEW k \in EventKeys, EvalExpire(k) PROVE WindowInv'
  <2>1. CASE ~Expired(k)
    BY <1>3, <2>1 DEF EvalExpire, WindowInv
  <2>2. CASE Expired(k)
    <3>1. /\ UNCHANGED <<clock, alerts>> /\ events' = [events EXCEPT ![k] = 0]
          /\ summed \subseteq summed'
          /\ alerts[events[k]].count > 1 => events[k] \in summed'
      <4>1. events[k] \in DOMAIN alerts
        BY <2>2, HeldInTable DEF Expired
      <4> QED  BY <1>3, <2>2, <4>1, AlertDates DEF EvalExpire
    <3>2. events[k] \in DOMAIN alerts /\ tick.at - alerts[events[k]].last >= Dedup
      BY <2>2, HeldInTable DEF Expired
    <3>3. clock - alerts[events[k]].last >= Dedup
      BY <3>2, AlertDates
    <3>4. \A j \in EventKeys \ {k} : events'[j] = events[j]
      BY <3>1 DEF TypeOK
    <3> QED  BY <3>1, <3>2, <3>3, <3>4 DEF WindowInv
  <2> QED  BY <2>1, <2>2
<1>4. ASSUME NEW k \in CondKeys, Begun(k) \/ Updated(k) \/ Ended(k) PROVE WindowInv'
  <2>1. /\ DOMAIN alerts \subseteq DOMAIN alerts' /\ UNCHANGED <<clock, events, summed>>
        /\ \A i \in DOMAIN alerts : alerts'[i].key = alerts[i].key
        /\ \A i \in DOMAIN alerts : alerts[i].key \in EventKeys => alerts'[i] = alerts[i]
        /\ \A i \in DOMAIN alerts' \ DOMAIN alerts : alerts'[i].key \in CondKeys
    BY <1>4, CondStepEvents
  <2> QED  BY <1>0, <2>1 DEF WindowInv
<1>5. CASE Quiet
  <2>1. \A x \in Nat : clock - x >= Dedup => clock' - x >= Dedup
    BY <1>5, AlertDates DEF Quiet
  <2> QED  BY <1>5, <2>1, AlertDates, ZenonT(30) DEF Quiet, WindowInv
<1> QED  BY <1>1, <1>2, <1>3, <1>4, <1>5, StepEffects

(* Two event alerts of one key stay apart: a new one is a dedup period     *)
(* after the open one, and at most MaxSkew less after a closed one; the    *)
(* date of a repeat changes the newest alert only.                         *)
LEMMA SpacingStep ==
  TypeOK /\ OwnedOnce /\ WindowInv /\ DedupSpacing /\ [Next]_vars => DedupSpacing'
<1> SUFFICES ASSUME TypeOK, OwnedOnce, WindowInv, DedupSpacing, [Next]_vars PROVE DedupSpacing'
  OBVIOUS
<1>0. CondKeys \cap EventKeys = {}
  BY ModelAssumption
<1>1. ASSUME NEW t \in Threads, NEW k \in EventKeys, NEW sev \in Severities,
             NEW at \in Dates(t), RaiseRepeat(t, k, sev, at)
      PROVE  DedupSpacing'
  <2>1. events[k] \in DOMAIN alerts /\ alerts[events[k]].key = k
    BY <1>1, RepeatFacts
  <2>r. RepeatedAlert(t, k, at)
    BY <1>1, RepeatFacts
  <2>2. PICK a \in AlertRec :
              /\ a.key = k /\ a.active = alerts[events[k]].active /\ a.first = alerts[events[k]].first
              /\ a.count = alerts[events[k]].count + 1 /\ a.last = at
              /\ alerts' = [alerts EXCEPT ![events[k]] = a]
              /\ Collect(t, NoticeOf(events[k], a, "repeated"))
    BY <2>r, Zenon DEF RepeatedAlert
  <2>3. /\ DOMAIN alerts' = DOMAIN alerts
        /\ \A i \in DOMAIN alerts : alerts'[i] = IF i = events[k] THEN a ELSE alerts[i]
    BY <2>1, <2>2, UpdateFacts
  <2> SUFFICES ASSUME NEW i \in DOMAIN alerts, NEW j \in DOMAIN alerts,
                      i < j, alerts'[i].key = alerts'[j].key, alerts'[i].key \in EventKeys
               PROVE  alerts'[j].first - alerts'[i].last >= Dedup - MaxSkew
    BY <2>3 DEF DedupSpacing
  <2>4. i # events[k]
    <3>1. events[k] # 0 => \A m \in DOMAIN alerts : alerts[m].key = k => m <= events[k]
      BY DEF OwnedOnce
    <3>2. events[k] # 0
      BY <2>1, HeldInTable
    <3>3. i = events[k] => alerts[j].key = k
      <4>1. alerts'[j].key = alerts[j].key /\ (i = events[k] => alerts'[i].key = k)
        BY <2>1, <2>2, <2>3, ZenonT(30)
      <4> QED  BY <4>1
    <3> QED  BY <3>1, <3>2, <3>3, AlertsDomain
  <2>5. alerts'[i] = alerts[i] /\ alerts'[j].first = alerts[j].first /\ alerts'[j].key = alerts[j].key
    BY <2>1, <2>2, <2>3, <2>4, Zenon
  <2> QED  BY <2>5 DEF DedupSpacing
<1>2. ASSUME NEW t \in Threads, NEW k \in EventKeys, NEW sev \in Severities,
             NEW at \in Dates(t), RaiseNew(t, k, sev, at)
      PROVE  DedupSpacing'
  <2>0. NewAlert(t, k, at)
    BY <1>2, NewFacts, Zenon
  <2>2. PICK a \in AlertRec :
              /\ a.key = k /\ a.active = FALSE /\ a.first = at /\ a.last = at /\ a.count = 1
              /\ alerts' = Append(alerts, a) /\ Collect(t, NoticeOf(NextID, a, "raised"))
    BY <2>0 DEF NewAlert
  <2>3. /\ DOMAIN alerts' = DOMAIN alerts \cup {NextID} /\ NextID \notin DOMAIN alerts
        /\ NextID \in Nat /\ \A i \in DOMAIN alerts : alerts'[i] = alerts[i] /\ i < NextID
        /\ alerts'[NextID] = a
    BY <2>2, AppendFacts
  <2> SUFFICES ASSUME NEW i \in DOMAIN alerts', NEW j \in DOMAIN alerts',
                      i < j, alerts'[i].key = alerts'[j].key, alerts'[i].key \in EventKeys
               PROVE  alerts'[j].first - alerts'[i].last >= Dedup - MaxSkew
    BY DEF DedupSpacing
  <2>4. i \in DOMAIN alerts /\ alerts'[i] = alerts[i]
    BY <2>3, AlertsDomain
  <2>5. CASE j # NextID
    <3>1. j \in DOMAIN alerts /\ alerts'[j] = alerts[j]
      BY <2>3, <2>5, ZenonT(30)
    <3> QED  BY <2>4, <3>1, ZenonT(30) DEF DedupSpacing
  <2>6. CASE j = NextID
    <3>1. alerts[i].key = k /\ alerts'[j].first = at
      BY <2>2, <2>3, <2>4, <2>6
    <3>2. CASE events[k] = i
      <4>1. ~Merges(k, at) /\ events[k] # 0
        BY <1>2, <2>4, <3>2, HeldInTable, Zenon DEF RaiseNew
      <4>2. ~(at - alerts[i].last < Dedup)
        BY <3>2, <4>1 DEF Merges
      <4> QED  BY <2>4, <3>1, <4>2, DateBounds, AlertDates
    <3>3. CASE events[k] # i
      <4>1. clock - alerts[i].last >= Dedup
        BY <2>4, <3>1, <3>3 DEF WindowInv
      <4> QED  BY <2>4, <3>1, <4>1, DateBounds, AlertDates
    <3> QED  BY <3>2, <3>3, ZenonT(30)
  <2> QED  BY <2>5, <2>6
<1>3. ASSUME NEW k \in EventKeys, EvalExpire(k) PROVE DedupSpacing'
  BY <1>3 DEF EvalExpire, DedupSpacing
<1>4. ASSUME NEW k \in CondKeys, Begun(k) \/ Updated(k) \/ Ended(k) PROVE DedupSpacing'
  <2>1. /\ DOMAIN alerts \subseteq DOMAIN alerts'
        /\ \A i \in DOMAIN alerts : alerts'[i].key = alerts[i].key
        /\ \A i \in DOMAIN alerts : alerts[i].key \in EventKeys => alerts'[i] = alerts[i]
        /\ \A i \in DOMAIN alerts' \ DOMAIN alerts : alerts'[i].key \in CondKeys
    BY <1>4, CondStepEvents
  <2> QED  BY <1>0, <2>1 DEF DedupSpacing
<1>5. CASE Quiet
  BY <1>5 DEF Quiet, DedupSpacing
<1> QED  BY <1>1, <1>2, <1>3, <1>4, <1>5, StepEffects

(* What pushHistory returns: the new alert at the end, and before it the   *)
(* old entries, the oldest left out if the history was full.               *)
LEMMA PushFull ==
  ASSUME NEW h \in Seq(IDs), NEW id \in IDs, NEW n \in Nat \ {0}, Len(h) = n, n = HistoryLimit
  PROVE  /\ Len(PushHistory(h, id)) = n /\ PushHistory(h, id)[n] = id
         /\ \A p \in 1 .. n - 1 : PushHistory(h, id)[p] = h[p + 1]
<1> DEFINE full == Append(h, id)
<1>1. /\ full \in Seq(IDs) /\ Len(full) = n + 1
      /\ full[n + 1] = id /\ \A p \in 1 .. n : full[p] = h[p]
  BY AppendProperties
<1>2. PushHistory(h, id) = SubSeq(full, 2, n + 1)
  <2>1. Len(full) > HistoryLimit /\ Len(full) - HistoryLimit + 1 = 2
    BY <1>1
  <2> QED  BY <1>1, <2>1 DEF PushHistory
<1> HIDE DEF full
<1>3. /\ Len(SubSeq(full, 2, n + 1)) = n
      /\ \A p \in 1 .. n : SubSeq(full, 2, n + 1)[p] = full[p + 1]
  BY <1>1, SubSeqProperties
<1> QED  BY <1>1, <1>2, <1>3

(* With room left, all entries stay. *)
LEMMA PushRoom ==
  ASSUME NEW h \in Seq(IDs), NEW id \in IDs, NEW n \in Nat, Len(h) = n, n < HistoryLimit
  PROVE  /\ Len(PushHistory(h, id)) = n + 1 /\ PushHistory(h, id)[n + 1] = id
         /\ \A p \in 1 .. n : PushHistory(h, id)[p] = h[p]
<1> DEFINE full == Append(h, id)
<1>1. /\ full \in Seq(IDs) /\ Len(full) = n + 1
      /\ full[n + 1] = id /\ \A p \in 1 .. n : full[p] = h[p]
  BY AppendProperties
<1>2. PushHistory(h, id) = full
  <2>1. ~(Len(full) > HistoryLimit)
    BY <1>1, ConfigAssumption
  <2> QED  BY <2>1 DEF PushHistory
<1> HIDE DEF full
<1> QED  BY <1>1, <1>2

(* pushHistory of an alert that is not in the history. *)
LEMMA PushStep ==
  ASSUME TypeOK, HistoryInv, NEW id \in IDs, id \notin Kept, history' = PushHistory(history, id)
  PROVE  /\ Len(history') <= HistoryLimit
         /\ \A p, q \in DOMAIN history' : history'[p] = history'[q] => p = q
         /\ Kept' \subseteq Kept \cup {id} /\ id \in Kept'
         /\ \A i \in Kept : i \in Kept' \/ Len(history') = HistoryLimit
         /\ Len(history) = HistoryLimit => Len(history') = HistoryLimit
<1> DEFINE n == Len(history)
<1>0. /\ history \in Seq(IDs) /\ n \in Nat /\ DOMAIN history = 1 .. n
      /\ n <= HistoryLimit /\ HistoryLimit \in Nat \ {0} /\ history' \in Seq(IDs)
  BY LenProperties, ConfigAssumption, PushHistoryType DEF TypeOK, HistoryInv
<1>d. DOMAIN history' = 1 .. Len(history')
  BY <1>0, LenProperties
<1>i. /\ \A p, q \in 1 .. n : history[p] = history[q] => p = q
      /\ \A p \in 1 .. n : history[p] \in Kept /\ history[p] # id
      /\ \A i \in Kept : \E p \in 1 .. n : history[p] = i
  BY <1>0, Zenon DEF HistoryInv, Kept
<1>1. CASE n = HistoryLimit
  <2>1. /\ Len(history') = n /\ history'[n] = id
        /\ \A p \in 1 .. n - 1 : history'[p] = history[p + 1]
    <3> HIDE DEF n
    <3> QED  BY <1>0, <1>1, PushFull DEF n
  <2> HIDE DEF n
  <2>2. \A p \in 1 .. n - 1 : p + 1 \in 1 .. n /\ history'[p] \in Kept /\ history'[p] # id
    BY <1>0, <1>i, <2>1
  <2>3. ASSUME NEW p \in 1 .. n, NEW q \in 1 .. n, history'[p] = history'[q] PROVE p = q
    <3>1. CASE p = n \/ q = n
      BY <1>0, <2>1, <2>2, <2>3, <3>1
    <3>2. CASE p # n /\ q # n
      <4>1. p \in 1 .. n - 1 /\ q \in 1 .. n - 1
        BY <1>0, <3>2
      <4>2. p + 1 = q + 1
        BY <1>i, <2>1, <2>2, <2>3, <4>1
      <4> QED  BY <4>1, <4>2
    <3> QED  BY <3>1, <3>2
  <2>4. n \in 1 .. n /\ \A p \in 1 .. n : p = n \/ p \in 1 .. n - 1
    BY <1>0, <1>1
  <2>5. Kept' = {history'[p] : p \in 1 .. n}
    BY <1>d, <2>1 DEF Kept
  <2>6. Kept' \subseteq Kept \cup {id} /\ id \in Kept'
    BY <2>1, <2>2, <2>4, <2>5
  <2>7. \A p, q \in DOMAIN history' : history'[p] = history'[q] => p = q
    BY <1>d, <2>1, <2>3
  <2>8. Len(history') = HistoryLimit /\ Len(history') <= HistoryLimit
    BY <1>0, <1>1, <2>1
  <2> QED  BY <2>6, <2>7, <2>8
<1>2. CASE n # HistoryLimit
  <2>1. /\ Len(history') = n + 1 /\ history'[n + 1] = id
        /\ \A p \in 1 .. n : history'[p] = history[p]
    <3> HIDE DEF n
    <3>1. n < HistoryLimit
      BY <1>0, <1>2
    <3> QED  BY <1>0, <3>1, PushRoom DEF n
  <2>2. n + 1 \in 1 .. n + 1 /\ \A p \in 1 .. n + 1 : p = n + 1 \/ p \in 1 .. n
    BY <1>0
  <2> HIDE DEF n
  <2>3. ASSUME NEW p \in 1 .. n + 1, NEW q \in 1 .. n + 1, history'[p] = history'[q] PROVE p = q
    BY <1>i, <2>1, <2>2, <2>3
  <2>4. Kept' = {history'[p] : p \in 1 .. n + 1}
    BY <1>d, <2>1 DEF Kept
  <2>5. n + 1 <= HistoryLimit /\ \A p \in 1 .. n : p \in 1 .. n + 1
    BY <1>0, <1>2
  <2>6. Kept \subseteq Kept'
    BY <1>i, <2>1, <2>4, <2>5
  <2>7. Kept' \subseteq Kept \cup {id} /\ id \in Kept'
    BY <1>i, <2>1, <2>2, <2>4
  <2> QED  BY <1>2, <1>d, <2>1, <2>3, <2>5, <2>6, <2>7 DEF n
<1> QED  BY <1>1, <1>2

(* The history keeps exactly the alerts that are over. *)
LEMMA HistoryStep == TypeOK /\ OwnedOnce /\ HistoryInv /\ [Next]_vars => HistoryInv'
<1> SUFFICES ASSUME TypeOK, OwnedOnce, HistoryInv, [Next]_vars PROVE HistoryInv'
  OBVIOUS
<1>0. CondKeys \cap EventKeys = {} /\ \A i \in Kept : i \in DOMAIN alerts /\ ~alerts[i].active
  BY ModelAssumption DEF HistoryInv
<1>1. ASSUME NEW t \in Threads, NEW k \in EventKeys, NEW sev \in Severities,
             NEW at \in Dates(t), RaiseRepeat(t, k, sev, at)
      PROVE  HistoryInv'
  <2>1. events[k] \in DOMAIN alerts /\ history' = history
    BY <1>1, RepeatFacts, ZenonT(30)
  <2>r. RepeatedAlert(t, k, at)
    BY <1>1, RepeatFacts
  <2>2. PICK a \in AlertRec :
              /\ a.key = k /\ a.active = alerts[events[k]].active /\ a.first = alerts[events[k]].first
              /\ a.count = alerts[events[k]].count + 1 /\ a.last = at
              /\ alerts' = [alerts EXCEPT ![events[k]] = a]
              /\ Collect(t, NoticeOf(events[k], a, "repeated"))
    BY <2>r, Zenon DEF RepeatedAlert
  <2>3. /\ DOMAIN alerts' = DOMAIN alerts
        /\ \A i \in DOMAIN alerts : alerts'[i].active = alerts[i].active
    BY <2>1, <2>2, UpdateFacts
  <2> QED  BY <2>1, <2>3 DEF HistoryInv, Kept
<1>2. ASSUME NEW t \in Threads, NEW k \in EventKeys, NEW sev \in Severities,
             NEW at \in Dates(t), RaiseNew(t, k, sev, at)
      PROVE  HistoryInv'
  <2>1. NewAlert(t, k, at) /\ NextID \in IDs /\ history' = PushHistory(history, NextID)
    BY <1>2, NewFacts, ZenonT(30)
  <2>2. PICK a \in AlertRec : a.active = FALSE /\ alerts' = Append(alerts, a)
    BY <2>1, Zenon DEF NewAlert
  <2>3. /\ DOMAIN alerts' = DOMAIN alerts \cup {NextID} /\ NextID \notin DOMAIN alerts
        /\ \A i \in DOMAIN alerts : alerts'[i] = alerts[i]
        /\ alerts'[NextID].active = FALSE
    BY <2>2, AppendFacts
  <2>4. NextID \notin Kept
    BY <1>0, <2>3
  <2>5. /\ Len(history') <= HistoryLimit
        /\ \A p, q \in DOMAIN history' : history'[p] = history'[q] => p = q
        /\ Kept' \subseteq Kept \cup {NextID} /\ NextID \in Kept'
        /\ \A i \in Kept : i \in Kept' \/ Len(history') = HistoryLimit
        /\ Len(history) = HistoryLimit => Len(history') = HistoryLimit
    BY <2>1, <2>4, PushStep
  <2> QED  BY <1>0, <2>3, <2>5 DEF HistoryInv
<1>3. ASSUME NEW k \in EventKeys, EvalExpire(k) PROVE HistoryInv'
  BY <1>3 DEF EvalExpire, HistoryInv, Kept
<1>4. ASSUME NEW k \in CondKeys, Begun(k) PROVE HistoryInv'
  <2>1. PICK a \in AlertRec : a.key = k /\ a.active = TRUE /\ alerts' = Append(alerts, a)
    BY <1>4, ZenonT(30) DEF Begun
  <2>2. history' = history
    BY <1>4 DEF Begun
  <2>3. /\ DOMAIN alerts' = DOMAIN alerts \cup {NextID} /\ NextID \notin DOMAIN alerts
        /\ \A i \in DOMAIN alerts : alerts'[i] = alerts[i]
        /\ alerts'[NextID].active = TRUE
    BY <2>1, AppendFacts
  <2> QED  BY <1>0, <2>2, <2>3 DEF HistoryInv, Kept
<1>5. ASSUME NEW k \in CondKeys, Updated(k) PROVE HistoryInv'
  <2>1. conds[k].alert \in DOMAIN alerts /\ history' = history
    BY <1>5, HeldInTable, ZenonT(30) DEF Updated
  <2>2. PICK a \in AlertRec : /\ a.key = alerts[conds[k].alert].key
                              /\ a.active = alerts[conds[k].alert].active
                              /\ alerts' = [alerts EXCEPT ![conds[k].alert] = a]
    BY <1>5, Zenon DEF Updated
  <2>3. /\ DOMAIN alerts' = DOMAIN alerts
        /\ \A i \in DOMAIN alerts : alerts'[i].active = alerts[i].active
    BY <2>1, <2>2, UpdateFacts
  <2> QED  BY <2>1, <2>3 DEF HistoryInv, Kept
<1>6. ASSUME NEW k \in CondKeys, Ended(k) PROVE HistoryInv'
  <2> DEFINE id == conds[k].alert
  <2>1. /\ id \in DOMAIN alerts /\ id \in IDs /\ alerts[id].active
        /\ history' = PushHistory(history, id)
    BY <1>6, HeldInTable, AlertsDomain, ZenonT(30) DEF Ended, OwnedOnce
  <2>2. PICK a \in AlertRec : a.active = FALSE /\ alerts' = [alerts EXCEPT ![id] = a]
    BY <1>6, Zenon DEF Ended
  <2> HIDE DEF id
  <2>3. /\ DOMAIN alerts' = DOMAIN alerts /\ alerts'[id].active = FALSE
        /\ \A i \in DOMAIN alerts : i # id => alerts'[i].active = alerts[i].active
    BY <2>1, <2>2, UpdateFacts
  <2>4. id \notin Kept
    BY <1>0, <2>1
  <2>5. /\ Len(history') <= HistoryLimit
        /\ \A p, q \in DOMAIN history' : history'[p] = history'[q] => p = q
        /\ Kept' \subseteq Kept \cup {id} /\ id \in Kept'
        /\ \A i \in Kept : i \in Kept' \/ Len(history') = HistoryLimit
        /\ Len(history) = HistoryLimit => Len(history') = HistoryLimit
    BY <2>1, <2>4, PushStep
  <2> QED  BY <1>0, <2>1, <2>3, <2>5, ZenonT(30) DEF HistoryInv
<1>7. CASE Quiet
  BY <1>7 DEF Quiet, HistoryInv, Kept
<1> QED  BY <1>1, <1>2, <1>3, <1>4, <1>5, <1>6, <1>7, StepEffects

(* The tables are in order in every reachable state. *)
LEMMA TableAlways == Spec => [](TypeOK /\ TableInv)
<1>1. Init => TableInv
  <2> SUFFICES ASSUME Init PROVE TableInv
    OBVIOUS
  <2>1. DOMAIN alerts = {} /\ DOMAIN history = {} /\ Len(history) = 0
    BY EmptySeq DEF Init
  <2>2. OwnedOnce /\ WindowInv /\ DedupSpacing
    BY <2>1, Zenon DEF Init, NoCond, OwnedOnce, WindowInv, DedupSpacing
  <2>3. HistoryInv
    BY <2>1, ConfigAssumption DEF HistoryInv, Kept
  <2> QED  BY <2>2, <2>3 DEF TableInv
<1>2. TypeOK /\ TableInv /\ [Next]_vars => TableInv'
  BY OwnedStep, WindowStep, SpacingStep, HistoryStep DEF TableInv
<1> QED  BY <1>1, <1>2, TypeCorrect, PTL DEF Spec

(* Raise and expireEvents: two event alerts of one key are at least the    *)
(* dedup window apart, less how far in the past a source may date events,  *)
(* whatever Evaluate expired in between.                                   *)
THEOREM EventsApart == Spec => []DedupSpacing
<1>1. TableInv => DedupSpacing
  BY DEF TableInv
<1> QED  BY <1>1, TableAlways, PTL
=============================================================================
