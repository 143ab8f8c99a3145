------------------------- MODULE AlertEngineProofs -------------------------
(***************************************************************************)
(* Theorems about the alert engine for every set of keys, sources,         *)
(* thresholds and durations: type correctness and the timing of condition  *)
(* alerts.  AlertTableProofs and AlertReportProofs build on it.            *)
(***************************************************************************)
EXTENDS AlertEngine, SequenceTheorems, TLAPS

(* PushHistory keeps a sequence of IDs. *)
LEMMA PushHistoryType ==
  ASSUME NEW h \in Seq(IDs), NEW id \in IDs
  PROVE  PushHistory(h, id) \in Seq(IDs)
<1> DEFINE full == Append(h, id)
<1>1. full \in Seq(IDs) /\ Len(full) \in Nat
  BY AppendProperties, LenProperties
<1>2. CASE Len(full) > HistoryLimit
  <2> DEFINE m == Len(full) - HistoryLimit + 1
  <2>1. m \in Int /\ \A i \in m .. Len(full) : full[i] \in IDs
    BY <1>1, <1>2, ConfigAssumption, ElementOfSeq
  <2>2. SubSeq(full, m, Len(full)) \in Seq(IDs)
    <3> HIDE DEF m, full
    <3> QED  BY <1>1, <2>1, SubSeqProperties
  <2> QED  BY <1>2, <2>2, Zenon DEF PushHistory
<1>3. CASE ~(Len(full) > HistoryLimit)
  BY <1>1, <1>3 DEF PushHistory
<1> QED  BY <1>2, <1>3

(* Severity is a severity, for every sample. *)
LEMMA SeverityType ==
  \A k \in CondKeys, v \in Values : Severity(k, v) \in Severities
BY DEF Severity, Severities, Info, Warning, Critical

(* The condState written back by Engine.step is well formed. *)
LEMMA ObservedType ==
  ASSUME TypeOK, NEW k \in CondKeys, NEW v \in Values
  PROVE  /\ Observed(k, v) \in CondState
         /\ Observed(k, v).alert = conds[k].alert
         /\ Observed(k, v).belowAt = conds[k].belowAt
         /\ BelowAt(k) \in Time
BY SeverityType, Zenon DEF TypeOK, Observed, CondState, BelowAt

(* Appending a notice to the list of one goroutine. *)
LEMMA CollectType ==
  ASSUME TypeOK, NEW t \in Threads, NEW n \in Notice, Collect(t, n)
  PROVE  out' \in [Threads -> Seq(Notice)]
<1>1. Append(out[t], n) \in Seq(Notice)
  BY AppendProperties DEF TypeOK
<1> QED  BY <1>1 DEF Collect, TypeOK

(* The notice of a well-formed alert is well formed. *)
LEMMA NoticeType ==
  ASSUME NEW id \in IDs, NEW a \in AlertRec, NEW why \in Transitions
  PROVE  NoticeOf(id, a, why) \in Notice
BY DEF NoticeOf, AlertRec, Notice

(* Replacing an alert in place keeps the table and its length. *)
LEMMA UpdateType ==
  ASSUME TypeOK, NEW id \in 1 .. Len(alerts), NEW a \in AlertRec,
         alerts' = [alerts EXCEPT ![id] = a]
  PROVE  /\ alerts' \in Seq(AlertRec) /\ Len(alerts') = Len(alerts)
         /\ \A i \in 1 .. Len(alerts) :
              alerts'[i] = IF i = id THEN a ELSE alerts[i]
BY ExceptSeq DEF TypeOK

(* Creating an alert adds it under the next ID. *)
LEMMA CreateType ==
  ASSUME TypeOK, NEW a \in AlertRec, alerts' = Append(alerts, a)
  PROVE  /\ alerts' \in Seq(AlertRec) /\ Len(alerts') = Len(alerts) + 1
         /\ \A i \in 1 .. Len(alerts) : alerts'[i] = alerts[i]
         /\ alerts'[NextID] = a
BY AppendProperties DEF TypeOK, NextID

(* Every ID in the tables names an alert. *)
LEMMA KnownAlert ==
  ASSUME TypeOK, NEW id \in 1 .. Len(alerts)
  PROVE  alerts[id] \in AlertRec /\ id \in IDs /\ id \in Nat
<1>1. Len(alerts) \in Nat
  BY LenProperties DEF TypeOK
<1> QED  BY <1>1, ElementOfSeq, ModelAssumption DEF TypeOK, IDs

(* NewEngine builds well-typed tables. *)
LEMMA InitType == Init => TypeOK
<1> SUFFICES ASSUME Init PROVE TypeOK
  OBVIOUS
<1>1. alerts \in Seq(AlertRec) /\ Len(alerts) = 0 /\ history \in Seq(IDs)
  BY EmptySeq DEF Init
<1>2. <<>> \in Seq(Notice)
  BY EmptySeq
<1>3. NoCond \in CondState
  BY ModelAssumption DEF NoCond, CondState, Severities, Info, Time
<1> QED
  BY <1>1, <1>2, <1>3, ModelAssumption
  DEF Init, TypeOK, Time, NoCond
-----------------------------------------------------------------------------
(* One lemma per group of actions: the step keeps the types. *)

(* Engine.Raise, merging a repeat or creating an alert, keeps the types. *)
LEMMA RaiseType ==
  ASSUME TypeOK, NEW t \in Threads, NEW k \in EventKeys,
         NEW sev \in Severities, NEW at \in Dates(t),
         RaiseRepeat(t, k, sev, at) \/ RaiseNew(t, k, sev, at)
  PROVE  TypeOK'
<1>0. at \in Time /\ k \in Keys /\ Len(alerts) \in Nat
  <2>1. Len(alerts) \in Nat
    BY LenProperties DEF TypeOK
  <2> QED  BY <2>1, ModelAssumption DEF Dates, Time, TypeOK, Keys
<1>1. CASE RaiseRepeat(t, k, sev, at)
  <2> DEFINE id == events[k]
             a == [alerts[id] EXCEPT !.count = @ + 1, !.last = at,
                                     !.sev = IF sev > @ THEN sev ELSE @]
  <2>1. id \in 1 .. Len(alerts)
    BY <1>0, <1>1 DEF RaiseRepeat, Merges, TypeOK
  <2>2. alerts[id] \in AlertRec /\ id \in IDs
    BY <2>1, KnownAlert
  <2>3. a \in AlertRec
    <3>1. (IF sev > alerts[id].sev THEN sev ELSE alerts[id].sev) \in Severities
          /\ alerts[id].count + 1 \in Nat
      BY <2>2 DEF AlertRec
    <3> QED  BY <1>0, <2>2, <3>1, Zenon DEF AlertRec
  <2>4. alerts' = [alerts EXCEPT ![id] = a]
        /\ Collect(t, NoticeOf(id, a, "repeated"))
    BY <1>1 DEF RaiseRepeat
  <2> HIDE DEF a
  <2>5. alerts' \in Seq(AlertRec) /\ Len(alerts') = Len(alerts)
    BY <2>1, <2>3, <2>4, UpdateType, Zenon
  <2>6. out' \in [Threads -> Seq(Notice)]
    BY <2>2, <2>3, <2>4, NoticeType, CollectType DEF Transitions
  <2> QED  BY <1>1, <2>5, <2>6 DEF RaiseRepeat, TypeOK
<1>2. CASE RaiseNew(t, k, sev, at)
  <2> DEFINE a == [key |-> k, sev |-> sev, first |-> at, last |-> at,
                   count |-> 1, active |-> FALSE, resolved |-> 0]
  <2>1. a \in AlertRec
    BY <1>0, ModelAssumption DEF AlertRec, Time
  <2>2. NextID \in IDs /\ alerts' = Append(alerts, a)
        /\ Collect(t, NoticeOf(NextID, a, "raised"))
        /\ history' = PushHistory(history, NextID)
        /\ events' = [events EXCEPT ![k] = NextID]
    BY <1>2 DEF RaiseNew
  <2> HIDE DEF a
  <2>3. alerts' \in Seq(AlertRec) /\ Len(alerts') = Len(alerts) + 1
    BY <2>1, <2>2, CreateType
  <2>4. out' \in [Threads -> Seq(Notice)]
    BY <2>1, <2>2, NoticeType, CollectType DEF Transitions
  <2>5. history' \in Seq(IDs)
    BY <2>2, PushHistoryType DEF TypeOK
  <2>6. /\ Len(alerts') <= MaxAlerts /\ NextID \in Nat
        /\ NextID <= Len(alerts')
    BY <1>0, <2>2, <2>3, ModelAssumption DEF NextID, IDs
  <2>7. /\ events' \in [EventKeys -> Nat]
        /\ \A j \in EventKeys : events'[j] <= Len(alerts')
    BY <1>0, <2>2, <2>3, <2>6 DEF TypeOK
  <2>8. \A j \in CondKeys : conds'[j].alert <= Len(alerts')
    BY <1>0, <1>2, <2>3 DEF TypeOK, RaiseNew, CondState
  <2>9. /\ UNCHANGED <<clock, mu, conds, tick, seen, over, under, summed>>
        /\ calls' \in [EventKeys -> Nat]
    BY <1>2 DEF RaiseNew, TypeOK
  <2> QED
    BY <2>3, <2>4, <2>5, <2>6, <2>7, <2>8, <2>9 DEF TypeOK
<1> QED  BY <1>1, <1>2

(* The part of a step of the sample loop that all its outcomes share. *)
LEMMA SamplingType ==
  ASSUME TypeOK, NEW k \in CondKeys, NEW v \in Values, Sampling(k, v)
  PROVE  /\ tick' \in [at : Time, due : BOOLEAN, todo : SUBSET CondKeys,
                        rest : SUBSET CondKeys, evs : SUBSET EventKeys]
         /\ tick'.at = tick.at /\ tick'.at <= clock'
         /\ over' \in [CondKeys -> Time] /\ under' \in [CondKeys -> Time]
         /\ UNCHANGED <<clock, mu, events, seen, calls, summed>>
<1>1. /\ tick' = [tick EXCEPT !.todo = @ \ {k}]
      /\ UNCHANGED <<clock, mu, events, seen, calls, summed>>
  BY DEF Sampling
<1>2. tick.at \in Time /\ 0 \in Time
  BY ModelAssumption DEF TypeOK, Time
<1>3. over' \in [CondKeys -> Time] /\ under' \in [CondKeys -> Time]
  BY <1>2 DEF TypeOK, Sampling
<1> QED  BY <1>1, <1>3, Zenon DEF TypeOK

(* What a step of the sample loop still has to show beyond SamplingType. *)
LEMMA StepType ==
  ASSUME TypeOK, NEW k \in CondKeys, NEW v \in Values, Sampling(k, v),
         NEW c \in CondState, conds' = [conds EXCEPT ![k] = c],
         alerts' \in Seq(AlertRec), Len(alerts') \in Nat,
         Len(alerts) <= Len(alerts'),
         Len(alerts') <= MaxAlerts, c.alert <= Len(alerts'),
         history' \in Seq(IDs), out' \in [Threads -> Seq(Notice)]
  PROVE  TypeOK'
<1>0. Len(alerts) \in Nat
  BY LenProperties DEF TypeOK
<1>1. conds' \in [CondKeys -> CondState]
  BY DEF TypeOK
<1>2. \A j \in CondKeys : conds'[j].alert <= Len(alerts')
  BY <1>0, ModelAssumption DEF TypeOK, CondState
<1>3. \A j \in EventKeys : events'[j] <= Len(alerts')
  BY <1>0, ModelAssumption, SamplingType DEF TypeOK
<1> QED  BY <1>1, <1>2, <1>3, SamplingType DEF TypeOK

(* Engine.resolve moves an alert to the history. *)
LEMMA ResolveType ==
  ASSUME TypeOK, NEW k \in CondKeys, conds[k].alert # 0,
         NEW c \in CondState, NEW last \in Time, Resolve(k, c, last)
  PROVE  /\ alerts' \in Seq(AlertRec) /\ Len(alerts') = Len(alerts)
         /\ history' \in Seq(IDs) /\ out' \in [Threads -> Seq(Notice)]
         /\ conds' = [conds EXCEPT ![k] = c]
<1> DEFINE id == conds[k].alert
           a == [alerts[id] EXCEPT !.last = last, !.active = FALSE,
                                   !.resolved = tick.at]
<1>0. Len(alerts) \in Nat
  BY LenProperties DEF TypeOK
<1>1. id \in 1 .. Len(alerts)
  BY <1>0 DEF TypeOK, CondState
<1>2. alerts[id] \in AlertRec /\ id \in IDs
  BY <1>1, KnownAlert
<1>3. a \in AlertRec
  BY <1>2, Zenon DEF AlertRec, TypeOK
<1>4. alerts' = [alerts EXCEPT ![id] = a]
      /\ history' = PushHistory(history, id)
      /\ Collect(Poller, NoticeOf(id, a, "resolved"))
      /\ conds' = [conds EXCEPT ![k] = c]
  BY DEF Resolve
<1> HIDE DEF a
<1>5. alerts' \in Seq(AlertRec) /\ Len(alerts') = Len(alerts)
  BY <1>1, <1>3, <1>4, UpdateType, Zenon
<1>6. out' \in [Threads -> Seq(Notice)]
  BY <1>2, <1>3, <1>4, NoticeType, CollectType, Zenon DEF Transitions, Threads
<1>7. history' \in Seq(IDs)
  BY <1>2, <1>4, PushHistoryType DEF TypeOK
<1> QED  BY <1>4, <1>5, <1>6, <1>7

(* Engine.step keeps the types, whichever of its branches it takes. *)
LEMMA EvalSampleType ==
  ASSUME TypeOK, NEW k \in CondKeys, NEW v \in Values, EvalSample(k, v)
  PROVE  TypeOK'
<1> DEFINE id == conds[k].alert
<1>0. Len(alerts) \in Nat /\ k \in Keys /\ tick.at \in Time /\ 0 \in Time
      /\ id \in Nat /\ id <= Len(alerts) /\ Len(alerts) <= MaxAlerts
  BY LenProperties, ModelAssumption DEF TypeOK, Keys, Time, CondState
<1>1. Severity(k, v) \in Severities
  BY SeverityType
<1>2. id # 0 => alerts[id] \in AlertRec /\ id \in IDs /\ id \in 1 .. Len(alerts)
  <2> HAVE id # 0
  <2>1. id \in 1 .. Len(alerts)
    BY <1>0
  <2> HIDE DEF id
  <2> QED  BY <2>1, KnownAlert
<1>3. Observed(k, v) \in CondState /\ Observed(k, v).alert = id
      /\ BelowAt(k) \in Time
  BY ObservedType
<1>4. CASE StepQuiet(k, v)
  <2> DEFINE c == Observed(k, v)
  <2>1. Sampling(k, v) /\ conds' = [conds EXCEPT ![k] = c]
        /\ alerts' = alerts /\ history' = history /\ out' = out
    BY <1>4 DEF StepQuiet
  <2>2. /\ Len(alerts') \in Nat /\ Len(alerts) <= Len(alerts')
        /\ Len(alerts') <= MaxAlerts /\ c.alert <= Len(alerts')
    BY <1>0, <1>3, <2>1
  <2>3. /\ alerts' \in Seq(AlertRec) /\ history' \in Seq(IDs)
        /\ out' \in [Threads -> Seq(Notice)]
    BY <2>1 DEF TypeOK
  <2> HIDE DEF c
  <2> QED  BY <1>3, <2>1, <2>2, <2>3, StepType, Zenon DEF c
<1>5. CASE StepRaise(k, v)
  <2> DEFINE a == [key |-> k, sev |-> Severity(k, v), first |-> tick.at,
                   last |-> tick.at, count |-> 1, active |-> TRUE,
                   resolved |-> 0]
             c == [Observed(k, v) EXCEPT !.alert = NextID, !.belowAt = 0]
  <2>1. a \in AlertRec
    BY <1>0, <1>1 DEF AlertRec
  <2>2. Sampling(k, v) /\ NextID \in IDs /\ alerts' = Append(alerts, a)
        /\ Collect(Poller, NoticeOf(NextID, a, "raised"))
        /\ conds' = [conds EXCEPT ![k] = c] /\ history' = history
    BY <1>5 DEF StepRaise
  <2>3. NextID = Len(alerts) + 1 /\ NextID \in Nat
        /\ Len(alerts) + 1 <= MaxAlerts
    BY <1>0, <2>2, ModelAssumption DEF NextID, IDs
  <2>4. c \in CondState /\ c.alert = NextID
    BY <1>0, <1>3, <2>3, Zenon DEF CondState
  <2> HIDE DEF a, c
  <2>5. alerts' \in Seq(AlertRec) /\ Len(alerts') = Len(alerts) + 1
    BY <2>1, <2>2, CreateType
  <2>6. out' \in [Threads -> Seq(Notice)]
    BY <2>1, <2>2, NoticeType, CollectType, Zenon DEF Transitions, Threads
  <2>7. /\ Len(alerts') \in Nat /\ Len(alerts) <= Len(alerts')
        /\ Len(alerts') <= MaxAlerts /\ c.alert <= Len(alerts')
    BY <1>0, <2>3, <2>4, <2>5
  <2>8. history' \in Seq(IDs)
    BY <2>2 DEF TypeOK
  <2> QED  BY <2>2, <2>4, <2>5, <2>6, <2>7, <2>8, StepType, Zenon
<1>6. CASE StepClearing(k, v) \/ StepFiring(k, v)
  <2> DEFINE a == [alerts[id] EXCEPT !.last = tick.at]
  <2>1. id # 0 /\ Sampling(k, v) /\ alerts' = [alerts EXCEPT ![id] = a]
        /\ history' = history /\ out' = out
    BY <1>6 DEF StepClearing, StepFiring
  <2>2. a \in AlertRec
    BY <1>0, <1>2, <2>1 DEF AlertRec
  <2>3. PICK c \in CondState : conds' = [conds EXCEPT ![k] = c] /\ c.alert = id
    <3>1. [Observed(k, v) EXCEPT !.belowAt = BelowAt(k)] \in CondState
          /\ [Observed(k, v) EXCEPT !.belowAt = BelowAt(k)].alert = id
          /\ [Observed(k, v) EXCEPT !.belowAt = 0] \in CondState
          /\ [Observed(k, v) EXCEPT !.belowAt = 0].alert = id
      BY <1>0, <1>3 DEF CondState
    <3> QED  BY <1>6, <3>1, Zenon DEF StepClearing, StepFiring
  <2> HIDE DEF a, id
  <2>4. alerts' \in Seq(AlertRec) /\ Len(alerts') = Len(alerts)
    BY <1>2, <2>1, <2>2, UpdateType, Zenon
  <2>5. history' \in Seq(IDs) /\ out' \in [Threads -> Seq(Notice)]
    BY <2>1 DEF TypeOK
  <2>6. /\ Len(alerts') \in Nat /\ Len(alerts) <= Len(alerts')
        /\ Len(alerts') <= MaxAlerts /\ c.alert <= Len(alerts')
    BY <1>0, <2>3, <2>4, ModelAssumption DEF id
  <2> QED  BY <2>1, <2>3, <2>4, <2>5, <2>6, StepType, Zenon
<1>7. CASE StepResolve(k, v)
  <2> DEFINE c == [Observed(k, v) EXCEPT !.alert = 0, !.belowAt = 0]
  <2>1. c \in CondState /\ c.alert = 0
    BY <1>0, <1>3, Zenon DEF CondState
  <2>2. Sampling(k, v) /\ id # 0 /\ Resolve(k, c, tick.at)
    BY <1>7 DEF StepResolve
  <2> HIDE DEF c
  <2>3. /\ alerts' \in Seq(AlertRec) /\ Len(alerts') = Len(alerts)
        /\ history' \in Seq(IDs) /\ out' \in [Threads -> Seq(Notice)]
        /\ conds' = [conds EXCEPT ![k] = c]
    BY <1>0, <2>1, <2>2, ResolveType
  <2>4. /\ Len(alerts') \in Nat /\ Len(alerts) <= Len(alerts')
        /\ Len(alerts') <= MaxAlerts /\ c.alert <= Len(alerts')
    BY <1>0, <2>1, <2>3, ModelAssumption
  <2> QED  BY <2>1, <2>2, <2>3, <2>4, StepType, Zenon
<1>8. CASE StepEscalate(k, v)
  <2> DEFINE a == [alerts[id] EXCEPT !.last = tick.at, !.sev = Severity(k, v)]
             c == [Observed(k, v) EXCEPT !.belowAt = 0]
  <2>1. c \in CondState /\ c.alert = id
    BY <1>0, <1>3 DEF CondState
  <2>2. Sampling(k, v) /\ id # 0 /\ alerts' = [alerts EXCEPT ![id] = a]
        /\ Collect(Poller, NoticeOf(id, a, "escalated"))
        /\ conds' = [conds EXCEPT ![k] = c] /\ history' = history
    BY <1>8 DEF StepEscalate
  <2>3. a \in AlertRec
    BY <1>0, <1>1, <1>2, <2>2, Zenon DEF AlertRec
  <2> HIDE DEF a, c, id
  <2>4. alerts' \in Seq(AlertRec) /\ Len(alerts') = Len(alerts)
    BY <1>2, <2>2, <2>3, UpdateType, Zenon
  <2>5. out' \in [Threads -> Seq(Notice)]
    BY <1>2, <2>2, <2>3, NoticeType, CollectType, Zenon DEF Transitions, Threads
  <2>6. history' \in Seq(IDs)
    BY <2>2 DEF TypeOK
  <2>7. /\ Len(alerts') \in Nat /\ Len(alerts) <= Len(alerts')
        /\ Len(alerts') <= MaxAlerts /\ c.alert <= Len(alerts')
    BY <1>0, <2>1, <2>4, ModelAssumption DEF id
  <2> QED  BY <2>1, <2>2, <2>4, <2>5, <2>6, <2>7, StepType, Zenon
<1> QED  BY <1>4, <1>5, <1>6, <1>7, <1>8 DEF EvalSample

(* Resolving the conditions that got no sample keeps the types. *)
LEMMA EvalUnsampledType ==
  ASSUME TypeOK, NEW k \in CondKeys, EvalUnsampled(k)
  PROVE  TypeOK'
<1>0. Len(alerts) \in Nat /\ 0 \in Time /\ conds[k].alert \in Nat
      /\ conds[k].alert <= Len(alerts)
  BY LenProperties, ModelAssumption DEF TypeOK, Time, CondState
<1>1. NoCond \in CondState /\ NoCond.alert = 0
  BY <1>0 DEF NoCond, CondState, Severities, Info
<1>2. /\ alerts' \in Seq(AlertRec) /\ Len(alerts') = Len(alerts)
      /\ history' \in Seq(IDs) /\ out' \in [Threads -> Seq(Notice)]
      /\ conds' = [conds EXCEPT ![k] = NoCond]
  <2>1. CASE conds[k].alert # 0
    <3>1. conds[k].alert \in 1 .. Len(alerts)
      BY <1>0, <2>1
    <3>2. alerts[conds[k].alert].last \in Time
      BY <3>1, KnownAlert DEF AlertRec
    <3> QED  BY <1>1, <2>1, <3>2, ResolveType DEF EvalUnsampled
  <2>2. CASE conds[k].alert = 0
    BY <2>2 DEF EvalUnsampled, TypeOK
  <2> QED  BY <2>1, <2>2
<1>3. conds' \in [CondKeys -> CondState]
      /\ \A j \in CondKeys : conds'[j].alert <= Len(alerts')
  BY <1>0, <1>1, <1>2 DEF TypeOK
<1>4. /\ tick' = [tick EXCEPT !.rest = @ \ {k}]
      /\ over' = [over EXCEPT ![k] = 0] /\ under' = [under EXCEPT ![k] = 0]
      /\ UNCHANGED <<clock, mu, events, seen, calls, summed>>
  BY DEF EvalUnsampled
<1> QED  BY <1>0, <1>2, <1>3, <1>4, Zenon DEF TypeOK

(* Closing an event window in expireEvents keeps the types. *)
LEMMA EvalExpireType ==
  ASSUME TypeOK, NEW k \in EventKeys, EvalExpire(k)
  PROVE  TypeOK'
<1> DEFINE id == events[k]
<1>0. Len(alerts) \in Nat
  BY LenProperties DEF TypeOK
<1>1. /\ out' \in [Threads -> Seq(Notice)] /\ summed' \subseteq IDs
      /\ events' \in [EventKeys -> Nat]
      /\ \A j \in EventKeys : events'[j] <= Len(alerts)
  <2>1. CASE ~Expired(k)
    BY <2>1 DEF EvalExpire, TypeOK
  <2>0. Expired(k) => alerts[id] \in AlertRec /\ id \in IDs
                      /\ alerts[id].count \in Nat
    <3> HAVE Expired(k)
    <3>1. id \in 1 .. Len(alerts)
      BY <1>0 DEF Expired, TypeOK
    <3> QED  BY <3>1, KnownAlert DEF AlertRec
  <2>2. CASE Expired(k) /\ alerts[id].count > 1
    <3>2. alerts[id] \in AlertRec /\ id \in IDs /\ alerts[id].count \in Nat
      BY <2>0, <2>2
    <3>3. Collect(Poller, NoticeOf(id, alerts[id], "summary"))
          /\ summed' = summed \cup {id} /\ events' = [events EXCEPT ![k] = 0]
      BY <2>2, <3>2 DEF EvalExpire
    <3>4. out' \in [Threads -> Seq(Notice)]
      BY <3>2, <3>3, NoticeType, CollectType, Zenon DEF Transitions, Threads
    <3> QED  BY <1>0, <3>2, <3>3, <3>4 DEF TypeOK
  <2>3. CASE Expired(k) /\ ~(alerts[id].count > 1)
    <3>1. /\ events' = [events EXCEPT ![k] = 0]
          /\ UNCHANGED <<out, summed>>
      BY <2>0, <2>3 DEF EvalExpire
    <3> QED  BY <1>0, <3>1 DEF TypeOK
  <2> QED  BY <2>1, <2>2, <2>3
<1>2. /\ tick' = [tick EXCEPT !.evs = @ \ {k}]
      /\ UNCHANGED <<clock, mu, alerts, conds, history, seen, over, under, calls>>
  BY DEF EvalExpire
<1> QED  BY <1>1, <1>2, Zenon DEF TypeOK

(* The remaining actions touch the clock, the tick and the notices only. *)
LEMMA OtherType ==
  ASSUME TypeOK,
         \/ \E S \in SUBSET CondKeys : BeginEvaluate(S)
         \/ Commit \/ EndEvaluate \/ (\E t \in Threads : Notify(t)) \/ Pass
         \/ UNCHANGED vars
  PROVE  TypeOK'
<1>1. ASSUME NEW S \in SUBSET CondKeys, BeginEvaluate(S)  PROVE TypeOK'
  BY <1>1, ModelAssumption, Zenon DEF BeginEvaluate, TypeOK, obsVars, Time
<1>2. CASE EndEvaluate
  BY <1>2 DEF EndEvaluate, TypeOK, obsVars
<1>3. ASSUME NEW t \in Threads, Notify(t)  PROVE TypeOK'
  <2>1. Head(out[t]) \in Notice /\ Tail(out[t]) \in Seq(Notice)
    BY <1>3, HeadTailProperties, Zenon DEF Notify, TypeOK
  <2>2. seen' \in [IDs -> Transitions \cup {"none"}]
    BY <1>3, <2>1 DEF Notify, TypeOK, Notice
  <2>3. out' \in [Threads -> Seq(Notice)]
    BY <1>3, <2>1 DEF Notify, TypeOK
  <2> QED  BY <1>3, <2>2, <2>3 DEF Notify, TypeOK, obsVars
<1>4. CASE Pass
  BY <1>4, ModelAssumption DEF Pass, TypeOK, obsVars, Time
<1>5. CASE UNCHANGED vars
  BY <1>5 DEF vars, TypeOK, obsVars
<1>6. CASE Commit
  <2>1. clock \in Time /\ clock \in Nat
    BY ModelAssumption DEF TypeOK, Time
  <2>2. tick' = [tick EXCEPT !.at = clock, !.due = TRUE] /\ tick'.at <= clock
    BY <1>6, <2>1 DEF Commit, TypeOK
  <2> QED  BY <1>6, <2>1, <2>2, ZenonT(30) DEF Commit, TypeOK, obsVars
<1> QED  BY <1>1, <1>2, <1>3, <1>4, <1>5, <1>6

(* The tables of the engine stay well formed: every ID held by e.conds,    *)
(* e.events, e.history or a pending notice is the ID of an alert.          *)
THEOREM TypeCorrect == Spec => []TypeOK
<1>1. TypeOK /\ [Next]_vars => TypeOK'
  <2> SUFFICES ASSUME TypeOK, [Next]_vars PROVE TypeOK'
    OBVIOUS
  <2>1. ASSUME NEW t \in Threads, NEW k \in EventKeys,
               NEW sev \in EventSeverities, NEW at \in Dates(t),
               RaiseRepeat(t, k, sev, at) \/ RaiseNew(t, k, sev, at)
        PROVE  TypeOK'
    BY <2>1, RaiseType, ModelAssumption
  <2> QED
    BY <2>1, EvalSampleType, EvalUnsampledType, EvalExpireType, OtherType
    DEF Next
<1> QED  BY <1>1, InitType, PTL DEF Spec
-----------------------------------------------------------------------------
(* The inductive invariant behind the timing properties: the hold and the  *)
(* clearing period that step measures never start before the value went    *)
(* over a threshold or under the clear level.                              *)
HoldInv ==
  /\ mu = Poller \/ tick.due => tick.at # 0
  /\ \A k \in CondKeys :
       /\ over[k] <= tick.at /\ under[k] <= tick.at
       /\ conds[k].pending # Info =>
            over[k] # 0 /\ over[k] <= conds[k].pendingAt
       /\ conds[k].belowAt # 0 =>
            under[k] # 0 /\ under[k] <= conds[k].belowAt
       /\ conds[k].alert = 0 => conds[k].belowAt = 0

(* What step leaves in e.conds for the sampled key, and nothing else. *)
LEMMA StepCond ==
  ASSUME TypeOK, NEW k \in CondKeys, NEW v \in Values, EvalSample(k, v)
  PROVE  /\ Sampling(k, v)
         /\ \A j \in CondKeys \ {k} : conds'[j] = conds[j]
         /\ conds'[k].pending = Observed(k, v).pending
         /\ conds'[k].pendingAt = Observed(k, v).pendingAt
         /\ \/ conds'[k].belowAt = 0
            \/ Clear(k, v) /\ conds'[k].belowAt = BelowAt(k)
                 /\ conds[k].alert # 0 /\ conds'[k].alert # 0
            \/ conds'[k].belowAt = conds[k].belowAt /\ conds[k].alert = 0
                 /\ conds'[k].alert = 0
<1>1. Observed(k, v) \in CondState /\ Observed(k, v).alert = conds[k].alert
      /\ Observed(k, v).belowAt = conds[k].belowAt
  BY ObservedType
<1>2. conds \in [CondKeys -> CondState]
  BY DEF TypeOK
<1>3. CASE StepQuiet(k, v)
  BY <1>1, <1>2, <1>3 DEF StepQuiet, CondState
<1>4. CASE StepRaise(k, v)
  BY <1>1, <1>2, <1>4 DEF StepRaise, CondState
<1>5. CASE StepClearing(k, v)
  BY <1>1, <1>2, <1>5 DEF StepClearing, CondState
<1>6. CASE StepResolve(k, v)
  BY <1>1, <1>2, <1>6 DEF StepResolve, Resolve, CondState
<1>7. CASE StepEscalate(k, v)
  BY <1>1, <1>2, <1>7 DEF StepEscalate, CondState
<1>8. CASE StepFiring(k, v)
  BY <1>1, <1>2, <1>8 DEF StepFiring, CondState
<1> QED  BY <1>3, <1>4, <1>5, <1>6, <1>7, <1>8, ZenonT(30) DEF EvalSample

(* The history variables after a sample of k, in terms of the sample. *)
LEMMA SamplingObs ==
  ASSUME TypeOK, HoldInv, NEW k \in CondKeys, NEW v \in Values, Sampling(k, v)
  PROVE  /\ tick.at \in Nat \ {0} /\ over[k] \in Nat /\ under[k] \in Nat
         /\ over'[k] = IF Severity(k, v) = Info THEN 0
                       ELSE IF over[k] = 0 THEN tick.at ELSE over[k]
         /\ under'[k] = IF ~Clear(k, v) THEN 0
                        ELSE IF under[k] = 0 THEN tick.at ELSE under[k]
         /\ \A j \in CondKeys \ {k} : over'[j] = over[j] /\ under'[j] = under[j]
         /\ tick'.at = tick.at /\ mu' = mu
<1>1. tick.at \in Nat \ {0} /\ over[k] \in Nat /\ under[k] \in Nat
  BY ModelAssumption DEF TypeOK, HoldInv, Sampling, Time
<1> QED  BY <1>1, SamplingType DEF Sampling, TypeOK

(* A hold that is over when measured from b is over when measured from an  *)
(* earlier time u.                                                         *)
LEMMA HeldSince ==
  ASSUME NEW t \in Nat, NEW u \in Nat, NEW b \in Nat, NEW hold \in Nat,
         u <= b, t - b >= hold
  PROVE  t - u >= hold
OBVIOUS

(* While the value is under the clear level it has been so since belowAt,  *)
(* or since this sample if belowAt was not set.                            *)
LEMMA BelowHeld ==
  ASSUME TypeOK, HoldInv, NEW k \in CondKeys, NEW v \in Values,
         Sampling(k, v), Clear(k, v)
  PROVE  /\ BelowAt(k) \in Nat /\ under'[k] # 0 /\ under'[k] <= BelowAt(k)
         /\ under'[k] \in Nat
<1>1. conds[k].belowAt \in Nat
  BY ModelAssumption DEF TypeOK, CondState, Time
<1>2. tick.at \in Nat \ {0} /\ under[k] \in Nat
      /\ under'[k] = IF under[k] = 0 THEN tick.at ELSE under[k]
  BY SamplingObs
<1>3. /\ under[k] <= tick.at
      /\ conds[k].belowAt # 0 => under[k] # 0 /\ under[k] <= conds[k].belowAt
  BY DEF HoldInv
<1>4. CASE conds[k].belowAt = 0
  <2>1. BelowAt(k) = tick.at
    BY <1>4 DEF BelowAt
  <2> QED  BY <1>2, <1>3, <2>1
<1>5. CASE conds[k].belowAt # 0
  <2>1. BelowAt(k) = conds[k].belowAt
    BY <1>5 DEF BelowAt
  <2> QED  BY <1>1, <1>2, <1>3, <1>5, <2>1
<1> QED  BY <1>4, <1>5

(* A sample keeps pendingAt and belowAt tied to what was really observed. *)
LEMMA SampleHold ==
  ASSUME TypeOK, HoldInv, NEW k \in CondKeys, NEW v \in Values,
         EvalSample(k, v)
  PROVE  HoldInv'
<1>1. Sampling(k, v) /\ \A j \in CondKeys \ {k} : conds'[j] = conds[j]
  BY StepCond
<1>2. mu' = Poller \/ tick'.due => tick'.at # 0
  BY <1>1, SamplingObs
<1>3. ASSUME NEW j \in CondKeys, j # k
      PROVE  /\ over'[j] <= tick'.at /\ under'[j] <= tick'.at
             /\ conds'[j].pending # Info =>
                  over'[j] # 0 /\ over'[j] <= conds'[j].pendingAt
             /\ conds'[j].belowAt # 0 =>
                  under'[j] # 0 /\ under'[j] <= conds'[j].belowAt
             /\ conds'[j].alert = 0 => conds'[j].belowAt = 0
  BY <1>1, <1>3, SamplingObs DEF HoldInv
<1>4. over'[k] <= tick'.at /\ under'[k] <= tick'.at
  BY <1>1, SamplingObs DEF HoldInv
<1>5. conds'[k].pending # Info =>
        over'[k] # 0 /\ over'[k] <= conds'[k].pendingAt
  <2>1. CASE Severity(k, v) = conds[k].pending
    BY <1>1, <2>1, StepCond, SamplingObs DEF Observed, HoldInv
  <2>2. CASE Severity(k, v) # conds[k].pending
    <3>1. conds'[k].pending = Severity(k, v) /\ conds'[k].pendingAt = tick.at
      BY <2>2, StepCond DEF Observed, TypeOK, CondState
    <3> QED  BY <1>1, <3>1, SamplingObs DEF HoldInv
  <2> QED  BY <2>1, <2>2
<1>6. conds'[k].belowAt # 0 =>
        under'[k] # 0 /\ under'[k] <= conds'[k].belowAt
  <2>1. CASE conds'[k].belowAt = 0
    BY <2>1
  <2>2. CASE Clear(k, v) /\ conds'[k].belowAt = BelowAt(k)
    BY <1>1, <2>2, BelowHeld
  <2>3. CASE conds'[k].belowAt = conds[k].belowAt /\ conds[k].alert = 0
    BY <2>1, <2>3 DEF HoldInv
  <2> QED  BY <2>1, <2>2, <2>3, StepCond
<1>7. conds'[k].alert = 0 => conds'[k].belowAt = 0
  BY StepCond DEF HoldInv
<1> QED  BY <1>2, <1>3, <1>4, <1>5, <1>6, <1>7 DEF HoldInv

(* An action that leaves e.conds and the observations alone keeps HoldInv. *)
LEMMA OtherHold ==
  ASSUME TypeOK, HoldInv,
         UNCHANGED <<conds, over, under>>,
         \/ mu' \in {mu, Free} /\ UNCHANGED <<tick.at, tick.due>>
         \/ mu' = Poller /\ tick.due /\ tick'.at = tick.at
         \/ tick'.at = clock /\ clock > tick.at
  PROVE  HoldInv'
<1>1. tick.at \in Nat /\ clock \in Nat \ {0} /\ tick.at <= tick'.at
      /\ over \in [CondKeys -> Nat] /\ under \in [CondKeys -> Nat]
  BY ModelAssumption DEF TypeOK, Time
<1>2. mu' = Poller \/ tick'.due => tick'.at # 0
  BY <1>1, ModelAssumption DEF HoldInv, Threads
<1> QED  BY <1>1, <1>2 DEF HoldInv

(* Every step keeps HoldInv. *)
LEMMA NextHold == TypeOK /\ HoldInv /\ [Next]_vars => HoldInv'
<1> SUFFICES ASSUME TypeOK, HoldInv, [Next]_vars PROVE HoldInv'
  OBVIOUS
<1>1. ASSUME NEW t \in Threads, NEW k \in EventKeys,
             NEW sev \in EventSeverities, NEW at \in Dates(t),
             RaiseRepeat(t, k, sev, at) \/ RaiseNew(t, k, sev, at)
      PROVE  HoldInv'
  BY <1>1, OtherHold DEF RaiseRepeat, RaiseNew
<1>2. ASSUME NEW S \in SUBSET CondKeys, BeginEvaluate(S)  PROVE HoldInv'
  <2>1. mu' = Poller /\ tick.due /\ tick'.at = tick.at
    BY <1>2 DEF BeginEvaluate, TypeOK
  <2> QED  BY <1>2, <2>1, OtherHold DEF BeginEvaluate, obsVars
<1>3. ASSUME NEW k \in CondKeys, NEW v \in Values, EvalSample(k, v)
      PROVE  HoldInv'
  BY <1>3, SampleHold
<1>4. ASSUME NEW k \in CondKeys, EvalUnsampled(k)  PROVE HoldInv'
  <2>1. conds' = [conds EXCEPT ![k] = NoCond]
    BY <1>4 DEF EvalUnsampled, Resolve
  <2>2. /\ UNCHANGED <<tick.at, tick.due, mu>> /\ tick.at \in Nat
        /\ over' = [over EXCEPT ![k] = 0] /\ under' = [under EXCEPT ![k] = 0]
        /\ over \in [CondKeys -> Nat] /\ under \in [CondKeys -> Nat]
        /\ conds \in [CondKeys -> CondState]
    BY <1>4, ModelAssumption DEF EvalUnsampled, TypeOK, Time
  <2> QED  BY <2>1, <2>2 DEF HoldInv, NoCond
<1>5. ASSUME NEW k \in EventKeys, EvalExpire(k)  PROVE HoldInv'
  <2>1. UNCHANGED <<tick.at, tick.due, mu, conds, over, under>>
    BY <1>5 DEF EvalExpire, TypeOK
  <2> QED  BY <2>1, OtherHold
<1>6. CASE EndEvaluate
  BY <1>6, OtherHold DEF EndEvaluate, obsVars
<1>7. ASSUME NEW t \in Threads, Notify(t)  PROVE HoldInv'
  BY <1>7, OtherHold DEF Notify, obsVars
<1>8. CASE Pass
  BY <1>8, OtherHold DEF Pass, obsVars
<1>10. CASE Commit
  <2>1. tick'.at = clock /\ clock > tick.at
    BY <1>10 DEF Commit, TypeOK
  <2> QED  BY <1>10, <2>1, OtherHold, Zenon DEF Commit, obsVars
<1>9. CASE UNCHANGED vars
  BY <1>9, OtherHold DEF vars, obsVars
<1> QED
  BY <1>1, <1>2, <1>3, <1>4, <1>5, <1>6, <1>7, <1>8, <1>9, <1>10
  DEF Next

(* HoldInv holds in every reachable state. *)
LEMMA HoldAlways == Spec => [](TypeOK /\ HoldInv)
<1>1. Init => HoldInv
  BY ModelAssumption DEF Init, HoldInv, NoCond, Threads
<1> QED  BY <1>1, NextHold, TypeCorrect, PTL DEF Spec

(* Only a sample of k or the loss of its subject changes e.conds[k].       *)
LEMMA CondChange ==
  ASSUME TypeOK, [Next]_vars, NEW k \in CondKeys,
         conds'[k].alert # conds[k].alert
  PROVE  \/ \E v \in Values : EvalSample(k, v)
         \/ EvalUnsampled(k)
<1>1. ASSUME NEW j \in CondKeys, NEW v \in Values, EvalSample(j, v)
      PROVE  j = k
  BY <1>1, StepCond
<1>2. ASSUME NEW j \in CondKeys, EvalUnsampled(j)  PROVE j = k
  BY <1>2 DEF EvalUnsampled, Resolve, TypeOK
<1>3. conds' # conds
  OBVIOUS
<1>4. ASSUME NEW t \in Threads, NEW j \in EventKeys,
             NEW sev \in EventSeverities, NEW at \in Dates(t)
      PROVE  ~RaiseRepeat(t, j, sev, at) /\ ~RaiseNew(t, j, sev, at)
  BY <1>3 DEF RaiseRepeat, RaiseNew
<1>5. ASSUME NEW S \in SUBSET CondKeys  PROVE ~BeginEvaluate(S)
  BY <1>3 DEF BeginEvaluate
<1>6. ASSUME NEW j \in EventKeys  PROVE ~EvalExpire(j)
  BY <1>3 DEF EvalExpire
<1>7. ~Commit /\ ~EndEvaluate /\ ~Pass /\ ~UNCHANGED vars
  BY <1>3 DEF Commit, EndEvaluate, Pass, vars
<1>8. ASSUME NEW t \in Threads  PROVE ~Notify(t)
  BY <1>3 DEF Notify
<1> QED
  BY <1>1, <1>2, <1>4, <1>5, <1>6, <1>7, <1>8 DEF Next

(* No condition alert is raised before its value has stayed over a         *)
(* threshold for RaiseAfter, for every configuration.                      *)
THEOREM RaiseHeld == Spec => NoEarlyRaise
<1> DEFINE A == \A k \in CondKeys :
                  conds[k].alert = 0 /\ conds'[k].alert # 0
                    => over'[k] # 0 /\ tick.at - over'[k] >= RaiseAfter
<1>1. TypeOK /\ HoldInv /\ [Next]_vars => A
  <2> SUFFICES ASSUME TypeOK, HoldInv, [Next]_vars, NEW k \in CondKeys,
                      conds[k].alert = 0, conds'[k].alert # 0
               PROVE  over'[k] # 0 /\ tick.at - over'[k] >= RaiseAfter
    OBVIOUS
  <2>1. ASSUME EvalUnsampled(k) PROVE FALSE
    BY <2>1 DEF EvalUnsampled, TypeOK, NoCond
  <2>2. PICK v \in Values : EvalSample(k, v)
    BY <2>1, CondChange
  <2>3. Sampling(k, v) /\ Severity(k, v) # Info /\ Held(k, v)
    BY <2>2, ObservedType
    DEF EvalSample, StepQuiet, StepRaise, StepClearing, StepResolve,
        StepEscalate, StepFiring, TypeOK
  <2>4. conds[k] \in CondState /\ conds[k].pendingAt \in Nat
    BY ModelAssumption DEF TypeOK, CondState, Time
  <2>5. CASE Severity(k, v) = conds[k].pending
    <3>1. tick.at - conds[k].pendingAt >= RaiseAfter
      BY <2>3, <2>5 DEF Held, Observed
    <3>2. /\ over[k] \in Nat /\ over[k] # 0 /\ over[k] <= conds[k].pendingAt
          /\ over'[k] = over[k]
      BY <2>3, <2>5, SamplingObs, Zenon DEF HoldInv
    <3>3. tick.at \in Nat /\ RaiseAfter \in Nat
      BY <2>3, SamplingObs, ConfigAssumption, ZenonT(30)
    <3> QED  BY <2>4, <3>1, <3>2, <3>3, HeldSince
  <2>6. CASE Severity(k, v) # conds[k].pending
    <3>1. Observed(k, v).pendingAt = tick.at
      BY <2>4, <2>6 DEF Observed, CondState
    <3>2. tick.at - tick.at >= RaiseAfter
      BY <2>3, <3>1 DEF Held
    <3> QED  BY <2>3, <3>2, SamplingObs, ConfigAssumption DEF HoldInv
  <2> QED  BY <2>5, <2>6
<1> QED  BY <1>1, HoldAlways, PTL DEF Spec, NoEarlyRaise

(* No sampled condition resolves before its value has stayed under the     *)
(* clear level for ClearAfter, for every configuration.                    *)
THEOREM ClearHeld == Spec => NoEarlyClear
<1> DEFINE A == \A k \in CondKeys :
                  conds[k].alert # 0 /\ conds'[k].alert = 0 /\ k \in tick.todo
                    => under'[k] # 0 /\ tick.at - under'[k] >= ClearAfter
<1>1. TypeOK /\ HoldInv /\ [Next]_vars => A
  <2> SUFFICES ASSUME TypeOK, HoldInv, [Next]_vars, NEW k \in CondKeys,
                      conds[k].alert # 0, conds'[k].alert = 0, k \in tick.todo
               PROVE  under'[k] # 0 /\ tick.at - under'[k] >= ClearAfter
    OBVIOUS
  <2>1. PICK v \in Values : EvalSample(k, v)
    BY CondChange DEF EvalUnsampled
  <2>2. Observed(k, v) \in CondState /\ Observed(k, v).alert = conds[k].alert
        /\ conds \in [CondKeys -> CondState]
    BY ObservedType DEF TypeOK
  <2>3. ~StepClearing(k, v) /\ ~StepFiring(k, v) /\ ~StepEscalate(k, v)
    BY <2>2 DEF StepClearing, StepFiring, StepEscalate, CondState
  <2>4. Sampling(k, v) /\ Clear(k, v) /\ tick.at - BelowAt(k) >= ClearAfter
    BY <2>1, <2>3 DEF EvalSample, StepQuiet, StepRaise, StepResolve
  <2>5. BelowAt(k) \in Nat /\ under'[k] # 0 /\ under'[k] <= BelowAt(k)
        /\ under'[k] \in Nat
    BY <2>4, BelowHeld
  <2>6. tick.at \in Nat /\ ClearAfter \in Nat
    BY <2>4, SamplingObs, ConfigAssumption
  <2> QED  BY <2>4, <2>5, <2>6, HeldSince
<1> QED  BY <1>1, HoldAlways, PTL DEF Spec, NoEarlyClear
=============================================================================
