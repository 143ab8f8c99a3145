-------------------------- MODULE KernelLogProofs --------------------------
(***************************************************************************)
(* Proofs about two sources of alerts: the kernel log (KernelLog), for any *)
(* VMs and messages, any size of the kernel's buffer, any deduplication    *)
(* window and any delay of the reader and of the eBPF events; and the      *)
(* detector (Detector), for any guests, states and numbers of disk errors. *)
(***************************************************************************)
EXTENDS KernelLog, Detector, TLAPS

(* What the alerts of the kernel log rest on.  An alert as Raise keeps it. *)
Alarm == [sev : Int, domain : VMs \cup {Host}, last : Int, count : Int]

LogType ==
  /\ now \in Nat /\ seq \in Nat /\ next \in Nat
  /\ log \in [DOMAIN log -> Record] /\ events \in [DOMAIN events -> Alarm]
  /\ oomRaised \in [VMs -> Nat] /\ oomed \subseteq VMs
  /\ oomEvents \subseteq [vm : VMs, time : Nat]

(* The kernel keeps the last records; every record is still to be read, or *)
(* was read, or was lost.                                                  *)
BufferInv ==
  /\ \E lo \in 0 .. seq : DOMAIN log = lo .. seq - 1
  /\ reader = "off" => next = 0
  /\ next <= seq
  /\ handled \subseteq 0 .. next - 1 /\ lost \subseteq 0 .. seq - 1
  /\ \A i \in lost : i \notin DOMAIN log /\ i \notin handled
  /\ \A i \in 0 .. seq - 1 : i \in handled \/ i \in lost \/ (i >= next /\ i \in DOMAIN log)

OomRecord(i) == log[i].kind = "oom"

(* A process is killed once, so there is one record and at most one event  *)
(* of its death, with one time.                                            *)
KillInv ==
  /\ \A i \in DOMAIN log : OomRecord(i) => log[i].vm \in oomed
  /\ \A i, j \in DOMAIN log : OomRecord(i) /\ OomRecord(j) /\ log[i].vm = log[j].vm => i = j
  /\ \A e \in oomEvents : e.vm \in oomed /\ reader # "off" /\ now - e.time <= MaxLag
  /\ \A e \in oomEvents, i \in DOMAIN log :
       OomRecord(i) /\ log[i].vm = e.vm => log[i].time = e.time
  /\ \A e, f \in oomEvents : e.vm = f.vm => e = f
  /\ \A v \in VMs : oomRaised[v] > 0 => v \in oomed /\ reader # "off"
  /\ \A k \in DOMAIN events : k[1] = "oom" => k[2] \in oomed
  /\ reader = "off" => DOMAIN events = {}

(* A record that the reader has yet to read. *)
Unread(i) == reader = "run" /\ i \in DOMAIN log /\ i >= next /\ OomRecord(i)

(* The alert that the other report of the same kill belongs to is open. *)
Raised(v, t) ==
  <<"oom", v>> \in DOMAIN events /\ events[<<"oom", v>>].last = t /\ now - t <= MaxLag

OnceInv ==
  /\ \A v \in VMs : oomRaised[v] <= 1
  /\ \A e \in oomEvents : oomRaised[e.vm] > 0 => Raised(e.vm, e.time)
  /\ \A i \in DOMAIN log : Unread(i) /\ oomRaised[log[i].vm] > 0 => Raised(log[i].vm, log[i].time)

(* The severity that FromKmsg gives a kind without regard to the VM. *)
KindSeverity(kind) == IF kind = "kvm" THEN Warning ELSE RuleSeverity(kind)

(* An alert of a kill has the time of the report that is still to come,    *)
(* and any other one the severity of its kind.                             *)
SeverityInv ==
  /\ \A k \in DOMAIN events : k[1] # "oom" => events[k].sev = KindSeverity(k[1])
  /\ \A e \in oomEvents : <<"oom", e.vm>> \in DOMAIN events => events[<<"oom", e.vm>>].last = e.time
  /\ \A i \in DOMAIN log : Unread(i) /\ <<"oom", log[i].vm>> \in DOMAIN events
       => events[<<"oom", log[i].vm>>].last = log[i].time

LogInv ==
  /\ LogType /\ BufferInv /\ KillInv /\ SeverityInv
  /\ MaxLag < Dedup => OnceInv

(* Emit adds a record and forgets at most old ones. *)
LEMMA EmitDoes ==
  ASSUME LogType, BufferInv, NEW m \in [kind : Kinds, vm : VMs \cup {Host}, thread : Threads, prio : 0 .. 191],
         Emit(m)
  PROVE  /\ seq \in DOMAIN log' /\ seq \notin DOMAIN log /\ DOMAIN log' \subseteq DOMAIN log \cup {seq}
         /\ \A i \in DOMAIN log' : i # seq => log'[i] = log[i]
         /\ log'[seq].kind = m.kind /\ log'[seq].vm = m.vm /\ log'[seq].time = now
         /\ log' \in [DOMAIN log' -> Record]
         /\ seq' = seq + 1
<1> DEFINE kept == {i \in DOMAIN log : i > seq - LogSize}
           new == [kind |-> m.kind, vm |-> m.vm, thread |-> m.thread, prio |-> m.prio, time |-> now]
<1>1. log' = [i \in kept \cup {seq} |-> IF i = seq THEN new ELSE log[i]] /\ seq' = seq + 1
  BY DEF Emit
<1>2. new \in Record /\ new.kind = m.kind /\ new.vm = m.vm /\ new.time = now
  BY DEF Record, LogType
<1>3. seq \notin DOMAIN log
  BY DEF BufferInv, LogType
<1>4. kept \subseteq DOMAIN log
  OBVIOUS
<1>5. \A i \in DOMAIN log : log[i] \in Record
  BY DEF LogType
<1> HIDE DEF kept, new
<1>6. DOMAIN log' = kept \cup {seq} /\ \A i \in kept \cup {seq} : log'[i] = IF i = seq THEN new ELSE log[i]
  BY <1>1
<1>7. \A i \in DOMAIN log' : log'[i] \in Record
  BY <1>6, <1>5, <1>2, <1>4
<1>8. log' \in [DOMAIN log' -> Record]
  BY <1>7, <1>6, <1>1
<1> QED  BY <1>1, <1>2, <1>3, <1>4, <1>6, <1>8

(* The records of the buffer stay contiguous, and those that go are lost   *)
(* unless they were read.                                                  *)
LEMMA EmitBuffer ==
  ASSUME LogType, BufferInv, NEW m, Emit(m), UNCHANGED <<next, reader, handled>>
  PROVE  BufferInv'
<1> DEFINE kept == {i \in DOMAIN log : i > seq - LogSize}
<1>1. PICK lo \in 0 .. seq : DOMAIN log = lo .. seq - 1
  BY DEF BufferInv
<1>2. /\ seq \in Nat /\ next \in Nat /\ LogSize \in Nat \ {0} /\ seq' = seq + 1
      /\ lost' = lost \cup {i \in DOMAIN log \ kept : i >= next}
  BY KernelLogAssumption DEF LogType, Emit
<1>3. DOMAIN log' = kept \cup {seq}
  BY DEF Emit
<1> DEFINE low == IF lo > seq - LogSize THEN lo ELSE seq - LogSize + 1
<1>4. low \in Nat /\ low <= seq
  BY <1>1, <1>2
<1>5. DOMAIN log' = low .. seq' - 1
  BY <1>1, <1>2, <1>3
<1> HIDE DEF low
<1>6. \E l \in 0 .. seq' : DOMAIN log' = l .. seq' - 1
  BY <1>2, <1>4, <1>5
<1>7. \A i \in lost' : i \notin DOMAIN log' /\ i \notin handled /\ i \in 0 .. seq' - 1
  BY <1>1, <1>2, <1>3 DEF BufferInv
<1>8. \A i \in 0 .. seq' - 1 : i \in handled \/ i \in lost' \/ (i >= next /\ i \in DOMAIN log')
  BY <1>1, <1>2, <1>3 DEF BufferInv
<1>9. (reader = "off" => next = 0) /\ next <= seq' /\ handled \subseteq 0 .. next - 1
  BY <1>2 DEF BufferInv
<1>10. lost' \subseteq 0 .. seq' - 1
  BY <1>7
<1> QED
  <2> HIDE DEF kept
  <2> QED  BY <1>6, <1>7, <1>8, <1>9, <1>10 DEF BufferInv

(* The oldest record is where the contiguous records begin. *)
LEMMA OldestIs ==
  ASSUME LogType, BufferInv
  PROVE  /\ Oldest \in 0 .. seq
         /\ \A i \in DOMAIN log : i >= Oldest
         /\ \A i \in 0 .. seq - 1 : i >= Oldest => i \in DOMAIN log
<1>1. PICK lo \in 0 .. seq : DOMAIN log = lo .. seq - 1
  BY DEF BufferInv
<1>2. seq \in Nat
  BY DEF LogType
<1>3. CASE DOMAIN log = {}
  BY <1>1, <1>2, <1>3 DEF Oldest
<1>4. CASE DOMAIN log # {}
  <2>1. lo \in DOMAIN log /\ \A y \in DOMAIN log : lo <= y
    BY <1>1, <1>2, <1>4
  <2>2. Min(DOMAIN log) \in DOMAIN log /\ \A y \in DOMAIN log : Min(DOMAIN log) <= y
    BY <2>1 DEF Min
  <2>3. Oldest = lo
    BY <1>1, <1>2, <1>4, <2>1, <2>2 DEF Oldest
  <2> QED  BY <1>1, <1>2, <2>3
<1> QED  BY <1>3, <1>4, Zenon
-----------------------------------------------------------------------------
(* The event of the engine that an alert is a repeat of. *)
Open(a) == a.key \in DOMAIN events /\ a.time - events[a.key].last < Dedup

(* A repeat updates an alert in place. *)
LEMMA RepeatAlarm ==
  ASSUME NEW o \in Alarm, NEW t \in Int, NEW s \in Int
  PROVE  LET n == [o EXCEPT !.count = @ + 1, !.last = t, !.sev = IF s > @ THEN s ELSE @]
         IN  n \in Alarm /\ n.last = t /\ n.sev = IF s > o.sev THEN s ELSE o.sev
<1> DEFINE n == [o EXCEPT !.count = @ + 1, !.last = t, !.sev = IF s > @ THEN s ELSE @]
<1>1. n.last = t /\ n.sev = IF s > o.sev THEN s ELSE o.sev
  BY DEF Alarm
<1>2. PICK r \in Alarm : r = [o EXCEPT !.count = @ + 1]
  <2>1. [o EXCEPT !.count = @ + 1] \in Alarm
    BY DEF Alarm
  <2> QED  BY <2>1
<1>3. r.sev = o.sev
  BY <1>2 DEF Alarm
<1>4. [r EXCEPT !.last = t, !.sev = IF s > @ THEN s ELSE @] \in Alarm
  BY Zenon DEF Alarm
<1> QED  BY <1>1, <1>2, <1>3, <1>4, Zenon

(* What Engine.Raise does with an alert. *)
LEMMA RaiseDoes ==
  ASSUME LogType, NEW a, Raise(a), a.sev \in Int, a.domain \in VMs \cup {Host}, a.time \in Int,
         a.kind = "oom" => a.about \in VMs
  PROVE  /\ events' \in [DOMAIN events' -> Alarm] /\ oomRaised' \in [VMs -> Nat]
         /\ DOMAIN events' = DOMAIN events \cup {a.key}
         /\ \A k \in DOMAIN events : k # a.key => events'[k] = events[k]
         /\ events'[a.key].last = a.time
         /\ Open(a) => /\ events'[a.key].sev = IF a.sev > events[a.key].sev THEN a.sev ELSE events[a.key].sev
                       /\ oomRaised' = oomRaised
         /\ ~Open(a) => /\ events'[a.key].sev = a.sev
                        /\ oomRaised' = IF a.kind = "oom" THEN [oomRaised EXCEPT ![a.about] = @ + 1]
                                        ELSE oomRaised
<1>0. events \in [DOMAIN events -> Alarm] /\ oomRaised \in [VMs -> Nat]
  BY DEF LogType
<1>1. CASE Open(a)
  <2>1. /\ oomRaised' = oomRaised
        /\ events' = [events EXCEPT ![a.key].count = @ + 1, ![a.key].last = a.time,
                                    ![a.key].sev = IF a.sev > @ THEN a.sev ELSE @]
    BY <1>1 DEF Open, Raise
  <2>2. a.key \in DOMAIN events /\ events[a.key] \in Alarm
    BY <1>0, <1>1 DEF Open
  <2> DEFINE new == [events[a.key] EXCEPT !.count = @ + 1, !.last = a.time,
                                          !.sev = IF a.sev > @ THEN a.sev ELSE @]
  <2>3. /\ new \in Alarm /\ new.last = a.time
        /\ new.sev = IF a.sev > events[a.key].sev THEN a.sev ELSE events[a.key].sev
    <3>1. PICK o \in Alarm : o = events[a.key]
      BY <2>2
    <3>2. LET n == [o EXCEPT !.count = @ + 1, !.last = a.time, !.sev = IF a.sev > @ THEN a.sev ELSE @]
          IN  n \in Alarm /\ n.last = a.time /\ n.sev = IF a.sev > o.sev THEN a.sev ELSE o.sev
      BY RepeatAlarm, Zenon
    <3> QED  BY <3>1, <3>2, Zenon
  <2>4. events' = [events EXCEPT ![a.key] = new]
    BY <2>1, <2>2, <1>0, Zenon DEF Alarm
  <2> HIDE DEF new
  <2>5. DOMAIN events' = DOMAIN events /\ events'[a.key] = new /\ events' \in [DOMAIN events -> Alarm]
    BY <2>2, <2>3, <2>4, <1>0
  <2> QED  BY <1>0, <1>1, <2>1, <2>2, <2>3, <2>4, <2>5
<1>2. CASE ~Open(a)
  <2> DEFINE new == [sev |-> a.sev, domain |-> a.domain, last |-> a.time, count |-> 1]
  <2>1. /\ events' = [k \in DOMAIN events \cup {a.key} |-> IF k = a.key THEN new ELSE events[k]]
        /\ oomRaised' = IF a.kind = "oom" THEN [oomRaised EXCEPT ![a.about] = @ + 1] ELSE oomRaised
    BY <1>2 DEF Open, Raise
  <2>2. new \in Alarm /\ new.last = a.time /\ new.sev = a.sev
    BY DEF Alarm
  <2> HIDE DEF new
  <2>3. DOMAIN events' = DOMAIN events \cup {a.key} /\ events'[a.key] = new
        /\ \A k \in DOMAIN events : k # a.key => events'[k] = events[k]
    BY <2>1
  <2>4. events' \in [DOMAIN events \cup {a.key} -> Alarm]
    BY <2>1, <2>2, <1>0
  <2>5. oomRaised' \in [VMs -> Nat]
    BY <2>1, <1>0
  <2> QED  BY <1>2, <2>1, <2>2, <2>3, <2>4, <2>5
<1> QED  BY <1>1, <1>2

-----------------------------------------------------------------------------
(* An alert that a source raises: its key and severity are those of its    *)
(* kind, and the alert of a kill agrees with the one that is open.         *)
Fits(a) ==
  /\ a.sev \in {Info, Warning, Critical} /\ a.domain \in VMs \cup {Host} /\ a.time \in Nat
  /\ a.key[1] = a.kind
  /\ a.kind # "oom" => a.sev = KindSeverity(a.kind)
  /\ a.kind = "oom" =>
       /\ a.about \in oomed /\ a.key = <<"oom", a.about>>
       /\ a.key \in DOMAIN events => events[a.key].last = a.time
       /\ MaxLag < Dedup /\ oomRaised[a.about] > 0 => Raised(a.about, a.time)

(* The reports of the same kill that are still to come have its time. *)
Awaited(a) ==
  /\ \A e \in oomEvents : e.vm = a.about => e.time = a.time
  /\ \A i \in DOMAIN log : Unread(i) /\ log[i].vm = a.about => log[i].time = a.time /\ now - a.time <= MaxLag

(* FromKmsg of a record, if it makes an alert. *)
LEMMA FromKmsgDoes ==
  ASSUME NEW r \in Record, FromKmsg(Parse(r)) # NoAlert, NEW a, a = FromKmsg(Parse(r))
  PROVE  /\ a.kind = r.kind /\ a.about = r.vm /\ a.time = r.time /\ a.domain \in VMs \cup {Host}
         /\ a.sev \in {Info, Warning, Critical}
         /\ a.key = <<r.kind, IF r.kind = "oom" THEN r.vm ELSE a.domain>>
         /\ r.kind # "oom" => a.sev = KindSeverity(r.kind)
<1> DEFINE p == Parse(r)
           domain == IF HasPid(p.kind) THEN DomainByPID(p) ELSE Host
<1>1. p.kind = r.kind /\ p.vm = r.vm /\ p.time = r.time /\ p.thread = r.thread
  BY DEF Parse
<1>2. domain \in VMs \cup {Host}
  BY <1>1 DEF DomainByPID, Record
<1>3. a = [kind |-> p.kind, domain |-> domain, about |-> p.vm, time |-> p.time,
            sev |-> IF p.kind = "oom" /\ domain # Host THEN Critical
                    ELSE IF p.kind = "kvm" THEN Warning ELSE RuleSeverity(p.kind),
            key |-> <<p.kind, IF p.kind = "oom" THEN p.vm ELSE domain>>]
  BY DEF FromKmsg
<1> HIDE DEF p, domain
<1> QED  BY <1>1, <1>2, <1>3 DEF KindSeverity, RuleSeverity

(* Raising an alert that fits keeps the invariant. *)
LEMMA RaiseKeeps ==
  ASSUME LogInv, NEW a, Fits(a), Raise(a), reader # "off",
         UNCHANGED <<now, log, seq, oomed, reader>>,
         next' \in Nat, next' >= next, oomEvents' \subseteq oomEvents,
         a.kind = "oom" => Awaited(a)'
  PROVE  LogType' /\ KillInv' /\ SeverityInv' /\ (MaxLag < Dedup => OnceInv')
<1>0. /\ LogType /\ KillInv /\ SeverityInv
      /\ now \in Nat /\ Dedup \in Nat /\ MaxLag \in Nat
  BY KernelLogAssumption DEF LogInv, LogType
<1>1. a.kind = "oom" => a.about \in VMs
  BY <1>0 DEF Fits, LogType
<1>2. a.sev \in Int /\ a.time \in Int /\ a.domain \in VMs \cup {Host}
  BY DEF Fits, Info, Warning, Critical
<1>3. /\ events' \in [DOMAIN events' -> Alarm] /\ oomRaised' \in [VMs -> Nat]
      /\ DOMAIN events' = DOMAIN events \cup {a.key}
      /\ \A k \in DOMAIN events : k # a.key => events'[k] = events[k]
      /\ events'[a.key].last = a.time
      /\ Open(a) => /\ events'[a.key].sev = IF a.sev > events[a.key].sev THEN a.sev ELSE events[a.key].sev
                    /\ oomRaised' = oomRaised
      /\ ~Open(a) => /\ events'[a.key].sev = a.sev
                     /\ oomRaised' = IF a.kind = "oom" THEN [oomRaised EXCEPT ![a.about] = @ + 1]
                                     ELSE oomRaised
  BY <1>0, <1>1, <1>2, RaiseDoes
<1>4. \A v \in VMs : a.key = <<"oom", v>> <=> a.kind = "oom" /\ v = a.about
  BY DEF Fits
<1>5. \A v \in VMs : oomRaised[v] \in Nat /\ oomRaised'[v] \in Nat
  BY <1>0, <1>3 DEF LogType
<1>6. \A v \in VMs : oomRaised'[v] = oomRaised[v] \/ (a.kind = "oom" /\ v = a.about /\ ~Open(a))
  BY <1>0, <1>1, <1>3 DEF LogType
<1>7. LogType'
  BY <1>0, <1>3 DEF LogType
<1>8. \A e \in oomEvents : e.vm \in VMs /\ e.time \in Nat
  BY <1>0 DEF LogType
<1>9. \A i \in DOMAIN log : Unread(i)' => Unread(i) /\ log[i].vm \in VMs /\ log[i].time \in Nat
  <2>1. \A i \in DOMAIN log : OomRecord(i) => log[i].vm \in VMs /\ log[i].time \in Nat
    BY <1>0 DEF KillInv, LogType, Record
  <2>2. \A i \in DOMAIN log : i \in Int
    BY DEF LogInv, BufferInv, LogType
  <2> QED  BY <1>0, <2>1, <2>2 DEF Unread, OomRecord, LogType
<1>10. KillInv'
  <2>1. \A v \in VMs : oomRaised'[v] > 0 => v \in oomed
    BY <1>0, <1>5, <1>6 DEF KillInv, Fits
  <2>2. \A k \in DOMAIN events' : k[1] = "oom" => k[2] \in oomed
    BY <1>0, <1>3 DEF KillInv, Fits
  <2> QED  BY <1>0, <2>1, <2>2 DEF KillInv, OomRecord
<1>11. SeverityInv'
  <2>1. \A k \in DOMAIN events' : k[1] # "oom" => events'[k].sev = KindSeverity(k[1])
    <3>1. a.kind # "oom" => events'[a.key].sev = KindSeverity(a.key[1])
      BY <1>0, <1>3 DEF SeverityInv, Fits, Open
    <3> QED  BY <1>0, <1>3, <3>1 DEF SeverityInv, Fits
  <2>2. ASSUME NEW e \in oomEvents', <<"oom", e.vm>> \in DOMAIN events'
        PROVE  events'[<<"oom", e.vm>>].last = e.time
    BY <1>0, <1>3, <1>4, <1>8, <2>2 DEF SeverityInv, Awaited
  <2>3. ASSUME NEW i \in DOMAIN log, Unread(i)', <<"oom", log[i].vm>> \in DOMAIN events'
        PROVE  events'[<<"oom", log[i].vm>>].last = log[i].time
    BY <1>0, <1>3, <1>4, <1>9, <2>3 DEF SeverityInv, Awaited
  <2> QED  BY <2>1, <2>2, <2>3 DEF SeverityInv
<1>12. ASSUME MaxLag < Dedup PROVE OnceInv'
  <2>0. OnceInv
    BY <1>12 DEF LogInv
  <2>1. a.kind = "oom" /\ ~Open(a) => oomRaised[a.about] = 0
    BY <1>0, <1>1, <1>5, <1>12 DEF Fits, Open, Raised
  <2>2. \A v \in VMs : oomRaised'[v] <= 1
    BY <1>0, <1>1, <1>3, <1>6, <2>0, <2>1 DEF OnceInv, LogType
  <2>3. \A v \in VMs : \A t \in Nat :
          (a.kind = "oom" => v # a.about) /\ Raised(v, t) => Raised(v, t)'
    BY <1>3, <1>4 DEF Raised
  <2>4. ASSUME NEW e \in oomEvents', oomRaised'[e.vm] > 0 PROVE Raised(e.vm, e.time)'
    <3>1. CASE a.kind = "oom" /\ e.vm = a.about
      BY <1>0, <1>3, <1>8, <3>1 DEF Raised, Awaited, KillInv, Fits
    <3>2. CASE ~(a.kind = "oom" /\ e.vm = a.about)
      BY <1>6, <1>8, <2>0, <2>3, <2>4, <3>2 DEF OnceInv
    <3> QED  BY <3>1, <3>2
  <2>5. ASSUME NEW i \in DOMAIN log, Unread(i)', oomRaised'[log[i].vm] > 0
        PROVE  Raised(log[i].vm, log[i].time)'
    <3>1. CASE a.kind = "oom" /\ log[i].vm = a.about
      BY <1>0, <1>3, <1>9, <2>5, <3>1 DEF Raised, Awaited, Fits
    <3>2. CASE ~(a.kind = "oom" /\ log[i].vm = a.about)
      BY <1>6, <1>9, <2>0, <2>3, <2>5, <3>2 DEF OnceInv
    <3> QED  BY <3>1, <3>2
  <2> QED  BY <2>2, <2>4, <2>5 DEF OnceInv
<1> QED  BY <1>7, <1>10, <1>11, <1>12

(* No step raises the time of an alert that is open but by Raise; the rest *)
(* of the invariant survives a step that leaves the engine and the log     *)
(* alone.                                                                  *)
LEMMA QuietKeeps ==
  ASSUME LogInv, UNCHANGED <<now, log, seq, oomed, reader, lost, oomEvents, events, oomRaised, next, handled>>
  PROVE  LogInv'
BY DEF LogInv, LogType, BufferInv, KillInv, SeverityInv, OnceInv, Raised, Unread, OomRecord

-----------------------------------------------------------------------------
(* One lemma per action.  The kernel. *)
LEMMA EmitKeeps ==
  ASSUME LogInv, NEW m \in [kind : Kinds, vm : VMs \cup {Host}, thread : Threads, prio : 0 .. 191], Emit(m),
         UNCHANGED <<now, next, reader, handled, events, oomRaised>>,
         \/ m.kind # "oom" /\ UNCHANGED <<oomed, oomEvents>>
         \/ /\ m.kind = "oom" /\ m.vm \in VMs \ oomed /\ oomed' = oomed \cup {m.vm}
            /\ oomEvents' = IF reader = "off" THEN oomEvents
                            ELSE oomEvents \cup {[vm |-> m.vm, time |-> now]}
  PROVE  LogInv'
<1>0. LogType /\ BufferInv /\ KillInv /\ SeverityInv /\ now \in Nat /\ seq \in Nat /\ MaxLag \in Nat
  BY KernelLogAssumption DEF LogInv, LogType
<1>1. BufferInv'
  BY <1>0, EmitBuffer
<1>2. /\ seq \in DOMAIN log' /\ seq \notin DOMAIN log /\ DOMAIN log' \subseteq DOMAIN log \cup {seq}
      /\ \A i \in DOMAIN log' : i # seq => log'[i] = log[i]
      /\ log'[seq].kind = m.kind /\ log'[seq].vm = m.vm /\ log'[seq].time = now
      /\ log' \in [DOMAIN log' -> Record]
      /\ seq' = seq + 1
  BY <1>0, EmitDoes
<1>3. /\ oomed \subseteq oomed' /\ oomed' \subseteq VMs /\ (m.kind = "oom" => m.vm \in oomed')
      /\ \A e \in oomEvents' :
           e \in oomEvents \/ (m.kind = "oom" /\ e.vm = m.vm /\ e.time = now /\ reader # "off")
      /\ oomEvents' \subseteq [vm : VMs, time : Nat]
      /\ m.kind = "oom" => m.vm \in VMs /\ m.vm \notin oomed
  BY <1>0 DEF LogType
<1>4. LogType'
  BY <1>0, <1>2, <1>3 DEF LogType
<1>5. /\ \A i \in DOMAIN log : OomRecord(i) => log[i].vm \in oomed
      /\ \A e \in oomEvents : e.vm \in oomed
      /\ \A k \in DOMAIN events : k[1] = "oom" => k[2] \in oomed
      /\ \A v \in VMs : oomRaised[v] > 0 => v \in oomed
  BY <1>0 DEF KillInv
<1>6. \A i \in DOMAIN log' : OomRecord(i)' =>
        \/ i \in DOMAIN log /\ OomRecord(i) /\ log'[i] = log[i] /\ log'[i].vm \in oomed
        \/ i = seq /\ m.kind = "oom" /\ log'[i].vm = m.vm /\ log'[i].time = now
  BY <1>2, <1>5 DEF OomRecord
<1>7. KillInv'
  <2>1. \A i \in DOMAIN log' : OomRecord(i)' => log'[i].vm \in oomed'
    BY <1>3, <1>6
  <2>2. \A i, j \in DOMAIN log' : OomRecord(i)' /\ OomRecord(j)' /\ log'[i].vm = log'[j].vm => i = j
    BY <1>0, <1>3, <1>6 DEF KillInv
  <2>3. \A e \in oomEvents' : e.vm \in oomed' /\ reader # "off" /\ now - e.time <= MaxLag
    BY <1>0, <1>3 DEF KillInv
  <2>4. \A e \in oomEvents', i \in DOMAIN log' : OomRecord(i)' /\ log'[i].vm = e.vm => log'[i].time = e.time
    BY <1>0, <1>3, <1>5, <1>6 DEF KillInv
  <2>5. \A e, f \in oomEvents' : e.vm = f.vm => e = f
    <3>1. \A e \in oomEvents' : e = [vm |-> e.vm, time |-> e.time]
      BY <1>3
    <3> QED  BY <1>0, <1>3, <1>5, <3>1 DEF KillInv
  <2>6. /\ \A v \in VMs : oomRaised'[v] > 0 => v \in oomed' /\ reader # "off"
        /\ \A k \in DOMAIN events' : k[1] = "oom" => k[2] \in oomed'
        /\ reader = "off" => DOMAIN events' = {}
    BY <1>0, <1>3 DEF KillInv
  <2> QED  BY <2>1, <2>2, <2>3, <2>4, <2>5, <2>6 DEF KillInv
<1>8. m.kind = "oom" => <<"oom", m.vm>> \notin DOMAIN events /\ ~(oomRaised[m.vm] > 0)
  BY <1>3, <1>5
<1>9. \A i \in DOMAIN log' : Unread(i)' =>
        \/ i \in DOMAIN log /\ Unread(i) /\ log'[i] = log[i]
        \/ m.kind = "oom" /\ log'[i].vm = m.vm
  BY <1>6 DEF Unread
<1>10. SeverityInv'
  BY <1>0, <1>3, <1>8, <1>9 DEF SeverityInv
<1>11. ASSUME MaxLag < Dedup PROVE OnceInv'
  <2>0. OnceInv
    BY <1>11 DEF LogInv
  <2> QED  BY <2>0, <1>3, <1>8, <1>9 DEF OnceInv, Raised
<1> QED  BY <1>1, <1>4, <1>7, <1>10, <1>11 DEF LogInv

LEMMA ClockKeeps == LogInv /\ Clock => LogInv'
<1> SUFFICES ASSUME LogInv, Clock PROVE LogInv'
  OBVIOUS
<1>1. /\ UNCHANGED <<log, seq, oomed, reader, lost, oomEvents, events, oomRaised, next, handled>>
      /\ now' = now + 1 /\ now \in Nat /\ MaxLag \in Nat
      /\ reader = "run" => \A i \in DOMAIN log : i >= next => now - log[i].time < MaxLag
      /\ \A e \in oomEvents : now - e.time < MaxLag
  BY KernelLogAssumption DEF Clock, LogInv, LogType, kernel, engine, follow
<1>2. LogType' /\ BufferInv'
  BY <1>1 DEF LogInv, LogType, BufferInv
<1>3. \A e \in oomEvents : e.time \in Nat
  BY DEF LogInv, LogType
<1>4. \A i \in DOMAIN log : log[i].time \in Nat
  BY DEF LogInv, LogType, Record
<1>5. KillInv'
  BY <1>1, <1>3 DEF LogInv, KillInv, OomRecord
<1>6. SeverityInv'
  BY <1>1 DEF LogInv, SeverityInv, Unread, OomRecord
<1>7. ASSUME MaxLag < Dedup PROVE OnceInv'
  BY <1>1, <1>3, <1>4, <1>7 DEF LogInv, OnceInv, Raised, Unread, OomRecord
<1> QED  BY <1>2, <1>5, <1>6, <1>7 DEF LogInv

(* Evaluate does not end the window of a kill of which a report is still   *)
(* to come.                                                                *)
LEMMA TickKeeps == LogInv /\ PollerTick => LogInv'
<1> SUFFICES ASSUME LogInv, PollerTick PROVE LogInv'
  OBVIOUS
<1> DEFINE kept == {k \in DOMAIN events : now - events[k].last < Dedup}
<1>1. /\ UNCHANGED <<now, log, seq, oomed, reader, lost, oomEvents, oomRaised, next, handled>>
      /\ events' = Restrict(events, kept) /\ reader # "off"
      /\ now \in Nat /\ MaxLag \in Nat /\ Dedup \in Nat
  BY KernelLogAssumption DEF PollerTick, LogInv, LogType, kernel, follow
<1>2. /\ DOMAIN events' \subseteq DOMAIN events /\ \A k \in DOMAIN events' : events'[k] = events[k]
      /\ \A k \in DOMAIN events : now - events[k].last < Dedup => k \in DOMAIN events'
      /\ events' = [k \in DOMAIN events' |-> events'[k]]
  BY <1>1 DEF Restrict
<1>3. LogType' /\ BufferInv'
  BY <1>1, <1>2 DEF LogInv, LogType, BufferInv
<1>4. KillInv'
  BY <1>1, <1>2 DEF LogInv, KillInv, OomRecord
<1>5. SeverityInv'
  BY <1>1, <1>2 DEF LogInv, SeverityInv, Unread, OomRecord
<1>6. ASSUME MaxLag < Dedup PROVE OnceInv'
  <2>1. \A v \in VMs : \A t \in Nat : Raised(v, t) => Raised(v, t)'
    BY <1>1, <1>2, <1>6 DEF Raised
  <2>2. (\A e \in oomEvents : e.vm \in VMs /\ e.time \in Nat)
    BY DEF LogInv, LogType
  <2>3. \A i \in DOMAIN log : OomRecord(i) => log[i].vm \in VMs /\ log[i].time \in Nat
    BY DEF LogInv, LogType, KillInv, Record
  <2> QED  BY <1>1, <1>6, <2>1, <2>2, <2>3 DEF LogInv, OnceInv, Unread, OomRecord
<1> QED  BY <1>3, <1>4, <1>5, <1>6 DEF LogInv

-----------------------------------------------------------------------------
(* The reader. *)
LEMMA SkipBuffer ==
  ASSUME LogType, BufferInv, UNCHANGED <<log, seq, lost, handled>>, next' = Oldest,
         reader' # "off", reader = "off" \/ next < Oldest
  PROVE  BufferInv' /\ next' \in Nat
<1>1. /\ Oldest \in 0 .. seq
      /\ \A i \in DOMAIN log : i >= Oldest
  BY OldestIs
<1>2. next <= Oldest /\ seq \in Nat /\ next \in Nat
  BY <1>1 DEF BufferInv, LogType
<1> QED  BY <1>1, <1>2 DEF BufferInv

LEMMA StartKeeps == LogInv /\ Start => LogInv'
<1> SUFFICES ASSUME LogInv, Start PROVE LogInv'
  OBVIOUS
<1>1. /\ UNCHANGED <<now, log, seq, oomed, lost, oomEvents, events, oomRaised, handled>>
      /\ reader = "off" /\ reader' = "run" /\ next' = Oldest
  BY DEF Start, kernel, engine
<1>2. BufferInv' /\ next' \in Nat
  BY <1>1, SkipBuffer DEF LogInv
<1>3. LogType'
  BY <1>1, <1>2 DEF LogInv, LogType
<1>4. DOMAIN events = {} /\ oomEvents = {} /\ \A v \in VMs : ~(oomRaised[v] > 0) /\ oomRaised[v] \in Nat
  BY <1>1 DEF LogInv, KillInv, LogType
<1>5. KillInv'
  BY <1>1, <1>4 DEF LogInv, KillInv, OomRecord
<1>6. SeverityInv'
  BY <1>1, <1>4 DEF SeverityInv
<1>7. \A i \in DOMAIN log : OomRecord(i) => log[i].vm \in VMs
  BY DEF LogInv, LogType, KillInv
<1>8. OnceInv'
  BY <1>1, <1>4, <1>7 DEF OnceInv, Unread, OomRecord
<1> QED  BY <1>2, <1>3, <1>5, <1>6, <1>8 DEF LogInv

LEMMA OverrunKeeps == LogInv /\ Overrun => LogInv'
<1> SUFFICES ASSUME LogInv, Overrun PROVE LogInv'
  OBVIOUS
<1>1. /\ UNCHANGED <<now, log, seq, oomed, lost, oomEvents, events, oomRaised, handled, reader>>
      /\ reader = "run" /\ next < Oldest /\ next' = Oldest
  BY DEF Overrun, kernel, engine
<1>2. BufferInv' /\ next' \in Nat
  BY <1>1, SkipBuffer DEF LogInv
<1>3. LogType'
  BY <1>1, <1>2 DEF LogInv, LogType
<1>4. KillInv'
  BY <1>1 DEF LogInv, KillInv, OomRecord
<1>5. \A i \in DOMAIN log : Unread(i)' => Unread(i)
  BY <1>1, <1>2 DEF LogInv, LogType, BufferInv, Unread, OomRecord
<1>6. SeverityInv'
  BY <1>1, <1>5 DEF LogInv, SeverityInv
<1>7. ASSUME MaxLag < Dedup PROVE OnceInv'
  BY <1>1, <1>5, <1>7 DEF LogInv, OnceInv, Raised
<1> QED  BY <1>2, <1>3, <1>4, <1>6, <1>7 DEF LogInv

(* The record that the reader handles leaves an alert that fits, or none. *)
LEMMA RecordFits ==
  ASSUME LogInv, reader = "run", next \in DOMAIN log, NEW a, a = FromKmsg(Parse(log[next])), a # NoAlert
  PROVE  Fits(a) /\ a.kind = log[next].kind /\ a.about = log[next].vm /\ a.time = log[next].time
<1>0. log[next] \in Record /\ next \in Nat /\ log[next].time \in Nat
  BY DEF LogInv, LogType, Record
<1>1. /\ a.kind = log[next].kind /\ a.about = log[next].vm /\ a.time = log[next].time
      /\ a.domain \in VMs \cup {Host} /\ a.sev \in {Info, Warning, Critical}
      /\ a.key = <<log[next].kind, IF log[next].kind = "oom" THEN log[next].vm ELSE a.domain>>
      /\ log[next].kind # "oom" => a.sev = KindSeverity(log[next].kind)
  BY <1>0, FromKmsgDoes
<1>2. a.kind = "oom" => Unread(next) /\ a.about \in oomed /\ a.key = <<"oom", a.about>>
  <2>1. a.kind = "oom" => OomRecord(next) /\ a.key = <<"oom", a.about>>
    BY <1>1 DEF OomRecord
  <2>2. OomRecord(next) => Unread(next) /\ log[next].vm \in oomed
    BY <1>0 DEF Unread, LogInv, KillInv
  <2> QED  BY <1>1, <2>1, <2>2
<1>3. a.kind = "oom" /\ a.key \in DOMAIN events => events[a.key].last = a.time
  BY <1>1, <1>2 DEF LogInv, SeverityInv
<1>4. a.kind = "oom" /\ MaxLag < Dedup /\ oomRaised[a.about] > 0 => Raised(a.about, a.time)
  BY <1>1, <1>2 DEF LogInv, OnceInv
<1> QED  BY <1>0, <1>1, <1>2, <1>3, <1>4 DEF Fits

LEMMA FollowKeeps == LogInv /\ Follow => LogInv'
<1> SUFFICES ASSUME LogInv, Follow PROVE LogInv'
  OBVIOUS
<1>1. /\ UNCHANGED <<now, log, seq, oomed, lost, oomEvents, reader>>
      /\ reader = "run" /\ next \in DOMAIN log /\ next' = next + 1 /\ handled' = handled \cup {next}
  BY DEF Follow, kernel
<1>2. \/ UNCHANGED <<events, oomRaised>>
      \/ \E a : a = FromKmsg(Parse(log[next])) /\ a # NoAlert /\ Raise(a)
  BY Zenon DEF Follow, engine
<1>3. /\ next \in Nat /\ seq \in Nat /\ (\A i \in DOMAIN log : i \in 0 .. seq - 1)
      /\ \A i \in lost : i \notin DOMAIN log
  BY DEF LogInv, LogType, BufferInv
<1>4. BufferInv'
  <2>0. handled \subseteq 0 .. next - 1 /\ next \in 0 .. seq - 1 /\ \A i \in lost : i \notin handled
    BY <1>1, <1>3 DEF LogInv, BufferInv
  <2>1. \A i \in lost : i \notin DOMAIN log /\ i \notin handled'
    BY <1>1, <1>3, <2>0
  <2>2. handled' \subseteq 0 .. next' - 1 /\ next' <= seq
    <3>1. \A i \in handled' : i \in 0 .. next
      BY <1>1, <1>3, <2>0
    <3>2. next' - 1 = next /\ next' <= seq
      BY <1>1, <1>3, <2>0
    <3> QED  BY <3>1, <3>2
  <2>3. \A i \in 0 .. seq - 1 : i \in handled' \/ i \in lost \/ (i >= next' /\ i \in DOMAIN log)
    BY <1>1, <1>3 DEF LogInv, BufferInv
  <2>4. (\E lo \in 0 .. seq : DOMAIN log = lo .. seq - 1) /\ lost \subseteq 0 .. seq - 1
    BY DEF LogInv, BufferInv
  <2> QED  BY <1>1, <2>1, <2>2, <2>3, <2>4 DEF BufferInv
<1>5. \A i \in DOMAIN log : Unread(i)' => Unread(i) /\ i # next
  BY <1>1, <1>3 DEF Unread, OomRecord
<1>6. CASE UNCHANGED <<events, oomRaised>>
  <2>1. LogType'
    BY <1>1, <1>3, <1>6 DEF LogInv, LogType
  <2>2. KillInv'
    BY <1>1, <1>6 DEF LogInv, KillInv, OomRecord
  <2>3. SeverityInv'
    BY <1>1, <1>5, <1>6 DEF LogInv, SeverityInv
  <2>4. ASSUME MaxLag < Dedup PROVE OnceInv'
    BY <1>1, <1>5, <1>6, <2>4 DEF LogInv, OnceInv, Raised
  <2> QED  BY <1>4, <2>1, <2>2, <2>3, <2>4 DEF LogInv
<1>7. ASSUME NEW a, a = FromKmsg(Parse(log[next])), a # NoAlert, Raise(a) PROVE LogInv'
  <2>1. Fits(a) /\ a.kind = log[next].kind /\ a.about = log[next].vm /\ a.time = log[next].time
    BY <1>1, <1>7, RecordFits
  <2>2. a.kind = "oom" => Awaited(a)'
    <3> SUFFICES ASSUME a.kind = "oom" PROVE Awaited(a)'
      OBVIOUS
    <3>1. OomRecord(next)
      BY <2>1 DEF OomRecord
    <3>2. \A e \in oomEvents : e.vm = a.about => e.time = a.time
      BY <1>1, <2>1, <3>1 DEF LogInv, KillInv
    <3>3. \A i \in DOMAIN log : Unread(i)' => log[i].vm # a.about
      BY <1>1, <1>5, <2>1, <3>1 DEF LogInv, KillInv, Unread
    <3> QED  BY <1>1, <3>2, <3>3 DEF Awaited
  <2>3. next' \in Nat /\ next' >= next /\ oomEvents' \subseteq oomEvents /\ reader # "off"
    BY <1>1, <1>3
  <2>4. LogType' /\ KillInv' /\ SeverityInv' /\ (MaxLag < Dedup => OnceInv')
    BY <1>1, <1>7, <2>1, <2>2, <2>3, RaiseKeeps
  <2> QED  BY <1>4, <2>4 DEF LogInv
<1> QED  BY <1>2, <1>6, <1>7

(* The event of a kill fits as well. *)
LEMMA EventFits ==
  ASSUME LogInv, NEW e \in oomEvents, NEW a, a = FromProbeEvent(e)
  PROVE  Fits(a) /\ a.kind = "oom" /\ a.about = e.vm /\ a.time = e.time
<1>1. /\ a.kind = "oom" /\ a.about = e.vm /\ a.time = e.time /\ a.key = <<"oom", e.vm>>
      /\ a.domain \in {e.vm, Host} /\ a.sev \in {Warning, Critical}
  BY DEF FromProbeEvent
<1>2. e.vm \in VMs /\ e.time \in Nat /\ e.vm \in oomed
  BY DEF LogInv, LogType, KillInv
<1>3. a.key \in DOMAIN events => events[a.key].last = a.time
  BY <1>1 DEF LogInv, SeverityInv
<1>4. MaxLag < Dedup /\ oomRaised[a.about] > 0 => Raised(a.about, a.time)
  BY <1>1 DEF LogInv, OnceInv
<1> QED  BY <1>1, <1>2, <1>3, <1>4 DEF Fits

LEMMA DeliverKeeps == ASSUME LogInv, NEW e \in oomEvents, Deliver(e) PROVE LogInv'
<1>1. /\ UNCHANGED <<now, log, seq, oomed, lost, reader, next, handled>>
      /\ oomEvents' = oomEvents \ {e}
  BY DEF Deliver, kernel, follow
<1>2. PICK a : a = FromProbeEvent(e) /\ Raise(a)
  BY Zenon DEF Deliver
<1>3. Fits(a) /\ a.kind = "oom" /\ a.about = e.vm /\ a.time = e.time
  BY <1>2, EventFits
<1>4. Awaited(a)'
  <2>1. \A f \in oomEvents' : f.vm = a.about => f.time = a.time
    BY <1>1, <1>3 DEF LogInv, KillInv
  <2>2. \A i \in DOMAIN log : Unread(i)' /\ log[i].vm = a.about => log[i].time = a.time
    BY <1>1, <1>3 DEF LogInv, KillInv, Unread, OomRecord
  <2>3. now - a.time <= MaxLag
    BY <1>3 DEF LogInv, KillInv
  <2> QED  BY <1>1, <2>1, <2>2, <2>3 DEF Awaited
<1>5. next' \in Nat /\ next' >= next /\ oomEvents' \subseteq oomEvents /\ reader # "off"
  BY <1>1 DEF LogInv, LogType, KillInv
<1>6. LogType' /\ KillInv' /\ SeverityInv' /\ (MaxLag < Dedup => OnceInv')
  BY <1>1, <1>2, <1>3, <1>4, <1>5, RaiseKeeps
<1>7. BufferInv'
  BY <1>1 DEF LogInv, BufferInv
<1> QED  BY <1>6, <1>7 DEF LogInv

LEMMA StopKeeps == LogInv /\ Stop => LogInv'
<1> SUFFICES ASSUME LogInv, Stop PROVE LogInv'
  OBVIOUS
<1>1. /\ UNCHANGED <<now, log, seq, oomed, lost, oomEvents, events, oomRaised, next, handled>>
      /\ reader = "run" /\ reader' = "stopped"
  BY DEF Stop, kernel, engine
<1>2. LogType' /\ BufferInv' /\ KillInv'
  BY <1>1 DEF LogInv, LogType, BufferInv, KillInv, OomRecord
<1>3. SeverityInv' /\ (MaxLag < Dedup => OnceInv')
  BY <1>1, Zenon DEF LogInv, SeverityInv, OnceInv, Raised, Unread
<1> QED  BY <1>2, <1>3 DEF LogInv

LEMMA LogStart == Init => LogInv
<1> SUFFICES ASSUME Init PROVE LogInv
  OBVIOUS
<1>1. /\ now = 0 /\ oomed = {} /\ seq = 0 /\ next = 0 /\ reader = "off" /\ oomEvents = {}
      /\ handled = {} /\ lost = {} /\ oomRaised = [v \in VMs |-> 0] /\ log = <<>> /\ events = <<>>
  BY Zenon DEF Init
<1>2. /\ DOMAIN log = {} /\ log \in [DOMAIN log -> Record]
      /\ DOMAIN events = {} /\ events \in [DOMAIN events -> Alarm]
  BY <1>1
<1>3. LogType
  BY <1>1, <1>2 DEF LogType
<1>4. BufferInv
  BY <1>1, <1>2 DEF BufferInv
<1>5. KillInv /\ SeverityInv
  BY <1>1, <1>2 DEF KillInv, SeverityInv
<1>6. OnceInv
  BY <1>1, <1>2 DEF OnceInv
<1> QED  BY <1>3, <1>4, <1>5, <1>6 DEF LogInv

LEMMA LogNext == LogInv /\ [Next]_vars => LogInv'
<1> SUFFICES ASSUME LogInv, [Next]_vars PROVE LogInv'
  OBVIOUS
<1>1. ASSUME NEW m \in Messages, Logged(m) PROVE LogInv'
  <2>1. m \in [kind : Kinds \ {"oom"}, vm : VMs \cup {Host}, thread : Threads, prio : 0 .. 191]
    BY KernelLogAssumption
  <2>2. m \in [kind : Kinds, vm : VMs \cup {Host}, thread : Threads, prio : 0 .. 191] /\ m.kind # "oom"
    BY <2>1
  <2>3. Emit(m) /\ UNCHANGED <<now, next, reader, handled, events, oomRaised, oomed, oomEvents>>
    BY <1>1 DEF Logged, engine, follow
  <2> QED  BY <2>2, <2>3, EmitKeeps
<1>2. ASSUME NEW v \in VMs, OomKill(v) PROVE LogInv'
  <2>1. PICK m : m = [kind |-> "oom", vm |-> v, thread |-> "main", prio |-> 3]
    BY Zenon
  <2>2. /\ m \in [kind : Kinds, vm : VMs \cup {Host}, thread : Threads, prio : 0 .. 191]
        /\ m.kind = "oom" /\ m.vm = v
    BY <2>1 DEF Kinds, Threads
  <2>3. /\ Emit(m) /\ UNCHANGED <<now, next, reader, handled, events, oomRaised>>
        /\ v \notin oomed /\ oomed' = oomed \cup {v}
        /\ oomEvents' = IF reader = "off" THEN oomEvents ELSE oomEvents \cup {[vm |-> v, time |-> now]}
    BY <1>2, <2>1 DEF OomKill, engine, follow
  <2> QED  BY <2>2, <2>3, EmitKeeps
<1>3. ASSUME NEW v \in VMs, Die(v) PROVE LogInv'
  BY <1>3, QuietKeeps DEF Die, engine, follow
<1>4. ASSUME Cancel \/ UNCHANGED vars PROVE LogInv'
  BY <1>4, QuietKeeps DEF Cancel, vars, kernel, engine, follow
<1> QED
  BY <1>1, <1>2, <1>3, <1>4, ClockKeeps, TickKeeps, StartKeeps, OverrunKeeps, FollowKeeps, StopKeeps,
     DeliverKeeps DEF Next

(* The invariant holds whatever the kernel logs and whenever the reader,   *)
(* the poller and the probe events run.                                    *)
THEOREM LogAlways == Spec => []LogInv
BY LogStart, LogNext, PTL DEF Spec

(* Reader.Next: whatever is overwritten, every record before the reader's  *)
(* place was classified once or lost, for any size of the kernel's buffer. *)
THEOREM EveryRecord == Spec => []AllRead
<1>1. LogInv => AllRead
  BY DEF LogInv, LogType, BufferInv, AllRead
<1> QED  BY <1>1, LogAlways, PTL

(* FromKmsg and FromProbeEvent give an OOM kill one key, so that Raise     *)
(* makes one alert of its two reports, for any number of VMs and messages  *)
(* and any window longer than a report can wait.                           *)
THEOREM KillAlertedOnce == Spec => []OneOom
<1>1. LogInv => OneOom
  BY DEF LogInv, OnceInv, OneOom
<1> QED  BY <1>1, LogAlways, PTL

(* Raise never lowers the severity of an open event when an alert fits. *)
LEMMA RaiseSeverity ==
  ASSUME LogInv, NEW a, Fits(a), Raise(a), Dedup > 0
  PROVE  \A k \in DOMAIN events \cap DOMAIN events' : events'[k].sev >= events[k].sev
<1>0. a.kind = "oom" => a.about \in VMs
  BY DEF Fits, LogInv, LogType
<1>1. a.sev \in Int /\ a.time \in Int /\ a.domain \in VMs \cup {Host} /\ Dedup \in Nat
  BY KernelLogAssumption DEF Fits, Info, Warning, Critical
<1>2. /\ \A k \in DOMAIN events : k # a.key => events'[k] = events[k]
      /\ Open(a) => events'[a.key].sev = IF a.sev > events[a.key].sev THEN a.sev ELSE events[a.key].sev
      /\ ~Open(a) => events'[a.key].sev = a.sev
  BY <1>0, <1>1, RaiseDoes, Zenon DEF LogInv
<1>3. \A k \in DOMAIN events : events[k].sev \in Int
  BY DEF LogInv, LogType, Alarm
<1>4. a.key \in DOMAIN events /\ ~Open(a) => events[a.key].sev = a.sev
  <2>1. CASE a.kind = "oom"
    <3>1. a.key \in DOMAIN events => events[a.key].last = a.time
      BY <2>1 DEF Fits
    <3>2. a.time - a.time < Dedup
      BY <1>1
    <3> QED  BY <3>1, <3>2 DEF Open
  <2>2. CASE a.kind # "oom"
    <3>1. a.key[1] # "oom" /\ a.sev = KindSeverity(a.key[1])
      BY <2>2 DEF Fits
    <3> QED  BY <3>1 DEF LogInv, SeverityInv
  <2> QED  BY <2>1, <2>2
<1> QED  BY <1>1, <1>2, <1>3, <1>4

(* Engine.Raise: the source that could not find the VM does not undo the   *)
(* severity that the other one gave the alert, in whatever order they      *)
(* come.                                                                   *)
THEOREM SeverityNeverFalls == Spec => SeverityKept
<1> DEFINE Kept == Dedup > 0 => \A k \in DOMAIN events \cap DOMAIN events' : events'[k].sev >= events[k].sev
<1>1. LogInv /\ [Next]_vars => Kept
  <2> SUFFICES ASSUME LogInv, [Next]_vars, Dedup > 0
               PROVE  \A k \in DOMAIN events \cap DOMAIN events' : events'[k].sev >= events[k].sev
    OBVIOUS
  <2>0. \A k \in DOMAIN events : events[k].sev \in Int
    BY DEF LogInv, LogType, Alarm
  <2>1. CASE events' = events
    BY <2>0, <2>1
  <2>2. CASE PollerTick
    BY <2>0, <2>2 DEF PollerTick, Restrict
  <2>3. CASE Follow
    <3>1. \/ events' = events
          \/ \E a : a = FromKmsg(Parse(log[next])) /\ a # NoAlert /\ Raise(a)
      BY <2>3, Zenon DEF Follow, engine
    <3>2. reader = "run" /\ next \in DOMAIN log
      BY <2>3 DEF Follow
    <3>3. ASSUME NEW a, a = FromKmsg(Parse(log[next])), a # NoAlert, Raise(a)
          PROVE  \A k \in DOMAIN events \cap DOMAIN events' : events'[k].sev >= events[k].sev
      BY <3>2, <3>3, RecordFits, RaiseSeverity
    <3> QED  BY <2>1, <3>1, <3>3
  <2>4. ASSUME NEW e \in oomEvents, Deliver(e)
        PROVE  \A k \in DOMAIN events \cap DOMAIN events' : events'[k].sev >= events[k].sev
    <3>1. PICK a : a = FromProbeEvent(e) /\ Raise(a)
      BY <2>4, Zenon DEF Deliver
    <3> QED  BY <3>1, EventFits, RaiseSeverity
  <2>5. events' = events \/ PollerTick \/ Follow \/ \E e \in oomEvents : Deliver(e)
    BY Zenon DEF Next, vars, engine, Logged, OomKill, Die, Clock, Start, Overrun, Cancel, Stop
  <2> QED  BY <2>1, <2>2, <2>3, <2>4, <2>5
<1>2. LogInv /\ [Next]_vars => [Kept]_vars
  BY <1>1
<1> QED  BY <1>2, LogAlways, PTL DEF Spec, SeverityKept
-----------------------------------------------------------------------------
(* The detector. *)

(* The increase that domainEvents sees between two readings of a counter. *)
Gap(old, new) == IF old >= 0 /\ new > old THEN new - old ELSE 0

(* What is known of a VM's counter: since a snapshot of the same process   *)
(* it has grown with the errors, and what was reported since the counter   *)
(* was new to the detector, with what the coming Run will report, are the  *)
(* errors from there to the snapshot.                                      *)
ToldOf(v) ==
  /\ shot[v].all <= disk[v].all
  /\ shot[v].same /\ snaps[v].errs >= 0
       => disk[v].count - snaps[v].errs = disk[v].all - shot[v].all
  /\ base[v].same =>
       /\ shot[v].same /\ prev[v].errs >= 0
       /\ snaps[v].errs >= 0 =>
            /\ snaps[v].errs >= prev[v].errs
            /\ reported[v] - base[v].rep + (snaps[v].errs - prev[v].errs) = shot[v].all - base[v].all

(* The inductive invariant.  Between two ticks Detector.prev is what the   *)
(* store lists; the events tell what is in prev; and the errors reported,  *)
(* those the coming Run will report and those the disk had since the last  *)
(* snapshot are all errors that happened.                                  *)
DetectorInv ==
  /\ ~due => prev = snaps
  /\ ~primed => \A v \in Guests : prev[v] = Gone
  /\ primed => \A v \in Guests : told[v].st = prev[v].st
  /\ \A v \in Guests : disk[v].count <= disk[v].all
  /\ \A v \in Guests :
       reported[v] + Gap(prev[v].errs, snaps[v].errs) + Gap(snaps[v].errs, disk[v].count)
         <= disk[v].all
  /\ \A v \in Guests : ToldOf(v)

(* The fields of a VM that ToldOf is about. *)
LEMMA ToldType ==
  ASSUME DetectorTypeOK, NEW v \in Guests
  PROVE  /\ shot[v].all \in Nat /\ base[v].all \in Nat /\ base[v].rep \in Nat
         /\ shot[v].same \in BOOLEAN /\ base[v].same \in BOOLEAN
         /\ disk[v].count \in Nat /\ disk[v].all \in Nat /\ reported[v] \in Nat
         /\ snaps[v] \in GuestSnap /\ prev[v] \in GuestSnap
BY DetectorAssumption DEF DetectorTypeOK

(* A snapshot has the fields of a snapshot, also when the VM is gone. *)
LEMMA SnapType ==
  ASSUME NEW s \in GuestSnap
  PROVE  /\ s.st \in GuestStates \cup {"gone"} /\ s.errs \in Int /\ s.errs >= -1
         /\ s.job \in Jobs \cup {"none"}
BY DetectorAssumption DEF GuestSnap, Gone, Errs, Unknown

(* An increase is never negative. *)
LEMMA GapType ==
  ASSUME NEW a \in Int, NEW b \in Int
  PROVE  Gap(a, b) \in Nat /\ Gap(a, a) = 0 /\ (b >= a => Gap(a, b) <= b - a)
         /\ (a = -1 => Gap(a, b) = 0) /\ (b <= a => Gap(a, b) = 0)
BY DEF Gap

(* What one step of a VM's event counter leaves of the bound: an error    *)
(* that happens is counted on both sides, a new process only lowers the   *)
(* counter, a snapshot splits one increase in two, and a report moves the *)
(* increase into what was reported.                                       *)
LEMMA GapStep ==
  ASSUME NEW rep \in Nat, NEW p \in Int, NEW s \in Int, NEW c \in Nat, NEW all \in Nat,
         rep + Gap(p, s) + Gap(s, c) <= all
  PROVE  /\ rep + Gap(p, s) + Gap(s, c + 1) <= all + 1
         /\ rep + Gap(p, s) + Gap(s, 0) <= all
         /\ p = s => \A n \in {c, -1} : rep + Gap(p, n) + Gap(n, c) <= all
         /\ \A d \in {Gap(p, s), 0} : (rep + d) + Gap(s, s) + Gap(s, c) <= all
<1>1. /\ rep + Gap(p, s) + Gap(s, c + 1) <= all + 1
      /\ rep + Gap(p, s) + Gap(s, 0) <= all
  BY DEF Gap
<1>2. ASSUME p = s, NEW n \in {c, -1} PROVE rep + Gap(p, n) + Gap(n, c) <= all
  <2>1. CASE n = c
    BY <1>2, <2>1 DEF Gap
  <2>2. CASE n = -1
    BY <1>2, <2>2 DEF Gap
  <2> QED
    BY <1>2, <2>1, <2>2
<1>3. ASSUME NEW d \in {Gap(p, s), 0} PROVE (rep + d) + Gap(s, s) + Gap(s, c) <= all
  <2>1. CASE d = Gap(p, s)
    BY <2>1 DEF Gap
  <2>2. CASE d = 0
    BY <2>2 DEF Gap
  <2> QED
    BY <2>1, <2>2
<1> QED
  BY <1>1, <1>2, <1>3

(* The initial state is well typed and satisfies the invariant. *)
LEMMA DetectorStart == DetectorInit => DetectorTypeOK /\ DetectorInv
<1> SUFFICES ASSUME DetectorInit PROVE DetectorTypeOK /\ DetectorInv
  OBVIOUS
<1>1. DetectorTypeOK
  <2>1. Gone \in GuestSnap /\ [count |-> 0, all |-> 0] \in [count : 0 .. MaxErrs, all : 0 .. MaxErrs]
    BY DetectorAssumption DEF GuestSnap
  <2>2. /\ [all |-> 0, same |-> TRUE] \in [all : Nat, same : BOOLEAN]
        /\ [all |-> 0, rep |-> 0, same |-> FALSE] \in [all : Nat, rep : Nat, same : BOOLEAN] /\ 0 \in Nat
    OBVIOUS
  <2> QED
    BY <2>1, <2>2, Zenon DEF DetectorInit, DetectorTypeOK
<1>2. DetectorInv
  BY DetectorAssumption DEF DetectorInit, DetectorInv, ToldOf, Gap, Gone, Unknown
<1> QED
  BY <1>1, <1>2

(* The disk's own steps keep the invariant. *)
LEMMA DiskStep ==
  ASSUME DetectorTypeOK, DetectorInv, NEW v \in Guests, DiskError(v) \/ Restart(v)
  PROVE  DetectorTypeOK' /\ DetectorInv'
<1>0. UNCHANGED <<snaps, prev, primed, due, active, told, reported>>
  BY DEF DiskError, Restart
<1>1. /\ disk' \in [Guests -> [count : 0 .. MaxErrs, all : 0 .. MaxErrs]]
      /\ \A u \in Guests : \/ disk'[u] = disk[u]
                           \/ disk'[u].count = disk[u].count + 1 /\ disk'[u].all = disk[u].all + 1
                           \/ disk'[u].count = 0 /\ disk'[u].all = disk[u].all
  <2>0. disk[v] \in [count : 0 .. MaxErrs, all : 0 .. MaxErrs] /\ disk[v].count <= disk[v].all
    BY DEF DetectorTypeOK, DetectorInv
  <2>1. CASE DiskError(v)
    BY <2>0, <2>1, DetectorAssumption DEF DiskError, DetectorTypeOK
  <2>2. CASE Restart(v)
    BY <2>0, <2>2, DetectorAssumption DEF Restart, DetectorTypeOK
  <2> QED
    BY <2>1, <2>2
<1>s. shot' \in [Guests -> [all : Nat, same : BOOLEAN]] /\ base' \in [Guests -> [all : Nat, rep : Nat, same : BOOLEAN]]
  <2>1. /\ [all |-> shot[v].all, same |-> FALSE] \in [all : Nat, same : BOOLEAN]
        /\ [all |-> base[v].all, rep |-> base[v].rep, same |-> FALSE] \in [all : Nat, rep : Nat, same : BOOLEAN]
    BY ToldType
  <2>2. CASE DiskError(v)
    BY <2>2 DEF DiskError, DetectorTypeOK
  <2>3. CASE Restart(v)
    BY <2>1, <2>3, Zenon DEF Restart, DetectorTypeOK
  <2> QED
    BY <2>2, <2>3
<1>2. DetectorTypeOK'
  BY <1>0, <1>1, <1>s DEF DetectorTypeOK
<1>3. ASSUME NEW u \in Guests
      PROVE  reported[u] + Gap(prev[u].errs, snaps[u].errs) + Gap(snaps[u].errs, disk'[u].count)
               <= disk'[u].all
  <2>1. /\ reported[u] \in Nat /\ disk[u].count \in Nat /\ disk[u].all \in Nat
        /\ prev[u] \in GuestSnap /\ snaps[u] \in GuestSnap
    BY DetectorAssumption DEF DetectorTypeOK
  <2>2. prev[u].errs \in Int /\ snaps[u].errs \in Int
    BY <2>1, SnapType
  <2>3. reported[u] + Gap(prev[u].errs, snaps[u].errs) + Gap(snaps[u].errs, disk[u].count)
          <= disk[u].all
    BY DEF DetectorInv
  <2>4. /\ reported[u] + Gap(prev[u].errs, snaps[u].errs) + Gap(snaps[u].errs, disk[u].count + 1)
             <= disk[u].all + 1
        /\ reported[u] + Gap(prev[u].errs, snaps[u].errs) + Gap(snaps[u].errs, 0) <= disk[u].all
    BY <2>1, <2>2, <2>3, GapStep, Zenon
  <2> QED
    BY <1>1, <2>3, <2>4
<1>4. ASSUME NEW u \in Guests PROVE disk'[u].count <= disk'[u].all
  <2>1. disk[u].count <= disk[u].all /\ disk[u].count \in Nat /\ disk[u].all \in Nat
    BY ToldType, Zenon DEF DetectorInv
  <2> QED
    BY <1>1, <2>1
<1>5. ASSUME NEW u \in Guests PROVE ToldOf(u)'
  <2>0. ToldOf(u)
    BY DEF DetectorInv
  <2>1. /\ disk[u].count \in Nat /\ disk[u].all \in Nat /\ shot[u].all \in Nat
        /\ snaps[u].errs \in Int
    BY ToldType, SnapType, Zenon
  <2>2. CASE DiskError(v)
    <3>1. /\ UNCHANGED <<shot, base>>
          /\ \/ disk'[u] = disk[u]
             \/ disk'[u].count = disk[u].count + 1 /\ disk'[u].all = disk[u].all + 1
      <4>2. disk'[u] = IF u = v THEN [count |-> disk[u].count + 1, all |-> disk[u].all + 1] ELSE disk[u]
        BY <2>2 DEF DiskError, DetectorTypeOK
      <4>3. UNCHANGED <<shot, base>>
        BY <2>2 DEF DiskError
      <4> QED
        BY <4>2, <4>3
    <3>2. CASE disk'[u] = disk[u]
      BY <1>0, <2>0, <3>1, <3>2, Zenon DEF ToldOf
    <3>3. CASE disk'[u].count = disk[u].count + 1 /\ disk'[u].all = disk[u].all + 1
      <4>0. shot[u].all <= disk[u].all
        BY <2>0, Zenon DEF ToldOf
      <4>1. shot[u].all <= disk'[u].all
        BY <2>1, <3>3, <4>0
      <4>2. ASSUME shot[u].same, snaps[u].errs >= 0
            PROVE  disk'[u].count - snaps[u].errs = disk'[u].all - shot[u].all
        <5>1. disk[u].count - snaps[u].errs = disk[u].all - shot[u].all
          BY <2>0, <4>2, Zenon DEF ToldOf
        <5> QED
          BY <2>1, <3>3, <5>1
      <4> QED
        BY <1>0, <2>0, <3>1, <4>1, <4>2, Zenon DEF ToldOf
    <3> QED
      BY <3>1, <3>2, <3>3
  <2>3. CASE Restart(v) /\ u = v
    <3>1. ~shot'[u].same /\ ~base'[u].same /\ shot'[u].all = shot[u].all /\ disk'[u].all = disk[u].all
      BY <2>3 DEF Restart, DetectorTypeOK
    <3> QED
      BY <2>0, <3>1 DEF ToldOf
  <2>4. CASE Restart(v) /\ u # v
    <3>1. shot'[u] = shot[u] /\ base'[u] = base[u] /\ disk'[u] = disk[u]
      BY <2>4 DEF Restart, DetectorTypeOK
    <3> QED
      BY <1>0, <2>0, <3>1 DEF ToldOf
  <2> QED
    BY <2>2, <2>3, <2>4
<1> QED
  BY <1>0, <1>2, <1>3, <1>4, <1>5, Zenon DEF DetectorInv

(* A committed tick keeps the invariant: its snapshot of the counter is    *)
(* the current one or unknown.                                             *)
LEMMA CommitStep ==
  ASSUME DetectorTypeOK, DetectorInv, NEW v \in Guests, NEW s \in GuestSnap, CommitSnapshot(v, s)
  PROVE  DetectorTypeOK' /\ DetectorInv'
<1>0. /\ UNCHANGED <<disk, prev, primed, active, told, reported, base>>
      /\ shot' = [shot EXCEPT ![v] = [all |-> disk[v].all, same |-> TRUE]]
      /\ ~due /\ due' = TRUE /\ snaps' = [snaps EXCEPT ![v] = s] /\ prev = snaps
      /\ s.errs \in {disk[v].count, -1}
  BY DEF CommitSnapshot, DetectorInv, Unknown
<1>1. DetectorTypeOK'
  <2>1. shot' \in [Guests -> [all : Nat, same : BOOLEAN]]
    BY <1>0, ToldType DEF DetectorTypeOK
  <2> QED
    BY <1>0, <2>1 DEF DetectorTypeOK
<1>2. ASSUME NEW u \in Guests
      PROVE  reported[u] + Gap(prev[u].errs, snaps'[u].errs) + Gap(snaps'[u].errs, disk[u].count)
               <= disk[u].all
  <2>1. /\ reported[u] \in Nat /\ disk[u].count \in Nat /\ disk[u].all \in Nat
        /\ prev[u] \in GuestSnap /\ snaps[u] \in GuestSnap
    BY DetectorAssumption DEF DetectorTypeOK
  <2>2. prev[u].errs \in Int /\ snaps[u].errs \in Int /\ prev[u].errs = snaps[u].errs
    BY <1>0, <2>1, SnapType
  <2>3. reported[u] + Gap(prev[u].errs, snaps[u].errs) + Gap(snaps[u].errs, disk[u].count)
          <= disk[u].all
    BY DEF DetectorInv
  <2>4. CASE u = v
    <3>1. snaps'[u].errs \in {disk[u].count, -1}
      BY <1>0, <2>4 DEF DetectorTypeOK
    <3> QED
      BY <2>1, <2>2, <2>3, <3>1, GapStep, Zenon
  <2>5. CASE u # v
    <3>1. snaps'[u] = snaps[u]
      BY <1>0, <2>5 DEF DetectorTypeOK
    <3> QED
      BY <2>3, <3>1
  <2> QED
    BY <2>4, <2>5
<1>3. ASSUME NEW u \in Guests PROVE ToldOf(u)'
  <2>0. ToldOf(u)
    BY DEF DetectorInv
  <2>1. /\ disk[u].count \in Nat /\ disk[u].all \in Nat /\ shot[u].all \in Nat /\ reported[u] \in Nat
        /\ base[u].all \in Nat /\ base[u].rep \in Nat /\ snaps[u].errs \in Int /\ prev[u] = snaps[u]
    BY <1>0, ToldType, SnapType, Zenon
  <2>2. CASE u = v
    <3>1. shot'[u].all = disk[u].all /\ shot'[u].same /\ snaps'[u].errs \in {disk[u].count, -1}
      BY <1>0, <2>2 DEF DetectorTypeOK
    <3>2. shot'[u].all <= disk'[u].all
      <4>1. shot'[u].all = disk[u].all /\ disk'[u].all = disk[u].all
        BY <1>0, <3>1, Zenon
      <4> QED
        BY <2>1, <4>1
    <3>3. base[u].same => prev[u].errs >= 0
      BY <2>0, Zenon DEF ToldOf
    <3>4. CASE snaps'[u].errs = -1
      <4>1. ~(snaps'[u].errs >= 0)
        BY <3>4
      <4> QED
        BY <1>0, <3>1, <3>2, <3>3, <4>1, Zenon DEF ToldOf
    <3>5. CASE snaps'[u].errs = disk[u].count
      <4>1. disk[u].count - snaps'[u].errs = disk[u].all - disk[u].all
        BY <2>1, <3>5
      <4>2. ASSUME base[u].same, snaps[u].errs >= 0
            PROVE  /\ disk[u].count >= snaps[u].errs
                   /\ reported[u] - base[u].rep + (disk[u].count - snaps[u].errs)
                        = disk[u].all - base[u].all
        <5>1. shot[u].same
          BY <2>0, <4>2, Zenon DEF ToldOf
        <5>2. reported[u] - base[u].rep + (snaps[u].errs - snaps[u].errs) = shot[u].all - base[u].all
          BY <2>0, <2>1, <4>2, Zenon DEF ToldOf
        <5>3. disk[u].count - snaps[u].errs = disk[u].all - shot[u].all /\ shot[u].all <= disk[u].all
          BY <2>0, <4>2, <5>1, Zenon DEF ToldOf
        <5> QED
          BY <2>1, <5>2, <5>3
      <4>3. disk'[u] = disk[u] /\ base'[u] = base[u] /\ prev'[u] = snaps[u] /\ reported'[u] = reported[u]
        BY <1>0, <2>1, Zenon
      <4> QED
        BY <2>1, <3>1, <3>2, <3>3, <3>5, <4>1, <4>2, <4>3, Zenon DEF ToldOf
    <3> QED
      BY <3>1, <3>4, <3>5, Zenon
  <2>3. CASE u # v
    <3>1. shot'[u] = shot[u] /\ snaps'[u] = snaps[u]
      BY <1>0, <2>3 DEF DetectorTypeOK
    <3> QED
      BY <1>0, <2>0, <3>1 DEF ToldOf
  <2> QED
    BY <2>2, <2>3
<1> QED
  BY <1>0, <1>1, <1>2, <1>3 DEF DetectorInv

(* Run keeps the invariant: it tells every difference between prev and the *)
(* snapshots it then keeps, and the increase of every known counter.       *)
LEMMA RunStep ==
  ASSUME DetectorTypeOK, DetectorInv, NEW after \in SUBSET (Guests \X Rules), Run(after)
  PROVE  DetectorTypeOK' /\ DetectorInv'
<1>0. /\ UNCHANGED <<snaps, disk, shot>> /\ due /\ due' = FALSE /\ prev' = snaps /\ primed' = TRUE
      /\ active' = after
  BY DEF Run
<1>t. ASSUME NEW u \in Guests
      PROVE  /\ reported[u] \in Nat /\ disk[u].count \in Nat /\ disk[u].all \in Nat
             /\ prev[u] \in GuestSnap /\ snaps[u] \in GuestSnap /\ prev[u].errs \in Int /\ snaps[u].errs \in Int
             /\ snaps[u].st \in GuestStates \cup {"gone"} /\ snaps[u].job \in Jobs \cup {"none"}
             /\ told[u] \in [st : GuestStates \cup {"gone"}, job : Jobs \cup {"none"}]
  <2>1. /\ reported[u] \in Nat /\ disk[u].count \in Nat /\ disk[u].all \in Nat
        /\ prev[u] \in GuestSnap /\ snaps[u] \in GuestSnap
        /\ told[u] \in [st : GuestStates \cup {"gone"}, job : Jobs \cup {"none"}]
    BY DetectorAssumption DEF DetectorTypeOK
  <2> QED
    BY <2>1, SnapType
<1>1. ASSUME NEW u \in Guests
      PROVE  /\ told'[u] \in [st : GuestStates \cup {"gone"}, job : Jobs \cup {"none"}]
             /\ told'[u].st = snaps[u].st
  <2>1. told'[u] = CASE ~primed -> [st |-> snaps[u].st, job |-> "none"]
         [] Appeared(u) -> [st |-> snaps[u].st, job |-> "none"]
         [] Disappeared(u) -> [st |-> "gone", job |-> "none"]
         [] Both(u) -> [st |-> IF StateEvent(prev[u], snaps[u]) THEN snaps[u].st ELSE told[u].st,
                        job |-> IF JobEvent(prev[u], snaps[u]) THEN snaps[u].job ELSE told[u].job]
         [] OTHER -> told[u]
    BY DEF Run
  <2>2. CASE ~primed
    <3>1. ~Appeared(u) /\ ~Disappeared(u) /\ ~Both(u)
      BY <2>2 DEF Appeared, Disappeared, Both, Listed, DetectorInv
    <3>2. told'[u] = [st |-> snaps[u].st, job |-> "none"]
      BY <2>1, <2>2, <3>1
    <3> QED
      BY <3>2, <1>t
  <2>3. CASE primed /\ u \in Listed(snaps) /\ u \notin Listed(prev)
    <3>1. Appeared(u) /\ ~Disappeared(u) /\ ~Both(u)
      BY <2>3 DEF Appeared, Disappeared, Both
    <3>2. told'[u] = [st |-> snaps[u].st, job |-> "none"]
      BY <2>1, <2>3, <3>1
    <3> QED
      BY <3>2, <1>t
  <2>4. CASE primed /\ u \notin Listed(snaps) /\ u \in Listed(prev)
    <3>1. ~Appeared(u) /\ Disappeared(u) /\ ~Both(u)
      BY <2>4 DEF Appeared, Disappeared, Both
    <3>2. told'[u] = [st |-> "gone", job |-> "none"]
      BY <2>1, <2>4, <3>1
    <3>3. snaps[u].st = "gone"
      BY <2>4 DEF Listed, Gone
    <3> QED
      BY <3>2, <3>3
  <2>5. CASE primed /\ u \in Listed(snaps) /\ u \in Listed(prev)
    <3>1. ~Appeared(u) /\ ~Disappeared(u) /\ Both(u)
      BY <2>5 DEF Appeared, Disappeared, Both
    <3>2. told'[u] = [st |-> IF StateEvent(prev[u], snaps[u]) THEN snaps[u].st ELSE told[u].st,
                      job |-> IF JobEvent(prev[u], snaps[u]) THEN snaps[u].job ELSE told[u].job]
      BY <2>1, <2>5, <3>1
    <3>3. told[u].st = prev[u].st
      BY <2>5 DEF DetectorInv
    <3> QED
      BY <3>2, <3>3, <1>t DEF StateEvent
  <2>6. CASE primed /\ u \notin Listed(snaps) /\ u \notin Listed(prev)
    <3>1. ~Appeared(u) /\ ~Disappeared(u) /\ ~Both(u)
      BY <2>6 DEF Appeared, Disappeared, Both
    <3>2. told'[u] = told[u]
      BY <2>1, <2>6, <3>1
    <3>3. prev[u] = snaps[u] /\ told[u].st = prev[u].st
      BY <2>6 DEF DetectorInv, Listed
    <3> QED
      BY <3>2, <3>3, <1>t
  <2> QED
    BY <2>2, <2>3, <2>4, <2>5, <2>6 DEF DetectorTypeOK
<1>2. ASSUME NEW u \in Guests
      PROVE  /\ reported'[u] \in Nat
             /\ reported'[u] + Gap(snaps[u].errs, snaps[u].errs)
                  + Gap(snaps[u].errs, disk[u].count) <= disk[u].all
  <2>1. PICK d \in {Gap(prev[u].errs, snaps[u].errs), 0} : reported'[u] = reported[u] + d
    <3>1. reported'[u] = IF Both(u) THEN reported[u] + DiskErrors(prev[u], snaps[u]) ELSE reported[u]
      BY DEF Run
    <3>2. DiskErrors(prev[u], snaps[u]) \in {Gap(prev[u].errs, snaps[u].errs), 0}
      BY <1>t DEF DiskErrors, Gap
    <3>3. reported[u] + 0 = reported[u]
      BY <1>t
    <3> QED
      BY <3>1, <3>2, <3>3, Zenon
  <2>2. reported[u] + Gap(prev[u].errs, snaps[u].errs) + Gap(snaps[u].errs, disk[u].count)
          <= disk[u].all
    BY DEF DetectorInv
  <2>3. d \in Nat
    <3>1. Gap(prev[u].errs, snaps[u].errs) \in Nat
      BY <1>t DEF Gap
    <3> QED
      BY <3>1
  <2>4. (reported[u] + d) + Gap(snaps[u].errs, snaps[u].errs) + Gap(snaps[u].errs, disk[u].count)
          <= disk[u].all
    BY <1>t, <2>2, GapStep
  <2>5. reported'[u] \in Nat
    BY <1>t, <2>1, <2>3
  <2> QED
    BY <2>1, <2>4, <2>5
<1>b. ASSUME NEW u \in Guests
      PROVE  base'[u] = IF Known(u) THEN base[u]
               ELSE [all |-> shot[u].all, rep |-> reported'[u], same |-> snaps[u].errs # Unknown /\ shot[u].same]
  BY DEF Run
<1>3. DetectorTypeOK'
  <2>1. told' \in [Guests -> [st : GuestStates \cup {"gone"}, job : Jobs \cup {"none"}]]
    BY <1>1 DEF Run
  <2>2. reported' \in [Guests -> Nat]
    BY <1>2 DEF Run
  <2>3. base' \in [Guests -> [all : Nat, rep : Nat, same : BOOLEAN]]
    <3>1. ASSUME NEW u \in Guests PROVE base'[u] \in [all : Nat, rep : Nat, same : BOOLEAN]
      <4>1. shot[u].all \in Nat /\ reported'[u] \in Nat /\ (snaps[u].errs # Unknown /\ shot[u].same) \in BOOLEAN
            /\ base[u] \in [all : Nat, rep : Nat, same : BOOLEAN]
        BY <1>2, ToldType, Zenon DEF DetectorTypeOK
      <4>2. CASE Known(u)
        BY <1>b, <4>1, <4>2
      <4>3. CASE ~Known(u)
        <5> DEFINE b == snaps[u].errs # Unknown /\ shot[u].same
        <5>1. base'[u] = [all |-> shot[u].all, rep |-> reported'[u], same |-> b]
          BY <1>b, <4>3
        <5>2. b \in BOOLEAN
          BY <4>1
        <5> HIDE DEF b
        <5> QED
          BY <4>1, <5>1, <5>2
      <4> QED
        BY <4>2, <4>3
    <3> QED
      BY <3>1 DEF Run
  <2> QED
    BY <1>0, <2>1, <2>2, <2>3, Zenon DEF DetectorTypeOK
<1>4. ASSUME NEW u \in Guests PROVE ToldOf(u)'
  <2>0. ToldOf(u)
    BY DEF DetectorInv
  <2>1. /\ shot[u].all \in Nat /\ base[u].all \in Nat /\ base[u].rep \in Nat /\ reported[u] \in Nat
        /\ snaps[u].errs \in Int /\ snaps[u].errs >= -1 /\ prev[u].errs \in Int
    BY ToldType, SnapType, Zenon
  <2>2. CASE Known(u)
    <3>1. base'[u] = base[u]
      BY <1>b, <2>2, Zenon
    <3>2. snaps[u].errs >= 0
      <4>1. snaps[u].errs # -1
        BY <2>2 DEF Known, Unknown
      <4>2. snaps[u].errs # -1 => snaps[u].errs >= 0
        BY <2>1
      <4> QED
        BY <4>1, <4>2, Zenon
    <3>3. reported'[u] = reported[u] + DiskErrors(prev[u], snaps[u])
      <4>1. Both(u)
        BY <2>2, Zenon DEF Known
      <4> QED
        BY <4>1 DEF Run
    <3>4. ASSUME base[u].same
          PROVE  reported'[u] - base[u].rep + (snaps[u].errs - snaps[u].errs) = shot[u].all - base[u].all
      <4>1. prev[u].errs >= 0
        BY <2>0, <3>4, Zenon DEF ToldOf
      <4>2. /\ snaps[u].errs >= prev[u].errs
            /\ reported[u] - base[u].rep + (snaps[u].errs - prev[u].errs) = shot[u].all - base[u].all
        BY <2>0, <3>2, <3>4, Zenon DEF ToldOf
      <4> QED
        BY <2>1, <3>3, <4>1, <4>2 DEF DiskErrors
    <3>5. snaps[u].errs >= snaps[u].errs
      BY <2>1
    <3> QED
      BY <1>0, <2>0, <3>1, <3>2, <3>4, <3>5, Zenon DEF ToldOf
  <2>3. CASE ~Known(u)
    <3>1. /\ base'[u].all = shot[u].all /\ base'[u].rep = reported'[u]
          /\ base'[u].same => snaps[u].errs # -1 /\ shot[u].same
      <4> DEFINE b == snaps[u].errs # Unknown /\ shot[u].same
      <4>1. base'[u] = [all |-> shot[u].all, rep |-> reported'[u], same |-> b]
        BY <1>b, <2>3, Zenon
      <4>2. b => snaps[u].errs # -1 /\ shot[u].same
        BY DEF Unknown
      <4> HIDE DEF b
      <4>3. base'[u].all = shot[u].all /\ base'[u].rep = reported'[u] /\ base'[u].same = b
        BY <4>1
      <4> QED
        BY <4>2, <4>3, Zenon
    <3>2. reported'[u] \in Nat
      BY <1>2
    <3>3. snaps[u].errs # -1 => snaps[u].errs >= 0
      BY <2>1
    <3>4. /\ snaps[u].errs >= snaps[u].errs
          /\ reported'[u] - reported'[u] + (snaps[u].errs - snaps[u].errs) = shot[u].all - shot[u].all
      BY <2>1, <3>2
    <3> QED
      BY <1>0, <2>0, <3>1, <3>3, <3>4, Zenon DEF ToldOf
  <2> QED
    BY <2>2, <2>3
<1> QED
  BY <1>0, <1>1, <1>2, <1>3, <1>4 DEF DetectorInv

(* The invariant holds in every reachable state of the detectors. *)
THEOREM DetectorAlways == DetectorSpec => [](DetectorTypeOK /\ DetectorInv)
<1>1. DetectorTypeOK /\ DetectorInv /\ [DetectorNext]_detectorVars => (DetectorTypeOK /\ DetectorInv)'
  <2> SUFFICES ASSUME DetectorTypeOK, DetectorInv, [DetectorNext]_detectorVars PROVE DetectorTypeOK' /\ DetectorInv'
    OBVIOUS
  <2>1. CASE \E v \in Guests : DiskError(v) \/ Restart(v)
    BY <2>1, DiskStep
  <2>2. CASE \E v \in Guests, s \in GuestSnap : CommitSnapshot(v, s)
    BY <2>2, CommitStep
  <2>3. CASE \E after \in SUBSET (Guests \X Rules) : Run(after)
    BY <2>3, RunStep
  <2>4. CASE UNCHANGED detectorVars
    BY <2>4 DEF detectorVars, DetectorTypeOK, DetectorInv, ToldOf
  <2> QED
    BY <2>1, <2>2, <2>3, <2>4 DEF DetectorNext
<1> QED
  BY <1>1, DetectorStart, PTL DEF DetectorSpec

(* domainEvents tells the truth: after every Run, the first snapshot and   *)
(* the events vm.appeared, vm.disappeared and vm.state give the store's    *)
(* list of VMs and their states, whatever happened between two ticks.      *)
THEOREM EventsTellTheStory == DetectorSpec => []StoryTrue
<1>1. DetectorInv => StoryTrue
  BY DEF DetectorInv, StoryTrue
<1> QED
  BY <1>1, DetectorAlways, PTL

(* io.vm_disk_errors: the errors that events report happened, although the *)
(* counters start again with a process and are unknown for a while.        *)
THEOREM ErrorsHappened == DetectorSpec => []NoPhantomErrors
<1>1. DetectorTypeOK /\ DetectorInv => NoPhantomErrors
  <2> SUFFICES ASSUME DetectorTypeOK, DetectorInv, NEW v \in Guests PROVE reported[v] <= disk[v].all
    BY DEF NoPhantomErrors
  <2>1. /\ reported[v] \in Nat /\ disk[v].count \in Nat /\ disk[v].all \in Nat
        /\ prev[v] \in GuestSnap /\ snaps[v] \in GuestSnap
    BY DetectorAssumption DEF DetectorTypeOK
  <2>2. prev[v].errs \in Int /\ snaps[v].errs \in Int
    BY <2>1, SnapType, Zenon
  <2>3. disk[v].count \in Int
    BY <2>1
  <2>4. Gap(prev[v].errs, snaps[v].errs) \in Nat /\ Gap(snaps[v].errs, disk[v].count) \in Nat
    BY <2>1, <2>2, <2>3, GapType, Zenon
  <2>5. reported[v] + Gap(prev[v].errs, snaps[v].errs) + Gap(snaps[v].errs, disk[v].count)
          <= disk[v].all
    BY Zenon DEF DetectorInv
  <2> QED
    BY <2>1, <2>4, <2>5
<1> QED
  BY <1>1, DetectorAlways, PTL

(* io.vm_disk_errors misses none: while the counter is known at every tick *)
(* and the process is the same, the reports of domainEvents add up to the  *)
(* errors between the snapshots, over any number of ticks.                 *)
THEOREM ErrorsAreTold == DetectorSpec => []ErrorsTold
<1>1. DetectorTypeOK /\ DetectorInv => ErrorsTold
  <2> SUFFICES ASSUME DetectorTypeOK, DetectorInv, ~due, NEW v \in Guests, base[v].same
               PROVE  reported[v] - base[v].rep = shot[v].all - base[v].all
    BY DEF ErrorsTold
  <2>1. ToldOf(v) /\ prev[v] = snaps[v]
    BY DEF DetectorInv
  <2>2. reported[v] \in Nat /\ base[v].rep \in Nat /\ snaps[v].errs \in Int
    BY ToldType, SnapType, Zenon
  <2> QED
    BY <2>1, <2>2 DEF ToldOf
<1> QED
  BY <1>1, DetectorAlways, PTL
=============================================================================
