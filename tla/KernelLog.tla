------------------------------ MODULE KernelLog ------------------------------
(***************************************************************************)
(* The kernel log as a source of alerts: kmsg.Reader follows /dev/kmsg,    *)
(* FollowKmsg skips what is too old, FromKmsg classifies a record and      *)
(* looks the process it names up in the store, and the engine merges an    *)
(* OOM kill with the eBPF event of the same kill (internal/kmsg,           *)
(* internal/alert/kmsg.go, internal/collect/discover.go, run in main.go).  *)
(*                                                                         *)
(* The kernel keeps the last LogSize records; every record has the next    *)
(* sequence number and Log holds the ones that are left.  A kind stands    *)
(* for the rules of kmsgRules that FromKmsg treats alike: "task" for the   *)
(* rules with a process (hung_task, warning), "crash" for segfault and     *)
(* trap, "plain" for the rules without one, "noise" for a kvm message that *)
(* kvmNoise matches, "other" for a message no rule matches and "garbled"   *)
(* for one Parse rejects.                                                  *)
(***************************************************************************)
EXTENDS Integers, FiniteSets, FiniteSetsExt, Functions

CONSTANTS
  VMs,       \* hypervisor processes
  Host,      \* any other process
  Messages,  \* what the kernel and its users log: [kind, vm, thread, prio]
  LogSize,   \* records the kernel's buffer holds
  Replay,    \* cfg.Kmsg.Replay
  Dedup,     \* cfg.Alerts.Dedup
  MaxLag,    \* time a record or an event waits for its reader
  MaxTime, MaxSeq

Kinds == {"oom", "crash", "task", "kvm", "noise", "plain", "other", "garbled"}
Threads == {"main", "vcpu", "worker"}

ASSUME KernelLogAssumption ==
  /\ Host \notin VMs
  /\ LogSize \in Nat \ {0} /\ {Replay, Dedup, MaxLag, MaxTime, MaxSeq} \subseteq Nat
  /\ Messages \subseteq
       [kind : Kinds \ {"oom"}, vm : VMs \cup {Host}, thread : Threads, prio : 0 .. 191]

VARIABLES
  now,
  alive,     \* hypervisor processes that run
  oomed,     \* the ones the OOM killer has chosen
  known,     \* the VMs in the store
  owners,    \* keys of ec.owners
  log,       \* sequence number -> record, for the records the kernel keeps
  seq,       \* sequence number of the next record
  next,      \* sequence number the reader reads next
  reader,    \* FollowKmsg: "off", "run" or "stopped"
  since,     \* FollowKmsg skips records before it
  oomEvents, \* eBPF OOM events on their way: [vm, time]
  events,    \* Engine.events: key -> alert
  done,      \* the context is cancelled
  got,       \* history: the record handled last and what became of it
  handled,   \* history: sequence numbers FollowKmsg has seen
  lost,      \* history: sequence numbers overwritten before they were read
  oomRaised  \* history: OOM alerts raised for each VM

kernel == <<alive, oomed, log, seq, lost>>
engine == <<events, oomRaised>>
follow == <<next, reader, since, got, handled>>
vars == <<now, known, owners, oomEvents, done, kernel, engine, follow>>

Info == 0
Warning == 1
Critical == 2
NoAlert == [kind |-> "none", sev |-> Info, domain |-> Host, about |-> Host, key |-> <<"none", Host>>, time |-> 0]
Record == [kind : Kinds, vm : VMs \cup {Host}, thread : Threads, prio : 0 .. 191, time : Nat]
NoGot == [seq |-> -1, alert |-> NoAlert]

(* Type correctness: the kernel's buffer is bounded, the reader is never   *)
(* past the last record, and every event alert is well formed.             *)
TypeOK ==
  /\ now \in 0 .. MaxTime
  /\ alive \subseteq VMs /\ oomed \subseteq VMs /\ known \subseteq VMs /\ owners \subseteq VMs
  /\ DOMAIN log \subseteq 0 .. seq - 1 /\ Cardinality(DOMAIN log) <= LogSize
  /\ \A i \in DOMAIN log : log[i] \in Record
  /\ seq \in 0 .. MaxSeq /\ next \in 0 .. seq /\ reader \in {"off", "run", "stopped"}
  /\ since \in -Replay .. MaxTime
  /\ oomEvents \subseteq [vm : VMs, time : 0 .. MaxTime]
  /\ \A k \in DOMAIN events :
       events[k] \in [sev : Info .. Critical, domain : VMs \cup {Host}, last : 0 .. MaxTime, count : Nat]
  /\ done \in BOOLEAN /\ handled \subseteq 0 .. seq - 1 /\ lost \subseteq 0 .. seq - 1
  /\ oomRaised \in [VMs -> Nat]

Init ==
  /\ now = 0 /\ alive = VMs /\ oomed = {} /\ known = {} /\ owners = {}
  /\ log = <<>> /\ seq = 0 /\ next = 0 /\ reader = "off" /\ since = 0
  /\ oomEvents = {} /\ events = <<>> /\ done = FALSE
  /\ got = NoGot /\ handled = {} /\ lost = {} /\ oomRaised = [v \in VMs |-> 0]
-----------------------------------------------------------------------------
(* The kernel.  A record takes the place of the oldest one when the buffer *)
(* is full.                                                                *)
Emit(m) ==
  LET kept == {i \in DOMAIN log : i > seq - LogSize}
  IN  /\ seq < MaxSeq /\ seq' = seq + 1
      /\ log' = [i \in kept \cup {seq} |->
                   IF i = seq
                   THEN [kind |-> m.kind, vm |-> m.vm, thread |-> m.thread, prio |-> m.prio, time |-> now]
                   ELSE log[i]]
      /\ lost' = lost \cup {i \in DOMAIN log \ kept : i >= next}

Logged(m) ==
  /\ m.vm \in VMs => m.vm \in alive
  /\ Emit(m)
  /\ UNCHANGED <<now, alive, oomed, known, owners, oomEvents, done, engine, follow>>

(* The OOM killer marks a victim, which the eBPF program reports when it   *)
(* is attached, and logs that it killed it.                                *)
OomKill(v) ==
  /\ v \in alive \ oomed /\ oomed' = oomed \cup {v}
  /\ Emit([kind |-> "oom", vm |-> v, thread |-> "main", prio |-> 3])
  /\ oomEvents' = IF reader = "off" THEN oomEvents
                  ELSE oomEvents \cup {[vm |-> v, time |-> now]}
  /\ UNCHANGED <<now, alive, known, owners, done, engine, follow>>

Die(v) ==
  /\ v \in alive /\ alive' = alive \ {v}
  /\ UNCHANGED <<now, known, owners, oomed, log, seq, lost, oomEvents, done, engine, follow>>

Clock ==
  /\ now < MaxTime /\ now' = now + 1
  /\ reader = "run" => \A i \in DOMAIN log : i >= next => now - log[i].time < MaxLag
  /\ \A e \in oomEvents : now - e.time < MaxLag
  /\ UNCHANGED <<known, owners, oomEvents, done, kernel, engine, follow>>
-----------------------------------------------------------------------------
(* One tick of the poller: the collectors, then Evaluate, which ends the   *)
(* window of old events.                                                   *)
PollerTick ==
  /\ reader # "off" /\ ~done
  /\ known' = alive /\ owners' = alive \cup known
  /\ events' = Restrict(events, {k \in DOMAIN events : now - events[k].last < Dedup})
  /\ UNCHANGED <<now, oomEvents, done, oomRaised, kernel, follow>>

(* Mutant: a repeat sets the severity. *)
RaiseLast(a) ==
  IF a.key \in DOMAIN events /\ a.time - events[a.key].last < Dedup
  THEN /\ events' = [events EXCEPT ![a.key].count = @ + 1, ![a.key].last = a.time, ![a.key].sev = a.sev]
       /\ UNCHANGED oomRaised
  ELSE /\ events' = [k \in DOMAIN events \cup {a.key} |->
            IF k = a.key THEN [sev |-> a.sev, domain |-> a.domain, last |-> a.time, count |-> 1]
            ELSE events[k]]
       /\ oomRaised' = oomRaised

(* Engine.Raise. *)
Raise(a) ==
  IF a.key \in DOMAIN events /\ a.time - events[a.key].last < Dedup
  THEN /\ events' = [events EXCEPT ![a.key].count = @ + 1, ![a.key].last = a.time,
                                   ![a.key].sev = IF a.sev > @ THEN a.sev ELSE @]
       /\ UNCHANGED oomRaised
  ELSE /\ events' = [k \in DOMAIN events \cup {a.key} |->
            IF k = a.key THEN [sev |-> a.sev, domain |-> a.domain, last |-> a.time, count |-> 1]
            ELSE events[k]]
       /\ oomRaised' = IF a.kind = "oom" THEN [oomRaised EXCEPT ![a.about] = @ + 1] ELSE oomRaised

(* DomainByPID: /proc names the process of a thread only while it lives;   *)
(* afterwards the store still has the process and its vCPU threads.        *)
DomainByPID(r) ==
  IF r.vm \in known /\ (r.vm \in alive \/ r.thread \in {"main", "vcpu"}) THEN r.vm ELSE Host

(* Parse splits the first number into level and facility. *)
Parse(r) ==
  [kind |-> r.kind, vm |-> r.vm, thread |-> r.thread, time |-> r.time,
   priority |-> r.prio % 8, facility |-> r.prio \div 8]

(* kmsgRules: the severity of a rule, and whether it names a process. *)
RuleSeverity(kind) ==
  IF kind \in {"crash", "plain"} THEN Critical
  ELSE IF kind \in {"kvm", "noise"} THEN Info ELSE Warning
HasPid(kind) == kind \in {"oom", "crash", "task", "kvm", "noise"}

(* The messages FromKmsg does not report. *)
Dropped(r, domain) ==
  \/ r.facility # 0
  \/ r.kind = "noise"
  \/ r.kind = "kvm" /\ r.priority > 4
  \/ r.kind = "crash" /\ domain = Host
  \/ r.kind = "other" /\ r.priority > 2

(* Mutant: an OOM kill has the key of any other rule. *)
FromKmsgOwnKey(r) ==
  LET domain == IF HasPid(r.kind) THEN DomainByPID(r) ELSE Host
  IN  IF Dropped(r, domain) THEN NoAlert
      ELSE [kind |-> r.kind, domain |-> domain, about |-> r.vm, time |-> r.time,
            sev |-> IF r.kind = "oom" /\ domain # Host THEN Critical ELSE RuleSeverity(r.kind),
            key |-> <<IF r.kind = "oom" THEN "kmsg.oom" ELSE r.kind, domain>>]

FromKmsg(r) ==
  LET domain == IF HasPid(r.kind) THEN DomainByPID(r) ELSE Host
  IN  IF Dropped(r, domain) THEN NoAlert
      ELSE [kind |-> r.kind, domain |-> domain, about |-> r.vm, time |-> r.time,
            sev |-> IF r.kind = "oom" /\ domain # Host THEN Critical
                    ELSE IF r.kind = "kvm" THEN Warning ELSE RuleSeverity(r.kind),
            key |-> <<r.kind, IF r.kind = "oom" THEN r.vm ELSE domain>>]

Oldest == IF DOMAIN log = {} THEN seq ELSE Min(DOMAIN log)

(* run: build has attached the probes, the log is opened at its oldest     *)
(* record and FollowKmsg fixes since.                                      *)
Start ==
  /\ reader = "off" /\ reader' = "run" /\ since' = now - Replay
  /\ next' = Oldest
  /\ UNCHANGED <<now, known, owners, oomEvents, done, kernel, engine, got, handled>>

(* Mutant: after an overrun the reader goes on with the next record to come. *)
OverrunToEnd ==
  /\ reader = "run" /\ next < Oldest /\ next' = seq
  /\ UNCHANGED <<now, known, owners, oomEvents, done, kernel, engine, reader, since, got, handled>>

(* Reader.Next: EPIPE, the next read resumes at the oldest record. *)
Overrun ==
  /\ reader = "run" /\ next < Oldest /\ next' = Oldest
  /\ UNCHANGED <<now, known, owners, oomEvents, done, kernel, engine, reader, since, got, handled>>

(* Reader.Next returns a record and FollowKmsg classifies it. *)
Follow ==
  /\ reader = "run" /\ next \in DOMAIN log
  /\ next' = next + 1 /\ handled' = handled \cup {next}
  /\ LET r == log[next]
         a == IF r.kind = "garbled" \/ r.time < since THEN NoAlert ELSE FromKmsg(Parse(r))
     IN  /\ got' = [seq |-> next, alert |-> a]
         /\ IF a = NoAlert THEN UNCHANGED engine ELSE Raise(a)
  /\ UNCHANGED <<now, known, owners, oomEvents, done, kernel, reader, since>>

(* RunEvents and FromProbeEvent of an OOM event. *)
FromProbeEvent(e) ==
  LET domain == IF e.vm \in owners THEN e.vm ELSE Host
  IN  [kind |-> "oom", domain |-> domain, about |-> e.vm, time |-> e.time,
       sev |-> IF domain = Host THEN Warning ELSE Critical, key |-> <<"oom", e.vm>>]

Deliver(e) ==
  /\ ~done /\ oomEvents' = oomEvents \ {e} /\ Raise(FromProbeEvent(e))
  /\ UNCHANGED <<now, known, owners, done, kernel, follow>>

(* The signal handler cancels the context. *)
Cancel ==
  /\ reader = "run" /\ ~done /\ done' = TRUE
  /\ UNCHANGED <<now, known, owners, oomEvents, kernel, engine, follow>>

(* Close unblocks Next, and FollowKmsg returns. *)
Stop ==
  /\ reader = "run" /\ done /\ reader' = "stopped"
  /\ UNCHANGED <<now, known, owners, oomEvents, done, kernel, engine, next, since, got, handled>>

Next ==
  \/ \E m \in Messages : Logged(m)
  \/ \E v \in VMs : OomKill(v) \/ Die(v)
  \/ Clock \/ PollerTick \/ Start \/ Overrun \/ Follow \/ Cancel \/ Stop
  \/ \E e \in oomEvents : Deliver(e)

Spec == Init /\ [][Next]_vars

(* The reader's goroutine runs whenever the read returns, the poller's     *)
(* goroutine whenever its ticker fires, RunEvents whenever an event waits. *)
LiveSpec ==
  Spec /\ WF_vars(Overrun \/ Follow) /\ WF_vars(Stop)
       /\ \A v \in VMs : WF_vars(\E e \in oomEvents : e.vm = v /\ Deliver(e))
-----------------------------------------------------------------------------
(* The eBPF event and the log record of one OOM kill make one alert, which *)
(* ever comes first and wherever the ticks that end windows fall, as long  *)
(* as neither waits as long as the window (the key of kmsg.go:122).        *)
OneOom == MaxLag < Dedup => \A v \in VMs : oomRaised[v] <= 1

(* While the window of an event is open its severity never goes down: the  *)
(* source that could not find the VM does not undo the one that could.     *)
(* (With an interval of 0 there are no windows.)                           *)
SeverityKept ==
  [][Dedup > 0 => \A k \in DOMAIN events \cap DOMAIN events' :
                    events'[k].sev >= events[k].sev]_vars

(* Every record before the reader's place was either classified or         *)
(* overwritten before it could be, never both (Reader.Next).               *)
AllRead ==
  reader # "off" => /\ {i \in 0 .. seq - 1 : i < next} \subseteq handled \cup lost
                    /\ handled \cap lost = {}

(* Every record is read or overwritten: an overrun does not end FollowKmsg, *)
(* only the cancellation does.                                             *)
RecordsRead ==
  \A i \in 0 .. MaxSeq - 1 :
    (reader = "run" /\ i < seq) ~> (i \in handled \cup lost \/ done)

(* docs/architecture.md:159: the processes found in messages are resolved  *)
(* to VMs.                                                                 *)
PidsResolved ==
  [][(got' # got /\ got'.alert.kind = "task" /\ got'.alert.about \in alive)
       => got'.alert.domain = got'.alert.about]_vars

(* README.md:205: a hypervisor crash in the kernel log raises vm.segfault. *)
CrashReported ==
  [][\A i \in handled' \ handled :
       log[i].kind = "crash" /\ log[i].vm \in known => got'.alert.kind = "crash"]_vars
=============================================================================
