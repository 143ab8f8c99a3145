----------------------------- MODULE EventPath -----------------------------
(***************************************************************************)
(* The way of a kernel event to an alert: a BPF program reserves a record  *)
(* in the ring buffer, readEvents moves it to a channel or drops it,       *)
(* RunEvents looks its process up in the owners that the last Collect left *)
(* and FromProbeEvent turns it into an alert.  Collect and RunEvents run   *)
(* in different goroutines and share ec.owners under ec.mu; Close takes    *)
(* the probes away under both (internal/collect/ebpf.go, internal/probe,   *)
(* internal/alert/kernel.go, internal/bpf/src).                            *)
(*                                                                         *)
(* A process ID is used once.  A process is a thread group: it lives until *)
(* its last thread ends, and the leader may end before the others.  An     *)
(* event about a VM is a "signal", a "kvm" event (a failed exit or         *)
(* emulation, an exception), its "exit" or an "oom" that names it; a "host"*)
(* event is a block error or a machine check.  An event that RateLimit     *)
(* suppresses is one that never happened.                                  *)
(***************************************************************************)
EXTENDS Naturals, Sequences, SequencesExt

CONSTANTS
  Procs,     \* hypervisor processes
  Workers,   \* their threads besides the leader
  RingSize,  \* records the ring buffer holds
  ChanSize   \* capacity of Probes.events

ASSUME EventAssumption ==
  RingSize \in Nat \ {0} /\ ChanSize \in Nat \ {0} /\ "leader" \notin Workers

VARIABLES
  born,      \* the processes that were started
  live,      \* the live threads of each process
  targets,   \* the BPF map targets
  owners,    \* keys of ec.owners
  lastSeen,  \* keys of ec.lastSeen
  collect,   \* Collect: the targets of the tick while it holds ec.mu
  ring, chan, reader, consumer,
  probes,    \* "open", "closed", or "crashed" when used after Close
  done,      \* the context is cancelled
  got,       \* the event RunEvents handled last: whether it was attributed to its
             \* process, and raised; and history: what it was owed
  told,      \* history: the processes whose exit RunEvents has handled
  overrun    \* history: readEvents has dropped an event

vars == <<born, live, targets, owners, lastSeen, collect, ring, chan, reader,
          consumer, probes, done, got, told, overrun>>
procs == <<born, live>>
userVars == <<owners, lastSeen, collect, probes, done>>
handled == <<got, told>>

NoCollect == [on |-> FALSE, new |-> {}]
Host == "host"
Threads == {"leader"} \cup Workers
Types == {"signal", "kvm", "exit", "oom", "host"}
Event == [from : Procs \cup {Host}, type : Types, age : 0 .. 2]

(* Type correctness: the ring buffer and the channel never exceed their    *)
(* sizes, and what was delivered is an event with a known owner or none.   *)
TypeOK ==
  /\ born \subseteq Procs /\ live \in [Procs -> SUBSET Threads]
  /\ targets \subseteq Procs /\ owners \subseteq Procs /\ lastSeen \subseteq Procs
  /\ collect \in [on : BOOLEAN, new : SUBSET Procs]
  /\ ring \in BoundedSeq(Event, RingSize) /\ chan \in BoundedSeq(Event, ChanSize)
  /\ reader \in {"run", "stopped"} /\ consumer \in {"run", "stopped"}
  /\ probes \in {"open", "closed", "crashed"} /\ done \in BOOLEAN
  /\ got \in [owed : {"owner", "alert", "nothing"}, own : BOOLEAN, raised : BOOLEAN]
  /\ told \subseteq Procs /\ overrun \in BOOLEAN

Init ==
  /\ born = {} /\ live = [p \in Procs |-> {}]
  /\ targets = {} /\ owners = {} /\ lastSeen = {} /\ collect = NoCollect
  /\ ring = <<>> /\ chan = <<>> /\ reader = "run" /\ consumer = "run"
  /\ probes = "open" /\ done = FALSE
  /\ got = [owed |-> "nothing", own |-> FALSE, raised |-> TRUE]
  /\ told = {} /\ overrun = FALSE
-----------------------------------------------------------------------------
(* History: how many times ec.owners has been replaced since the process   *)
(* of the event was last part of a complete Collect, counted up to 2, for  *)
(* the events that only targets give; before the second time such an event *)
(* is owed an alert with its owner, and an OOM kill or a KVM event one in  *)
(* any case.                                                               *)
OfTarget == {"signal", "kvm", "exit"}
Aged(s) ==
  [i \in DOMAIN s |->
     IF s[i].type \in OfTarget /\ s[i].age < 2 THEN [s[i] EXCEPT !.age = @ + 1] ELSE s[i]]
Owed(e) ==
  IF e.type \in OfTarget /\ e.age < 2 THEN "owner"
  ELSE IF e.type \in {"kvm", "oom"} THEN "alert" ELSE "nothing"
NewEvent(p, t) ==
  [from |-> p, type |-> t, age |-> IF collect.on /\ t \in OfTarget THEN 1 ELSE 0]

(* bpf_ringbuf_reserve and submit: a full ring loses the event. *)
Submit(e) == ring' = IF Len(ring) < RingSize THEN Append(ring, e) ELSE ring

Start(p) ==
  /\ p \notin born /\ born' = born \cup {p} /\ live' = [live EXCEPT ![p] = {"leader"}]
  /\ UNCHANGED <<targets, ring, chan, reader, consumer, handled, overrun, userVars>>

Clone(p, t) ==
  /\ live[p] # {} /\ t \notin live[p] /\ live' = [live EXCEPT ![p] = @ \cup {t}]
  /\ UNCHANGED <<born, targets, ring, chan, reader, consumer, handled, overrun, userVars>>

(* A program that looks at targets only reports an event of process p. *)
Report(p, t) ==
  /\ probes = "open" /\ live[p] # {} /\ p \in targets
  /\ Submit(NewEvent(p, t))
  /\ UNCHANGED <<procs, targets, chan, reader, consumer, handled, overrun, userVars>>

SignalGenerate(p) == Report(p, "signal")

(* kvm_userspace_exit, kvm_emulate_insn and kvm_inj_exception, of an exit, *)
(* an instruction or a vector that is worth an event.                      *)
KvmEvent(p) == Report(p, "kvm")

(* Mutant: the exit of any thread reports the exit of the process. *)
ExitPerThread(p, t) ==
  /\ t \in live[p] /\ live' = [live EXCEPT ![p] = @ \ {t}]
  /\ IF probes = "open" /\ p \in targets
     THEN Submit(NewEvent(p, "exit"))
     ELSE ring' = ring
  /\ UNCHANGED <<born, targets, chan, reader, consumer, handled, overrun, userVars>>

(* sched_process_exit runs for every thread; that of the leader, whose     *)
(* thread ID is the ID of the process, is reported, and not rate limited.  *)
Exit(p, t) ==
  /\ t \in live[p] /\ live' = [live EXCEPT ![p] = @ \ {t}]
  /\ IF probes = "open" /\ p \in targets /\ t = "leader"
     THEN Submit(NewEvent(p, "exit"))
     ELSE ring' = ring
  /\ UNCHANGED <<born, targets, chan, reader, consumer, handled, overrun, userVars>>

(* oom_mark_victim: any process can be the victim. *)
ReportOom(p) ==
  /\ probes = "open" /\ live[p] # {}
  /\ Submit(NewEvent(p, "oom"))
  /\ UNCHANGED <<procs, targets, chan, reader, consumer, handled, overrun, userVars>>

(* block_rq_complete with an error, mce_record: they concern the host. *)
ReportHost ==
  /\ probes = "open" /\ Submit([from |-> Host, type |-> "host", age |-> 0])
  /\ UNCHANGED <<procs, targets, chan, reader, consumer, handled, overrun, userVars>>
-----------------------------------------------------------------------------
(* Mutant: the channel is taken for full when one more event would fit. *)
ReadEventsShort ==
  /\ reader = "run" /\ probes = "open" /\ ring # <<>>
  /\ ring' = Tail(ring)
  /\ chan' = IF Len(chan) < ChanSize - 1 THEN Append(chan, Head(ring)) ELSE chan
  /\ overrun' = (overrun \/ Len(chan) = ChanSize)
  /\ UNCHANGED <<procs, targets, reader, consumer, handled, userVars>>

(* readEvents: one record from the ring to the channel, or dropped when    *)
(* the consumer is behind.                                                 *)
ReadEvents ==
  /\ reader = "run" /\ probes = "open" /\ ring # <<>>
  /\ ring' = Tail(ring)
  /\ chan' = IF Len(chan) < ChanSize THEN Append(chan, Head(ring)) ELSE chan
  /\ overrun' = (overrun \/ Len(chan) = ChanSize)
  /\ UNCHANGED <<procs, targets, reader, consumer, handled, userVars>>

(* Mutant: the reader goes on until the ring is empty. *)
ReaderStopsEmpty ==
  /\ reader = "run" /\ probes = "closed" /\ ring = <<>>
  /\ reader' = "stopped"
  /\ UNCHANGED <<procs, targets, ring, chan, consumer, handled, overrun, userVars>>

(* Close ends the reader, which closes the channel. *)
ReaderStops ==
  /\ reader = "run" /\ probes = "closed"
  /\ reader' = "stopped"
  /\ UNCHANGED <<procs, targets, ring, chan, consumer, handled, overrun, userVars>>

(* Any other error of Read ends it just so, while the probes run on. *)
ReaderFails ==
  /\ reader = "run" /\ probes = "open"
  /\ reader' = "stopped"
  /\ UNCHANGED <<procs, targets, ring, chan, consumer, handled, overrun, userVars>>

Attributed(e) == e.from \in owners /\ e.type # "host"

(* FromProbeEvent: a signal or an exit without a VM is not worth an alert. *)
FromProbeEvent(e) == Attributed(e) \/ e.type \notin {"signal", "exit"}

(* RunEvents: it waits for ec.mu, which Collect holds. *)
RunEvents ==
  /\ consumer = "run" /\ chan # <<>> /\ ~collect.on /\ probes # "crashed"
  /\ chan' = Tail(chan)
  /\ LET e == Head(chan)
     IN  /\ got' = [owed |-> Owed(e), own |-> Attributed(e), raised |-> FromProbeEvent(e)]
         /\ told' = IF e.type = "exit" THEN told \cup {e.from} ELSE told
  /\ UNCHANGED <<procs, targets, ring, reader, consumer, overrun, userVars>>

ConsumerStops ==
  /\ consumer = "run" /\ probes # "crashed"
  /\ done \/ (reader = "stopped" /\ chan = <<>>)
  /\ consumer' = "stopped"
  /\ UNCHANGED <<procs, targets, ring, chan, reader, handled, overrun, userVars>>
-----------------------------------------------------------------------------
(* Mutant: the targets of the previous tick are not kept. *)
CollectOwnersForgets(new) ==
  /\ ~collect.on /\ probes # "crashed"
  /\ new \subseteq born
  /\ collect' = [on |-> TRUE, new |-> new]
  /\ owners' = new /\ lastSeen' = new
  /\ ring' = Aged(ring) /\ chan' = Aged(chan)
  /\ UNCHANGED <<procs, targets, reader, consumer, probes, done, handled, overrun>>

(* Collect, first part: the VMs of the store that run or are paused become *)
(* the owners, together with the targets of the previous tick.  The store  *)
(* may still list a process that is dead, and may leave out a live one.    *)
CollectOwners(new) ==
  /\ ~collect.on /\ probes # "crashed"
  /\ new \subseteq born
  /\ collect' = [on |-> TRUE, new |-> new]
  /\ owners' = new \cup lastSeen /\ lastSeen' = new
  /\ ring' = Aged(ring) /\ chan' = Aged(chan)
  /\ UNCHANGED <<procs, targets, reader, consumer, probes, done, handled, overrun>>

(* Second part: SetTargets.  After Close the maps are gone and their use   *)
(* is a nil dereference that ends the program.                             *)
CollectTargets ==
  /\ collect.on /\ probes # "crashed"
  /\ collect' = NoCollect
  /\ targets' = IF probes = "open" THEN collect.new ELSE targets
  /\ probes' = IF probes = "open" THEN "open" ELSE "crashed"
  /\ UNCHANGED <<procs, owners, lastSeen, ring, chan, reader, consumer, done, handled, overrun>>

(* main returns: poller.Close, which does not wait for the goroutines. *)
Close ==
  /\ probes = "open" /\ probes' = "closed"
  /\ UNCHANGED <<procs, targets, owners, lastSeen, collect, ring, chan, reader, consumer, done,
                 handled, overrun>>

Cancel ==
  /\ ~done /\ done' = TRUE
  /\ UNCHANGED <<procs, targets, owners, lastSeen, collect, ring, chan, reader, consumer, probes,
                 handled, overrun>>

Next ==
  \/ \E p \in Procs :
       \/ Start(p) \/ SignalGenerate(p) \/ KvmEvent(p) \/ ReportOom(p)
       \/ \E t \in Workers : Clone(p, t)
       \/ \E t \in Threads : Exit(p, t)
  \/ ReportHost
  \/ ReadEvents \/ ReaderStops \/ ReaderFails \/ RunEvents \/ ConsumerStops
  \/ \E new \in SUBSET Procs : CollectOwners(new)
  \/ CollectTargets \/ Close \/ Cancel

(* The goroutines run: the reader, a Collect that has begun, and RunEvents,*)
(* which gets ec.mu however often Collect takes it (sync.Mutex hands it to *)
(* one that waits long) and whose select does not pass over ctx.Done for   *)
(* ever.  That Read fails, and that anything is closed, is not assumed.    *)
Fairness ==
  /\ WF_vars(ReadEvents) /\ WF_vars(ReaderStops) /\ WF_vars(CollectTargets)
  /\ SF_vars(RunEvents) /\ SF_vars(ConsumerStops)

Spec == Init /\ [][Next]_vars
LiveSpec == Spec /\ Fairness
-----------------------------------------------------------------------------
(* "exit events of VMs that just stopped can still be attributed": a VM's  *)
(* signal, KVM event or exit that RunEvents handles before ec.owners was   *)
(* replaced twice is attributed to it and raised, also when the process    *)
(* left the store at the first of these ticks or the event was sent during *)
(* Collect.  An OOM kill and a KVM event are raised in any case            *)
(* (FromProbeEvent).                                                       *)
TimelyReported ==
  /\ got.owed = "owner" => got.own /\ got.raised
  /\ got.owed = "alert" => got.raised

ExitsIn(s, p) == Len(SelectSeq(s, LAMBDA e : e.from = p /\ e.type = "exit"))

(* The exit of a process is reported at most once, however many threads it *)
(* has and in whichever order they end, and not before its leader has      *)
(* ended: of all events on their way or handled one is its exit            *)
(* (sched_process_exit, readEvents, RunEvents).                            *)
ExitOnce ==
  \A p \in Procs :
    ExitsIn(ring, p) + ExitsIn(chan, p) + (IF p \in told THEN 1 ELSE 0)
      <= (IF p \in born /\ "leader" \notin live[p] THEN 1 ELSE 0)

(* An exit that is in the ring is handled in the end, though RunEvents     *)
(* waits for Collect and Collect comes again and again, unless an event    *)
(* was dropped because the consumer was behind, the reader failed, or the  *)
(* program is ending (readEvents, RunEvents, Collect).                     *)
Delivered ==
  \A p \in Procs :
    ExitsIn(ring, p) > 0 ~> (p \in told \/ overrun \/ reader = "stopped" \/ done \/ probes # "open")

(* Closing the probes ends both goroutines, and so does an error of the    *)
(* reader, after which nobody would send to the channel any more, unless   *)
(* the program crashed (Close, readEvents, RunEvents).                     *)
CloseStops ==
  (probes = "closed" \/ reader = "stopped") ~>
    (reader = "stopped" /\ consumer = "stopped") \/ probes = "crashed"
=============================================================================
