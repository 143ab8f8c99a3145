------------------------------ MODULE RunQueue ------------------------------
(***************************************************************************)
(* The probes' target set and the run-queue latency of threads (runq_start *)
(* and runq_hist).  SetTargets changes the set entry by entry while the    *)
(* programs run on the CPUs (internal/probe/probe.go, internal/bpf/src);   *)
(* what it then deletes is in Counters and LatencyHist.                    *)
(*                                                                         *)
(* A scheduler handler runs under the run-queue lock and touches the state *)
(* of its threads only, so it is one step.  A histogram is reduced to its  *)
(* max_us.  A map may be full, with entries of other threads: then it      *)
(* takes no new entry, and no program looks at the error.                  *)
(*                                                                         *)
(* A thread that is preempted after it has set a sleeping state, on its    *)
(* way to schedule(), stays on the run queue like one that was runnable,   *)
(* but sched_switch, which asks for the state alone, cannot tell: it is    *)
(* "preempted" here and not "queued".  It may run again as it is, or be    *)
(* woken first.                                                            *)
(***************************************************************************)
EXTENDS Integers, FiniteSets, FiniteSetsExt

CONSTANTS
  Tgids,       \* process IDs
  Tids,        \* thread IDs, reused after a thread is gone
  CPUs,
  MaxTargets,  \* max_entries of the targets map
  MaxTime      \* bound on the clock

ASSUME RunQueueAssumption == MaxTargets \in Nat /\ MaxTime \in Nat

VARIABLES
  clock,
  thread,      \* the kernel's threads: own, st, dying and at, since when it
               \* waits: queued, preempted, or woken when preempted
  cur,         \* the thread each CPU runs
  targets,     \* the BPF map targets
  known,       \* Probes.targets
  want,        \* the argument of the running SetTargets
  call,        \* where SetTargets is
  start,       \* runq_start
  hist,        \* runq_hist: the longest latency of the entry
  covered,     \* history: threads whose queueing made an entry in runq_start
  truth        \* history: the longest real wait in hist, and whether all
               \* of its waits were covered

vars == <<clock, thread, cur, targets, known, want, call, start, hist, covered, truth>>
kernel == <<thread, cur, covered>>
maps == <<start, hist, truth>>
user == <<targets, known, want, call>>

None == -1
NoOne == "none"
Time == 0 .. MaxTime
Stamp == Time \cup {None}
NoThread == [own |-> NoOne, st |-> "gone", dying |-> FALSE, at |-> None]
Untold == [wait |-> None, clean |-> TRUE]

(* Type correctness: a thread runs on a CPU exactly when the CPU says so,  *)
(* the targets map keeps its bound, and the maps hold time stamps of known *)
(* threads.                                                                *)
TypeOK ==
  /\ clock \in Time
  /\ thread \in [Tids -> [own : Tgids \cup {NoOne},
                          st : {"gone", "sleeping", "queued", "preempted", "running"},
                          dying : BOOLEAN, at : Stamp]]
  /\ cur \in [CPUs -> Tids \cup {None}]
  /\ \A t \in Tids : thread[t].st = "running" <=> \E c \in CPUs : cur[c] = t
  /\ targets \subseteq Tgids /\ known \subseteq Tgids
  /\ want \subseteq Tgids /\ call \in {"idle", "add", "delete"}
  /\ start \in [Tids -> Stamp] /\ hist \in [Tids -> Stamp]
  /\ covered \subseteq Tids
  /\ truth \in [Tids -> [wait : Stamp, clean : BOOLEAN]]
  /\ Cardinality(targets) <= MaxTargets

Init ==
  /\ clock = 0
  /\ thread = [t \in Tids |-> NoThread]
  /\ cur = [c \in CPUs |-> None]
  /\ targets = {} /\ known = {} /\ want = {} /\ call = "idle"
  /\ start = [t \in Tids |-> None] /\ hist = [t \in Tids |-> None]
  /\ covered = {} /\ truth = [t \in Tids |-> Untold]

Pass ==
  /\ clock < MaxTime /\ clock' = clock + 1
  /\ UNCHANGED <<kernel, maps, user>>
-----------------------------------------------------------------------------
IsTarget(t) == thread[t].own \in targets

(* Whether runq_enqueue of a thread t of process g makes an entry: an      *)
(* entry that is there is overwritten, a full map takes no other.          *)
Enters(t, g, full) == g \in targets /\ (start[t] # None \/ ~full)

(* Mutant: an entry in runq_start is never overwritten. *)
RunqEnqueueOnce(ts, full) ==
  start' = [t \in Tids |-> IF t \in ts /\ start[t] = None /\ Enters(t, thread[t].own, full)
                           THEN clock ELSE start[t]]

(* runq_enqueue, for the threads that a handler puts on the run queue. *)
RunqEnqueue(ts, full) ==
  start' = [t \in Tids |-> IF t \in ts /\ Enters(t, thread[t].own, full) THEN clock ELSE start[t]]

(* The history that goes with it. *)
Covers(ts, full) == (covered \ ts) \cup {t \in ts : Enters(t, thread[t].own, full)}

(* sched_wakeup_new: a thread of process g starts. *)
Spawn(t, g, full) ==
  /\ thread[t].st = "gone"
  /\ thread' = [thread EXCEPT ![t] =
       [own |-> g, st |-> "queued", dying |-> FALSE, at |-> clock]]
  /\ start' = IF Enters(t, g, full) THEN [start EXCEPT ![t] = clock] ELSE start
  /\ covered' = IF Enters(t, g, full) THEN covered \cup {t} ELSE covered \ {t}
  /\ UNCHANGED <<clock, cur, hist, truth, user>>

(* sched_wakeup of a thread that sleeps, or that was preempted on its way  *)
(* there and now is runnable where it is.                                  *)
Wake(t, full) ==
  /\ thread[t].st \in {"sleeping", "preempted"}
  /\ thread' = [thread EXCEPT ![t].st = "queued", ![t].at = clock]
  /\ RunqEnqueue({t}, full) /\ covered' = Covers({t}, full)
  /\ UNCHANGED <<clock, cur, hist, truth, user>>

(* sched_wakeup of a thread that was about to sleep and still runs. *)
WakeRunning(t, full) ==
  /\ thread[t].st = "running"
  /\ RunqEnqueue({t}, full)
  /\ UNCHANGED <<clock, hist, truth, kernel, user>>

(* sched_switch, its first test: the task that leaves the CPU goes to the  *)
(* queue if its state is TASK_RUNNING; whether it was preempted is not     *)
(* asked.                                                                  *)
RunqPreempted(c, st) == IF st = "queued" THEN {cur[c]} \ {None} ELSE {}

(* What is left of a thread that a CPU leaves in the state st. *)
Left(t, st) ==
  IF st = "gone" THEN NoThread ELSE [thread[t] EXCEPT !.st = st, !.at = clock]

(* sched_switch: CPU c leaves prev, in the state st, for next.  A next that *)
(* has a start time gets its wait into the histogram, unless it has no     *)
(* histogram and there is no room for one (hist_add).                      *)
SchedSwitch(c, next, st, full, histFull) ==
  LET prev == cur[c]
      again == RunqPreempted(c, st)
      told == next # None /\ IsTarget(next) /\ start[next] # None
      delta == clock - start[next]
      wait == clock - thread[next].at
  IN  /\ prev # next
      /\ next # None => thread[next].st \in {"queued", "preempted"}
      /\ prev = None => st = "gone"
      /\ prev # None /\ st = "gone" => thread[prev].dying
      /\ thread' = [t \in Tids |->
           IF t = prev THEN Left(t, st)
           ELSE IF t = next THEN [thread[t] EXCEPT !.st = "running"] ELSE thread[t]]
      /\ cur' = [cur EXCEPT ![c] = next]
      /\ covered' = Covers(again, full) \ ({prev, next} \ again)
      /\ start' = [t \in Tids |->
           IF t \in again /\ Enters(t, thread[t].own, full) THEN clock
           ELSE IF t = next /\ told THEN None ELSE start[t]]
      /\ IF told /\ (hist[next] # None \/ ~histFull)
         THEN /\ hist' = [hist EXCEPT ![next] = Max({@, delta})]
              /\ truth' = [truth EXCEPT ![next] =
                   [wait |-> Max({@.wait, wait}), clean |-> @.clean /\ next \in covered]]
         ELSE UNCHANGED <<hist, truth>>
  /\ UNCHANGED <<clock, user>>

(* sched_process_exit: the thread still runs, and may yet be preempted or  *)
(* sleep.  vcpu_stats, which it also clears, is in Counters, and the event *)
(* that a thread group leader sends in EventPath.                          *)
SchedProcessExit(t) ==
  /\ thread[t].st = "running" /\ ~thread[t].dying
  /\ thread' = [thread EXCEPT ![t].dying = TRUE]
  /\ IF IsTarget(t)
     THEN /\ start' = [start EXCEPT ![t] = None]
          /\ hist' = [hist EXCEPT ![t] = None]
          /\ truth' = [truth EXCEPT ![t] = Untold]
     ELSE UNCHANGED <<start, hist, truth>>
  /\ UNCHANGED <<clock, cur, covered, user>>

-----------------------------------------------------------------------------
(* SetTargets(tgids), called by every EBPFCollector.Collect under p.mu.    *)
SetTargets(tgids) ==
  /\ call = "idle" /\ Cardinality(tgids) <= MaxTargets
  /\ want' = tgids /\ call' = "add"
  /\ UNCHANGED <<clock, targets, known, kernel, maps>>

(* A new target is put into the map; the error of a full map is ignored.   *)
AddTarget(new) ==
  /\ call = "add" /\ new \subseteq want \ known
  /\ new = want \ known \/ Cardinality(targets \cup new) = MaxTargets
  /\ Cardinality(targets \cup new) <= MaxTargets
  /\ targets' = targets \cup new /\ call' = "delete"
  /\ UNCHANGED <<clock, known, want, kernel, maps>>

(* The targets that went away leave the map, and Probes.targets is set. *)
DeleteTarget ==
  /\ call = "delete"
  /\ targets' = targets \ (known \ want)
  /\ known' = want /\ call' = "idle"
  /\ UNCHANGED <<clock, want, kernel, maps>>

Next ==
  \/ Pass
  \/ \E t \in Tids :
       \/ \E full \in BOOLEAN :
            \/ \E g \in Tgids : Spawn(t, g, full)
            \/ Wake(t, full) \/ WakeRunning(t, full)
       \/ SchedProcessExit(t)
  \/ \E c \in CPUs, next \in Tids \cup {None}, full, histFull \in BOOLEAN,
        st \in {"gone", "sleeping", "queued", "preempted"} : SchedSwitch(c, next, st, full, histFull)
  \/ \E tgids \in SUBSET Tgids : SetTargets(tgids) \/ AddTarget(tgids)
  \/ DeleteTarget

Spec == Init /\ [][Next]_vars
-----------------------------------------------------------------------------
(* The start time of a queued thread is the time since when it waits, if   *)
(* its process was a target when it was queued and runq_start had room:    *)
(* neither a wake-up of the running thread, nor a preemption, nor a target *)
(* that leaves and returns, nor a thread ID used again can leave an older  *)
(* one in runq_start.                                                      *)
StartExact ==
  \A t \in Tids : thread[t].st = "queued" /\ t \in covered => start[t] = thread[t].at

(* The latency that runq_hist reports for a thread is never shorter than   *)
(* its longest recorded wait.  It is exactly that when each of those waits *)
(* began with an entry in runq_start: the process was a target, the map    *)
(* had room, and the thread was not preempted on its way to sleep, where   *)
(* sched_switch leaves the start of an earlier wake-up in place.           *)
LatencyTrue ==
  \A t \in Tids : hist[t] # None =>
    hist[t] >= truth[t].wait /\ (truth[t].clean => hist[t] = truth[t].wait)

(* probe.go, SetTargets: it "drops all per-process state of the ones that  *)
(* went away".                                                             *)
StateDropped ==
  call = "idle" => \A t \in Tids :
    thread[t].own \notin known \cup {NoOne} => start[t] = None /\ hist[t] = None

(* probe.go, SetTargets: it "replaces the set of monitored hypervisor      *)
(* processes", and no call here asks for more than the map holds.          *)
TargetsReplaced == call = "idle" => targets = want
=============================================================================
