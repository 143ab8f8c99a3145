----------------------------- MODULE QmpPoller -----------------------------
(***************************************************************************)
(* The QMP collector (internal/collect/qmp.go): polls of QEMU monitors run *)
(* in goroutines of their own, the poller's Collect starts them and writes *)
(* their results into the store.  A tick is: the process scan rewrites the *)
(* entry of every VM with the state "running" (scan.go), Collect takes the *)
(* list of VMs, waits for the polls of VMs it sees for the first time, and *)
(* then applies the results it has under qc.mu.                            *)
(*                                                                         *)
(* A VM is the process behind one "pid-..." entry whose command line names *)
(* a QMP socket.  The query is two steps, the answer to query-status and   *)
(* the end of the poll, and it may time out before either.  Disks and      *)
(* migration travel with the state and are left out.                       *)
(***************************************************************************)
EXTENDS Integers, FiniteSets

CONSTANTS
  Monitored,        \* Monitored with a monitor
  RunStates,  \* what query-status can answer
  Interval,   \* qmp.interval
  QmpMaxTime  \* bound on the clock

ASSUME QmpAssumption == Interval \in Nat \ {0} /\ QmpMaxTime \in Nat

VARIABLES
  qmpClock, \* the wall clock
  present,  \* VMs that run and that the index lists
  real,     \* the run state of each guest
  results,  \* qc.results: [at, st], at = None for a missing entry
  polling,  \* qc.polling
  tried,    \* qc.tried
  polls,    \* running poll goroutines: [vm, at, st], at = None unanswered
  qmpTick,  \* the poller: phase, now, targets and first
  shown,    \* the state in the store and the answer it came from
  was,      \* history: when each guest last left each run state
  forgot    \* history: when Collect last forgot each VM

qmpVars == <<qmpClock, present, real, results, polling, tried, polls, qmpTick, shown, was, forgot>>

None == -1
QmpTime == 0 .. QmpMaxTime
Stamp == QmpTime \cup {None}
Answer == [at : Stamp, st : {"running", "paused", "crashed", "shutdown", "pmsuspended"}]
NoAnswer == [at |-> None, st |-> "running"]

(* Type correctness: what is stored is a state of the dashboard, never a   *)
(* raw QEMU run state, and polls refer to known VMs.                       *)
QmpTypeOK ==
  /\ qmpClock \in QmpTime
  /\ was \in [Monitored -> [RunStates -> Stamp]] /\ forgot \in [Monitored -> Stamp]
  /\ present \subseteq Monitored /\ real \in [Monitored -> RunStates]
  /\ results \in [Monitored -> Answer] /\ shown \in [Monitored -> Answer]
  /\ polling \subseteq Monitored /\ tried \subseteq Monitored
  /\ \A p \in polls : p.vm \in Monitored /\ [at |-> p.at, st |-> p.st] \in Answer
  /\ qmpTick \in [phase : {"idle", "collect", "wait", "commit"}, now : QmpTime,
               targets : SUBSET Monitored, first : SUBSET Monitored]

QmpInit ==
  /\ qmpClock = 0
  /\ present = {} /\ real \in [Monitored -> RunStates]
  /\ results = [v \in Monitored |-> NoAnswer]
  /\ polling = {} /\ tried = {} /\ polls = {}
  /\ qmpTick = [phase |-> "idle", now |-> 0, targets |-> {}, first |-> {}]
  /\ shown = [v \in Monitored |-> NoAnswer]
  /\ was = [v \in Monitored |-> [s \in RunStates |-> None]]
  /\ forgot = [v \in Monitored |-> None]
-----------------------------------------------------------------------------
(* External: VMs start and stop, guests change state, time passes.  An ID  *)
(* names one process, so a VM that stopped may only come back to the list  *)
(* when it had merely dropped out of it.                                   *)
Appear(v) ==
  /\ v \notin present /\ present' = present \cup {v}
  /\ UNCHANGED <<qmpClock, real, results, polling, tried, polls, qmpTick, shown, was, forgot>>

Vanish(v) ==
  /\ v \in present /\ present' = present \ {v}
  /\ UNCHANGED <<qmpClock, real, results, polling, tried, polls, qmpTick, shown, was, forgot>>

RunStateChange(v, s) ==
  /\ real[v] # s /\ real' = [real EXCEPT ![v] = s]
  /\ was' = [was EXCEPT ![v][real[v]] = qmpClock]
  /\ UNCHANGED <<qmpClock, present, results, polling, tried, polls, qmpTick, shown, forgot>>

QmpPass ==
  /\ qmpClock < QmpMaxTime /\ qmpClock' = qmpClock + 1
  /\ UNCHANGED <<present, real, results, polling, tried, polls, qmpTick, shown, was, forgot>>
-----------------------------------------------------------------------------
(* qmpState: QEMU's run states as hyperview names them. *)
QmpState(s) ==
  CASE s = "running" -> "running"
    [] s = "guest-panicked" -> "crashed"
    [] s = "shutdown" -> "shutdown"
    [] s = "suspended" -> "pmsuspended"
    [] OTHER -> "paused"

NewPoll(v) == [vm |-> v, at |-> None, st |-> "running"]

(* query: query-status is answered and the result is dated. *)
PollAnswer(p) ==
  /\ p.at = None
  /\ polls' = (polls \ {p}) \cup
       {[vm |-> p.vm, at |-> qmpClock, st |-> QmpState(real[p.vm])]}
  /\ UNCHANGED <<qmpClock, present, real, results, polling, tried, qmpTick, shown, was, forgot>>

(* poll: the result is stored. *)
PollDone(p) ==
  /\ p.at # None
  /\ polls' = polls \ {p} /\ polling' = polling \ {p.vm}
  /\ results' = [results EXCEPT ![p.vm] = [at |-> p.at, st |-> p.st]]
  /\ UNCHANGED <<qmpClock, present, real, tried, qmpTick, shown, was, forgot>>

(* Mutant: a query that gets no answer waits without a deadline. *)
PollFailNever(p) ==
  /\ p.at = None /\ p.vm \notin present
  /\ polls' = polls \ {p} /\ polling' = polling \ {p.vm}
  /\ UNCHANGED <<qmpClock, present, real, results, tried, qmpTick, shown, was, forgot>>

(* poll: dialing, the handshake or query-status failed or timed out. *)
PollFail(p) ==
  /\ p.at = None
  /\ polls' = polls \ {p} /\ polling' = polling \ {p.vm}
  /\ UNCHANGED <<qmpClock, present, real, results, tried, qmpTick, shown, was, forgot>>
-----------------------------------------------------------------------------
(* The discoverers' part of the tick: ScanCollector writes every VM it     *)
(* finds as running; Retain drops the entries of the others.               *)
ScanUpsert ==
  /\ qmpTick.phase = "idle"
  /\ shown' = [v \in Monitored |-> NoAnswer]
  /\ qmpTick' = [qmpTick EXCEPT !.phase = "collect", !.targets = present]
  /\ UNCHANGED <<qmpClock, present, real, results, polling, tried, polls, was, forgot>>

CollectFirst ==
  /\ qmpTick.phase = "collect"
  /\ LET first == qmpTick.targets \ (tried \cup polling)
     IN  /\ tried' = tried \cup first
         /\ polling' = polling \cup first
         /\ polls' = polls \cup {NewPoll(v) : v \in first}
         /\ qmpTick' = [qmpTick EXCEPT !.phase = "wait", !.now = qmpClock, !.first = first]
  /\ UNCHANGED <<qmpClock, present, real, results, shown, was, forgot>>

Due(v) == results[v].at = None \/ qmpTick.now - results[v].at >= Interval
(* Mutant: a result never goes stale. *)
FreshForever(v) == results[v].at # None

Fresh(v) == results[v].at # None /\ qmpTick.now - results[v].at <= 3 * Interval

(* Mutant: a due poll is started without looking at qc.polling. *)
CollectApplyDouble ==
  /\ qmpTick.phase = "wait" /\ \A p \in polls : p.vm \notin qmpTick.first
  /\ LET start == {v \in qmpTick.targets : Due(v)}
         gone == {v \in tried : v \notin qmpTick.targets /\ v \notin polling}
     IN  /\ polling' = polling \cup start
         /\ polls' = polls \cup {NewPoll(v) : v \in start}
         /\ tried' = tried \ gone
         /\ results' = [v \in Monitored |-> IF v \in gone THEN NoAnswer ELSE results[v]]
         /\ forgot' = [v \in Monitored |-> IF v \in gone THEN qmpClock ELSE forgot[v]]
  /\ shown' = [v \in Monitored |-> IF v \in qmpTick.targets /\ Fresh(v)
                                   THEN results[v] ELSE shown[v]]
  /\ qmpTick' = [qmpTick EXCEPT !.phase = "commit", !.first = {}]
  /\ UNCHANGED <<qmpClock, present, real, was>>

(* Mutant: a VM that is gone is forgotten although it is being polled. *)
CollectApplyForgets ==
  /\ qmpTick.phase = "wait" /\ \A p \in polls : p.vm \notin qmpTick.first
  /\ LET start == {v \in qmpTick.targets : Due(v) /\ v \notin polling}
         gone == {v \in tried : v \notin qmpTick.targets}
     IN  /\ polling' = polling \cup start
         /\ polls' = polls \cup {NewPoll(v) : v \in start}
         /\ tried' = tried \ gone
         /\ results' = [v \in Monitored |-> IF v \in gone THEN NoAnswer ELSE results[v]]
         /\ forgot' = [v \in Monitored |-> IF v \in gone THEN qmpClock ELSE forgot[v]]
  /\ shown' = [v \in Monitored |-> IF v \in qmpTick.targets /\ Fresh(v)
                                   THEN results[v] ELSE shown[v]]
  /\ qmpTick' = [qmpTick EXCEPT !.phase = "commit", !.first = {}]
  /\ UNCHANGED <<qmpClock, present, real, was>>

(* Collect after wg.Wait: due polls are started, fresh results are shown,  *)
(* VMs that are gone and not being polled are forgotten.                   *)
CollectApply ==
  /\ qmpTick.phase = "wait" /\ \A p \in polls : p.vm \notin qmpTick.first
  /\ LET start == {v \in qmpTick.targets : Due(v) /\ v \notin polling}
         gone == {v \in tried : v \notin qmpTick.targets /\ v \notin polling}
     IN  /\ polling' = polling \cup start
         /\ polls' = polls \cup {NewPoll(v) : v \in start}
         /\ tried' = tried \ gone
         /\ results' = [v \in Monitored |-> IF v \in gone THEN NoAnswer ELSE results[v]]
         /\ forgot' = [v \in Monitored |-> IF v \in gone THEN qmpClock ELSE forgot[v]]
  /\ shown' = [v \in Monitored |-> IF v \in qmpTick.targets /\ Fresh(v)
                                   THEN results[v] ELSE shown[v]]
  /\ qmpTick' = [qmpTick EXCEPT !.phase = "commit", !.first = {}]
  /\ UNCHANGED <<qmpClock, present, real, was>>

QmpCommit ==
  /\ qmpTick.phase = "commit"
  /\ qmpTick' = [qmpTick EXCEPT !.phase = "idle"]
  /\ UNCHANGED <<qmpClock, present, real, results, polling, tried, polls, shown, was, forgot>>

Tick == ScanUpsert \/ CollectFirst \/ CollectApply \/ QmpCommit
PollEnds(v) == \E p \in polls : p.vm = v /\ (PollDone(p) \/ PollFail(p))

QmpNext ==
  \/ \E v \in Monitored : Appear(v) \/ Vanish(v)
  \/ \E v \in Monitored, s \in RunStates : RunStateChange(v, s)
  \/ QmpPass
  \/ \E p \in polls : PollAnswer(p) \/ PollDone(p) \/ PollFail(p)
  \/ Tick

(* The query's deadline ends every poll, and the poller goroutine runs.    *)
Fairness ==
  /\ WF_qmpVars(Tick)
  /\ \A v \in Monitored : WF_qmpVars(PollEnds(v))

QmpSpec == QmpInit /\ [][QmpNext]_qmpVars
QmpLive == QmpSpec /\ Fairness
-----------------------------------------------------------------------------
(* A QMP socket serves one client at a time: qc.polling admits at most one *)
(* poll goroutine per VM, however ticks, late answers and VMs that leave   *)
(* and return interleave, and it is exactly the set of running polls.      *)
OnePoll ==
  /\ \A p, q \in polls : p.vm = q.vm => p = q
  /\ polling = {p.vm : p \in polls}

(* Cleaning up never loses track of a poll: a result or a running poll     *)
(* belongs to a VM in qc.tried, so that a later tick can forget it.        *)
NoOrphan == polling \cup {v \in Monitored : results[v].at # None} \subseteq tried

(* An answer is never replaced by an older one, and a poll from before a   *)
(* VM was forgotten never brings its result back: what is stored is not    *)
(* older than that either (Collect, poll).                                 *)
AnswersAdvance ==
  [][\A v \in Monitored : results'[v] # results[v] =>
       \/ results'[v].at = None
       \/ results'[v].at >= results[v].at /\ results'[v].at >= forgot[v]]_qmpVars

(* The guest of v was in a run state shown as st at some time from since. *)
WasReal(v, st, since) ==
  \E s \in RunStates : QmpState(s) = st /\ (real[v] = s \/ was[v][s] >= since)
(* The state a tick commits for a VM is one the guest really was in during *)
(* the last three intervals, or the "running" of the scan; and a VM whose  *)
(* first poll answered is committed with that answer.                      *)
ShownWasReal ==
  [][qmpTick'.phase = "commit" /\ qmpTick.phase = "wait" => \A v \in qmpTick.targets :
       /\ shown'[v].at # None => WasReal(v, shown'[v].st, qmpTick.now - 3 * Interval)
       /\ v \in qmpTick.first /\ results[v].at # None => shown'[v] = results[v]]_qmpVars

(* Every poll ends and every tick reaches its commit: a stuck monitor      *)
(* delays a tick at most until the deadline of its first poll.             *)
TicksComplete == []<>(qmpTick.phase = "commit")

(* No poll stays registered for ever: qc.polling is released on an answer, *)
(* an error and a timeout alike, so a VM can always be polled again.       *)
PollsEnd == \A v \in Monitored : v \in polling ~> v \notin polling
-----------------------------------------------------------------------------
(* docs/architecture.md: collectors "only touch the fields they own".  So  *)
(* the state that QMP reported for a VM, while it is fresh and the VM      *)
(* stays, would change in the store only by a newer answer of QMP.         *)
StateOwned ==
  [][\A v \in present : shown[v].at # None /\ shown[v] = results[v]
       /\ qmpClock - shown[v].at < Interval => shown'[v].st = shown[v].st]_qmpVars
=============================================================================
