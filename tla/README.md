# A TLA+ model of hyperview

hyperview watches the KVM guests of a Linux host: it discovers them, samples
them once per interval, follows kernel events with eBPF and the kernel log, and
turns all of it into alerts. This directory holds TLA+ specifications of its
parts, TLC configurations that check them on small instances, and proofs checked
by TLAPS. `PROJECT.json` lists the runs, the source lines each definition models,
the mutants that show the properties can fail, the hazards and the findings.

## 1. The system

| Part | State | Operations | What makes it hard |
|---|---|---|---|
| Poller and discovery (`collect/collector.go`, `libvirt.go`, `scan.go`, `discover.go`) | store entries, libvirt's PID claims, last good result of each discoverer, process index | one tick: libvirt, scan, retain, collectors, commit | libvirt calls fail at any point, PIDs are reused, the index is cached, two clocks measure one grace period |
| QMP collector (`collect/qmp.go`) | results, running polls, VMs tried | start polls, wait for first polls, apply | polls outlive ticks and VMs, a monitor may never answer |
| eBPF programs (`bpf/src/hyperview.bpf.c`) | targets, time stamps, counters, histograms, rate-limit table | scheduler, KVM, block and network hooks, exit hook, events | run on all CPUs at once, without locks, while user space reads and changes the maps |
| eBPF loader (`probe/probe.go`, `hist.go`) | programs, links, statuses, known targets and interfaces, windows of samples | `Load`, `Close`, `SetTargets`, `SetIfaces`, `readEvents`, `Window` | any kernel call may fail; reads are torn; maps are bounded and the errors of full ones ignored |
| eBPF collector (`collect/ebpf.go`, `rate.go`) | owners of PIDs, previous owners, last samples of counters | `Collect`, `RunEvents`, `Close` | an event may be handled after its VM has left; counters are deleted and start anew |
| libvirt statistics (`collect/libvirt.go`) | cached device lists, last samples of counters | `collectRunning`, `domainXML` | devices come and go, domain IDs are given out again, any call may fail |
| Process collector (`collect/proc.go`) | cached vCPU threads by PID | `Collect`, `vcpuThreads` | three collectors write one list of vCPUs; PIDs and thread IDs are reused |
| Kernel log (`kmsg/kmsg.go`, `alert/kmsg.go`) | read position | `Follow`, `FromKmsg` | records are overwritten, replayed, and name processes that are gone |
| Alert engine (`alert/alert.go`) | conditions, event windows, history, pending notices | `Raise`, `Evaluate`, `Recent`, notification | several goroutines, notification outside the lock, a reader that locks twice, dates in the past |
| Detector (`alert/detect.go`) | snapshots of the previous tick | `Run` | VMs appear, vanish and restart between ticks |
| Store (`store/*.go`) | snapshots, ring buffers | `Upsert`, `Mutate`, `Retain`, `Commit` | the seam of the ring, a VM that returns |
| Terminal interface (`tui/*.go`) | rows, selection, screen, tab, scroll | keys, refresh, resize, render | indices kept while the lists they point into change |

A tick of the poller writes the store; the detector reads the committed
snapshots and calls the engine in the same goroutine. The eBPF consumer and the
kernel log reader call the engine from goroutines of their own. The interface,
the headless sink and the Prometheus endpoint read the store and the engine.

## 2. Modules

Each component module has its state as variables, one action per operation or
per step that other actors can see, and its properties at the end. Operators
whose comment says "Mutant" are plausible bugs of the definition after them.
`MC*` modules give TLC its values.

| Module | Models | Granularity |
|---|---|---|
| `AlertEngine` | the engine | `Raise` is one step; `Evaluate` holds the lock and takes one step per sample, lost subject and expired window; each notification is a step |
| `AlertReader` | the engine with a reader | `Recent` is two steps, its two lock sections |
| `Detector` | `Detector.Run` with `domainEvents`, the state conditions and one threshold | one step per tick, per committed snapshot and per disk error |
| `Discovery` | `Poller.Tick`, both discoverers, the index | one step per libvirt call, the scan, retain, commit; time and processes move between any two |
| `QmpPoller` | `QMPCollector`, and the scan's write of the state | the lock sections of `Collect`, each poll's answer and end |
| `EventPath` | threads and their exit hook, the other event hooks, ring, reader and its failure, channel, consumer, owners, `Close` | one step per hop |
| `KernelProbes` | `RunQueue`, `BlockIO` and `RateLimit` together | |
| `RunQueue` | wake-up, switch and exit hooks, `SetTargets` on `targets` | each hook; `SetTargets` adds, then deletes |
| `BlockIO` | `block_rq_issue`, `block_rq_complete`, requeued, split and evicted requests | issue; lookup and deletion of a completion |
| `RateLimit` | `rate_limited` | read the clock, look up, update |
| `Statistics` | `Counters`, `LibvirtStats` and `VcpuThreads` together | |
| `RateTracker` | `rate` and `sweep`, as operators | |
| `Counters` | one counter of the BPF maps, `SetTargets`, `SetIfaces`, `deleteKeys`, the rates of `EBPFCollector.Collect` | lookup, insertion and second lookup of a program; each map operation of user space |
| `LibvirtStats` | the XML cache, device lists and rates of `LibvirtCollector.Collect` | one step per libvirt call |
| `VcpuThreads` | the list of vCPUs: `mergeLibvirt`, `ProcCollector`, `EBPFCollector` | one step per collector |
| `LatencyHist` | `hist_add` with the making of the entry, its deletion, the copy, `Sub`, `HistWindow.Window` and `Sweep`, `Percentile`; without `max_us` | each map operation and memory access of an update and each word of a copy |
| `KernelLog` | kernel buffer, `Reader`, `FollowKmsg`, `FromKmsg`, `DomainByPID`, the merged OOM alert | one step per record |
| `ProbeLoad` | `Load`, `Close` | one step per probe and phase |
| `RingBuffer`, `Store` | `store` | one step per locked method |
| `Windows` | what readers of the histories are promised, without rings and snapshots | the abstract specification that `Store` implements |
| `Tui` | the Bubble Tea model | one step per message and per render |

Data is abstract: keys, VMs and processes are model values, messages are records
of what the classifiers look at, durations are small integers, histograms have
two slots and counters a small word whose overflow is kept (`Width`). History
variables, marked so where they are declared, record what really happened and
appear in no guard.

`KernelProbes` and `Statistics` compose parts that do not interact: their steps
write different map entries or fields and read nothing that another part writes,
so steps of different parts commute, and every state of a part is reached with
the others at rest. A behaviour therefore chooses a part and takes its steps
only. Within `Statistics`, `Counters` follows a single entry of any of six
kinds, since entries do not affect each other; what other entries do to it,
fill its map, is a choice of every insertion. `RunQueue` and `LatencyHist` treat
full maps in the same way.

Four places where the code is less tidy than one might expect, and which the
models keep:

* `sched_switch` (bpf.c:542) asks for the state of the thread that leaves and not
  for `preempt`. A thread preempted on its way to sleep stays on the run queue
  without a new entry in `runq_start`: the state `preempted` of `RunQueue`. If it was woken
  while it ran, the start of that wake-up is still there and its next latency
  comes out too long.
* `kvm_vcpu_wakeup` (bpf.c:488) counts a vCPU's halts only in an entry that
  `kvm_exit` made before: the kind `halt` of `Counters`.
* The memory of a deleted entry may be used again at once, so a CPU that looked
  the entry up before adds to the next one of the key or to none
  (`late` and `lands` of `LatencyHist`).
* `readEvents` (probe.go:576) ends on any error of the reader while the probes stay
  open; events are then lost until the program restarts (`ReaderFails`).

`Store` maps to `Windows` by reading the rings out (`Slice`): `Upsert` of a new VM
is `List`, `Retain` is `Forget`, `Commit` is `Advance`, and the rest stutters.

## 3. Runs

`tlc -config X.cfg M` repeats one. The instance of each run is its `.cfg`.

| Run | What it shows |
|---|---|
| `engine` | With a condition, an event, the detector, an eBPF source, the poller and a reader racing: a condition never fires before its value was over a threshold for `raise_after` and never resolves early; each occurrence of an event is counted once and its alerts are a window apart, less what a record may be dated back; notices of a condition arrive in order and every subscriber catches up, with a summary of a repeated event unless a newer alert took its place; `Recent` loses no alert between its two lock sections and returns none of the past twice, with a history of two entries. |
| `discovery` | With libvirt calls that fail, are cancelled or are slow, suspended guests and reused PIDs: the grace period is applied exactly; away from its edge no entry of the scan shares its PID and no settled process is lost between libvirt and the scan, which never reports what libvirt owns; no entry names a dead process; a stale claim on a reused PID ends with the grace period. |
| `qmp` | One client per monitor; a result is never replaced by an older one, nor brought back by a poll from before its VM was forgotten; what is shown was true recently; a stuck monitor does not stop the tick. |
| `kernel_probes` | A run-queue latency is never below the real wait, and exact when each wait began with an entry in `runq_start`, with threads that die, IDs that are reused, preemptions and full maps. A block latency is timed from a request in flight to its sector, never too long, and exact for a request alone on its sector. Races let at most 2n-1 events of a key through per gap on n CPUs, and the limiter never closes for longer than the gap. |
| `statistics` | A rate is never negative and stands for no more than happened since the last sample; apart from events that found the map full or a handler that makes no entry, racing insertions lose at most one count per other CPU; a device that is plugged or unplugged is seen within `xmlRefresh`; the thread of a vCPU was its thread less than `threadRefresh` ago; the latency of a VM found by the scan is that of its thread, unless the thread went from one vCPU to another. |
| `event_path` | Events handled within two ticks keep their VM; the exit of a process is reported once, though every thread passes the exit hook and the leader may go first; an exit in the ring is handled unless something was dropped, failed or ends; closing, and a failed read, end both goroutines. |
| `latency_hist` | No sample that found an entry is lost; a window over torn copies stays within what was added; its baseline has the age it should have, and a tick that did not see the key leaves none. |
| `detector` | The lifecycle events tell what happened; of the disk errors none is invented when counters restart or become known, and none is missed while the counter is known. |
| `kernel_log` | Every record is handled or was overwritten; an OOM kill seen by both sources is one alert that keeps the higher severity. |
| `store` | The store implements `Windows`: a history is the last samples of the VM's present life, and all advance together. |
| `tui` | The highlighted row is the selected VM and follows it; no render indexes outside a list. |
| `probe_status` | Refutes a sentence of the documentation: when no probe attaches, the status view lists nothing (`findings`). |

Each module also has a type invariant, and some have properties beside those of
its run: `OwnedOnce`, `HistoryExact` and `ClosedFrozen` of `AlertEngine`, `NoOrphan` and
`PollsEnd` of `QmpPoller`, `StartExact` of `RunQueue`, `StatusExact` and
`NothingLeaks` of `ProbeLoad`, `RecordsRead` of `KernelLog`. They hold on the
instance of the module's run when they take the place of its properties
(`RecordsRead` with `LiveSpec`, `MCPlain` and `MaxTime = 1`).

### Bounds

Every bound is a constant named `Max...` (or a size) and stands in a guard. They
are chosen so that each cycle the properties speak of completes at least once
and, where it matters, twice: the engine's clock covers raising, clearing and
raising again, and its three alerts overflow a history of two; discovery covers
a boot, the loss of libvirt for longer than the grace period and its edge, and
the reuse of the PID by a second boot; rings and buffers of size one or two wrap
several times; the rate limit runs over two gaps; devices and threads change
several times within and beyond a refresh. Two CPUs suffice for the races of a
histogram and of the rate limit, which are between pairs; a counter has three,
so that the bound on what is lost is not the same as one event. The run queue has
one CPU and one thread ID, which two processes use in turn: its handlers touch
the state of their own thread only, and the proof covers any number. Its clock
of three covers a wake-up while running, a preemption and a later wait. The
block layer has two requests and two sectors, a histogram two samples, one
deletion and four ticks (the kind of `blk_dev_hist` is left out of the run: its
entries do what those of `blk_vm_hist` do, short of being deleted), the event path one process of two threads with a ring
and a channel of one. The engine's run has a condition for which higher is
worse; the proofs cover both directions. `RateLimit` assumes that a program runs
for less than a quarter of the gap (eBPF programs are bounded, the gap is
100 ms). Symmetry is used in safety runs only. Deadlock is not checked: the
bounded clocks and counters stop every model.

### Fairness

* `QmpPoller`: the poller goroutine runs, and every poll ends (its connection
  has a deadline, `qmp.go` `query`).
* `EventPath`: the reader goroutine and a `Collect` that has begun run (weak
  fairness). `RunEvents` is strongly fair in both of its cases: it gets `ec.mu`
  however often `Collect` takes it, since a `sync.Mutex` is handed to one that has waited
  long, and `select` picks at random among ready cases, so cancellation is not
  passed over for ever. Nothing is assumed of failures, closing and cancellation.
* `KernelLog` (`RecordsRead` only): the reader runs whenever a read would return,
  and stops when cancelled.

## 4. Where the documentation promises more than the code keeps

Sentences of the documentation, comments included, that TLC refutes. Each is a
property of its module; put in place of the properties of the module's `.cfg`
(with the constant given), TLC prints the counterexample.

| Property | Sentence | What happens |
|---|---|---|
| `StatusListed` (`ProbeLoad`; run `probe_status`) | README.md:47 "The status view (`p`) lists every probe and why it is inactive." | When no probe attaches, `Load` returns an error and the statuses are discarded. |
| `SummaryForEveryRepeat` (`AlertEngine`) | docs/architecture.md:143 "When the window closes on a repeated event, a `summary` transition is emitted with the total." | An event raised after the window and before the next `Evaluate` replaces the alert (alert.go:225), and no summary is emitted. |
| `FiresOnceHeld` (`AlertEngine`) | alert.go:6 conditions "fire once the value has stayed over a threshold for RaiseAfter" | The hold restarts on each change of severity (alert.go:276); a value alternating between warning and critical does not fire. |
| `RepeatsMerged` (`AlertEngine`, `MaxSkew = 3`) | alert.go:4 "repeats with the same key inside the dedup window are merged into one alert with a count" | A record dated in the past sets `Last` back (alert.go:214) and with it the window. |
| `StateOwned` (`QmpPoller`) | docs/architecture.md:47 collectors "only touch the fields they own" | The scan writes the state "running" every tick (scan.go:63) before QMP writes its own; a reader in between sees a paused guest run. |
| `StateDropped` (`RunQueue`) | probe.go:369 `SetTargets` "drops all per-process state of the ones that went away" | Entries of the threads of a process that still lives stay in `runq_start` and `runq_hist`. |
| `TargetsReplaced` (`RunQueue`, `MaxTargets = 1`) | probe.go:369 `SetTargets` "replaces the set of monitored hypervisor processes" | It adds before it deletes and ignores the error of a full map; the process is never retried. |
| `OnePerGap` (`KernelProbes`) | hyperview.bpf.c:20 "at most one event per (tgid,type) per 100ms" | Two CPUs look up before either updates, and both pass. |
| `CarriedPerThread` (`VcpuThreads`) | libvirt.go:280 "carry over per-thread data" | `mergeLibvirt` carries over by position: after a vCPU was unplugged or the VM restarted, a vCPU is shown with the latency of another thread until its own has one. |
| `PercentileInside` (`LatencyHist`) | hist.go:54 "by linear interpolation inside the log2 bucket that contains it" | A torn copy can have a count above the sum of its slots; the result is then 2^27 microseconds. |
| `MigrationEndTold` (`Detector`) | README.md:206 "migration started/finished/failed" | libvirt shows no job once it is over (libvirt.go:430), so its end is not told while the VM stays. |
| `PidsResolved` (`KernelLog`) | docs/architecture.md:159 PIDs "are resolved to VMs, including vCPU thread IDs. At startup, records from the last 10 minutes are replayed." | The replay may run before the first tick fills the store. |
| `CrashReported` (`KernelLog`) | README.md:205 "hypervisor crash in the kernel log" | The crash of a worker thread is dropped when `/proc` no longer has the process. |
| `NoPanic` (`Tui`, `Rows <- MCLowRows`) | docs/architecture.md:172 "Layout is computed from the terminal size" | In a window lower than header and footer `bodyH-2` is negative (detail.go:88) and the slice panics. |

Two statements of `Discovery` hold only with a condition that the documentation
does not have. docs/architecture.md:61 says that the scan reports the processes
libvirt does not own, but libvirt claims a PID only in the states running and
paused (libvirt.go:228): a suspended guest is listed twice, once without its PID, and
what `HandOver` says of VMs that libvirt owns is restricted to the two states. libvirt.go:257 says that the
claim is released so that the scan can take over; the claim and the entry are
timed by different clock readings (libvirt.go:261, collector.go:70), so in a slow
tick at the end of the grace period a process may be listed twice or not at all.
`GraceEdge` is that period; the first half of `HandOver` excludes it.

Two leftovers break no sentence. A completion that is under way while `SetTargets`
cleans up makes the entry of `blk_vm_hist` again, and it stays until a process
with this PID is monitored and leaves. A failed `DomainSetMemoryStatsPeriod` is
not repeated for this run of the VM (libvirt.go:316).

## 5. Proofs

TLAPS proves these for every value of the constants that satisfies the named
assumptions (`ASSUME` in the module that declares them): for the engine
`ConfigAssumption`, the ranges `config.validate` enforces; for `RateLimit` that
programs are short against the gap and that the clock does not wrap; for the
counters that there are finitely many CPUs; for the rest that durations are
numbers and markers are none. The bounds of the runs (`MaxTime`, `MaxAlerts`, ...) are
constants too, so a proof covers every bound. `PROJECT.json` lists the theorems
with the properties they prove.

| Module | About | Theorems |
|---|---|---|
| `AlertEngineProofs` | `AlertEngine` | `TypeCorrect`, `RaiseHeld`, `ClearHeld` |
| `AlertTableProofs` | `AlertEngine` | `EventsApart` |
| `AlertReportProofs` | `AlertEngine`, `AlertReader` | `CaughtUp`, `ToldInOrder`, `CallsCounted`, `RecentLosesNothing` |
| `DiscoveryProofs` | `Discovery` | `GraceAlwaysExact`, `GhostsNever`, `StaleClaimsEnd`, `HandOverAlways` |
| `CollectorProofs` | `RingBuffer`, `Store`, `QmpPoller`, `VcpuThreads` | `PushRepresents`, `SliceExact`, `HistoryCorrect`, `StoreImplementsWindows`, `OnePollAlways`, `AnswersNeverRegress`, `ThreadsAreRecent`, `LatencyAlwaysOwn` |
| `KernelProbesProofs` | `KernelProbes`, `ProbeLoad` | `WaitsTrue`, `StartsTrue`, `LatencyOfRequest`, `SuppressedByRecent`, `NeverLeaks` |
| `StatisticsProofs` | `Counters`, `LibvirtStats`, `Statistics` | `RatesAlwaysTrue`, `FewAreLost`, `HotplugAlwaysSeen` |
| `KernelLogProofs` | `KernelLog`, `Detector` | `EveryRecord`, `KillAlertedOnce`, `SeverityNeverFalls`, `EventsTellTheStory`, `ErrorsHappened`, `ErrorsAreTold` |

The inductive invariants, and why the properties need them:

* Engine, holds. The properties speak of what was observed, the code of
  `pendingAt` and `belowAt`. `HoldInv` ties them: while a severity is pending the
  value has been over a threshold since `pendingAt` or before, and while
  `belowAt` is set it has been under the clear level since then or before. An
  alert is raised or resolved only by a sample for which the hold measured from
  these times is over.
* Engine, tables. `TableInv`: each alert is owned by one table entry (`OwnedOnce`), an event
  alert that left its window did so a dedup period after its last occurrence, with a
  summary or a successor if it had repeats, and the history holds ended alerts,
  none twice, and misses one only when full. `DedupSpacing` is not inductive
  without the second, nor `RecentExact` without the third.
* Engine, notices. `NoticeInv` and `CondNotices`: every alert was told of or is in
  some goroutine's list, conditions in the poller's only, and that list continues
  what subscribers heard last (`Story`). `TallyInv` keeps a running count per key, since a
  sum over a sequence cannot be unfolded by induction.
* Discovery. `DiscInv` orders the clock readings of a tick (`TimeInv`), says which
  processes the cached index can miss (`IndexInv`), which entries the grace
  period keeps (`AliveInv`), what the scan found (`ScanInv`) and how old a claim
  is (`ClaimInv`, `OwnInv`). The four properties follow from it at the end of a tick.
* Store. `Represents(r, log)` says that, read from the write position, the ring
  holds the end of the log; `PushRepresents` carries it across the wrap. With it
  for every ring, a `Slice` after a push is the window before it, shifted, so every
  step of the store is a step of `Windows` or leaves its variables alone.
* QMP. `OnePoll` is inductive as it stands. `AnswersAdvance` needs `AnswerInv`,
  the answer a poll brings is not older than the stored one, which depends on there
  being one poll; and `ForgotInv`, it is not older than the last time its VM was
  forgotten, because `Collect` forgets no VM that is being polled.
* vCPU threads. `ThreadsInv`: a cached thread is the one of its vCPU or was after
  the list was read, a thread in the store is or was the one of its vCPU, and a
  latency beside another thread is of one that moved.
* Run queue. `SchedInv`: no start time lies in the future, that of a waiting
  thread is not later than the time since when it waits, and the same if its
  queueing made the entry. `preempted` threads are why it is not always the same.
* Block layer and rate limit. `BlockInv` adds that two requests on one sector are
  both known to share it, so that nobody else's completion deletes the entry of a
  lone one. `LimitInv` says that the entry is the time of an event that passed;
  `Unsigned`, that a difference below the gap was not negative.
* Loader. `LoadInv`: whatever is open is in the fields of `Probes`, which is all
  that `Close` knows of, except the program that is about to be attached.
* Counters. `SampleInv`: an entry exceeds the last sample by at most the events
  handled since. `PathInv` says where a CPU can be while the entry exists or not,
  and `LostInv` counts: what is missing, with the CPUs that missed the entry and
  have not yet tried to insert, is less than the number of CPUs.
* libvirt statistics. `DevInv`: the cached list is that of the VM as it is, or the
  VM changed after it was fetched; a sample is not further behind than the bytes
  received since.
* Kernel log. `LogInv`: a record is read, lost or still in the buffer (`BufferInv`), a kill
  has one record and at most one event of one time (`KillInv`), and the alert that the
  second report belongs to is still open (`OnceInv`).
* Detector. `DetectorInv`: between ticks `prev` is what the store lists and the
  events tell what is in `prev`; the errors reported, those the coming `Run` will
  report and those since the last snapshot are at most all that happened, and are
  all of them while the counter is known (`ToldOf`).

Only model-checked: `FewPerWindow`, which needs induction over the sum of a
window; `ShownWasReal`; the properties of `EventPath`, `LatencyHist` and `Tui`;
`StatusExact`; and, by nature of the prover, the liveness properties
`TicksComplete`, `Delivered`, `CloseStops`, `PollsEnd` and `RecordsRead`.

## 6. Not modelled

The maximum of a histogram (`max_us` and what `Sub` makes of it); interface
errors and hugetlb failures in the detector; parsing of command lines, XML, JSON
and tracepoint formats; the division in a rate, which the models keep as a pair;
memory statistics, which are copied; the host collector, which only reads;
rendering and formatting; the sinks and the Prometheus endpoint, which only read;
generated bindings. `rateTracker.delta` has no caller.
