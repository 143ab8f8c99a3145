---------------------------- MODULE VcpuThreads ----------------------------
(***************************************************************************)
(* How a scheduling latency finds its vCPU.  The three collectors that run *)
(* one after the other in a tick write the vCPUs of a VM: the one that     *)
(* found it (libvirt.go, mergeLibvirt) gives the indexes, ProcCollector    *)
(* (proc.go) the thread of each index, from a list cached per PID for      *)
(* ThreadRefresh, and EBPFCollector (ebpf.go) the latency of each thread.  *)
(* The VM is stopped, restarted and given or deprived of vCPUs meanwhile,  *)
(* and PIDs and thread IDs are used again.  A latency is represented by    *)
(* the thread on which it was measured, 0 being none.                      *)
(***************************************************************************)
EXTENDS Integers, FiniteSets, Functions

CONSTANTS Pids, Tids, Indexes,
  ThreadRefresh, \* threadRefresh
  ThrTime, MaxChanges  \* bounds: time, changes of the VM

(* vCPUs are numbered from 0; 0 is no PID and no thread. *)
ThreadsAssumption ==
  /\ ThreadRefresh \in Nat \ {0} /\ 0 \notin Pids /\ 0 \notin Tids
  /\ Cardinality(Indexes) \in Nat /\ Indexes = 0 .. Cardinality(Indexes) - 1

VARIABLES
  thrClock,
  source,   \* who found the VM: "libvirt" or "scan"
  vm,       \* its PID, 0 when it is off, which run of it this is, and the thread of
            \* each of its vCPUs
  changes,  \* number of changes of the VM
  hist,     \* threads with an entry in runq_hist
  step,     \* the collector that is next
  now,      \* time.Now of the ProcCollector
  pid, run, \* the PID in the store, and the run of the VM that it is about
  vcpus,    \* the vCPUs in the store
  threads,  \* pc.threads: PID -> index -> thread, with the time it was read
  until     \* history: when a thread was last the one of a PID's vCPU

vcpuThreads == <<thrClock, source, vm, changes, hist, step, now, pid, run, vcpus, threads, until>>
env == <<thrClock, source, vm, changes, hist, until>>

(* Type correctness. *)
ThreadsTypeOK ==
  /\ thrClock \in Nat /\ now \in Nat /\ changes \in Nat /\ hist \subseteq Tids
  /\ source \in {"libvirt", "scan"} /\ step \in {"discover", "proc", "ebpf"}
  /\ vm.pid \in Pids \cup {0} /\ DOMAIN vm.tids \subseteq Indexes /\ IsInjective(vm.tids)
  /\ pid \in Pids \cup {0} /\ vm.run \in Nat /\ run \in Nat
  /\ \A i \in DOMAIN vcpus :
       vcpus[i] \in [index : Indexes, tid : Tids \cup {0}, lat : Tids \cup {0}]
  /\ DOMAIN threads \subseteq Pids
  /\ until \in [Pids \X Indexes \X Tids -> -ThreadRefresh .. ThrTime]

Off == [pid |-> 0, run |-> 0, tids |-> <<>>]

ThreadsInit ==
  /\ thrClock = 0 /\ source \in {"libvirt", "scan"} /\ vm = Off /\ changes = 0 /\ hist = {}
  /\ step = "discover" /\ now = 0 /\ pid = 0 /\ run = 0 /\ vcpus = <<>> /\ threads = <<>>
  /\ until = [x \in Pids \X Indexes \X Tids |-> -ThreadRefresh]
-----------------------------------------------------------------------------
(* The host. *)
ThrPass ==
  /\ thrClock < ThrTime /\ thrClock' = thrClock + 1
  /\ UNCHANGED <<source, vm, changes, hist, step, now, pid, run, vcpus, threads, until>>

Threads(v) == {v.tids[i] : i \in DOMAIN v.tids}

(* sched_process_exit drops the latencies of threads that end. *)
Becomes(v) ==
  /\ changes < MaxChanges /\ changes' = changes + 1
  /\ vm' = v /\ hist' = hist \cap Threads(v)
  /\ until' = [x \in DOMAIN until |->
       IF x[1] = vm.pid /\ x[2] \in DOMAIN vm.tids /\ vm.tids[x[2]] = x[3] THEN thrClock ELSE until[x]]
  /\ UNCHANGED <<thrClock, source, step, now, pid, run, vcpus, threads>>

VmStart ==
  /\ vm.pid = 0
  /\ \E p \in Pids, n \in 1 .. Cardinality(Indexes), t \in [Indexes -> Tids] :
       /\ IsInjective(t)
       /\ Becomes([pid |-> p, run |-> changes + 1, tids |-> [i \in 0 .. n - 1 |-> t[i]]])

VmStop == vm.pid # 0 /\ Becomes(Off)

Hotplug ==
  /\ vm.pid # 0
  /\ \E i \in Indexes \ DOMAIN vm.tids, t \in Tids \ Threads(vm) :
       Becomes([vm EXCEPT !.tids = [j \in DOMAIN @ \cup {i} |-> IF j = i THEN t ELSE @[j]]])

Unplug ==
  /\ Cardinality(DOMAIN vm.tids) > 1
  /\ \E i \in DOMAIN vm.tids :
       Becomes([vm EXCEPT !.tids = [j \in DOMAIN @ \ {i} |-> @[j]]])

Measure ==
  /\ \E t \in Threads(vm) \ hist : hist' = hist \cup {t}
  /\ UNCHANGED <<thrClock, source, vm, changes, step, now, pid, run, vcpus, threads, until>>
-----------------------------------------------------------------------------
(* The elements of S in ascending order. *)
Rank(S, i) == Cardinality({j \in S : j <= i})
Ordered(S) == [p \in {Rank(S, i) : i \in S} |-> CHOOSE i \in S : Rank(S, i) = p]

(* mergeLibvirt: what was known at a position is carried over. *)
MergeLibvirt(indexes, old) ==
  [i \in DOMAIN indexes |->
     IF i \in DOMAIN old THEN [old[i] EXCEPT !.index = indexes[i]]
     ELSE [index |-> indexes[i], tid |-> 0, lat |-> 0]]

(* The VM is found, or found to be off.  The scan leaves the vCPUs alone,  *)
(* but lists every run of a VM under an ID of its own.                     *)
Discover ==
  /\ step = "discover" /\ thrClock > now /\ step' = "proc"
  /\ pid' = vm.pid /\ run' = vm.run
  /\ vcpus' = IF vm.pid = 0 THEN <<>>
              ELSE IF source = "libvirt" THEN MergeLibvirt(Ordered(DOMAIN vm.tids), vcpus)
              ELSE IF vm.run = run THEN vcpus ELSE <<>>
  /\ UNCHANGED <<env, now, threads>>

Live == pid # 0 /\ vm.pid = pid

(* Mutant: the list of a PID is never read again. *)
CachedForever == pid \in DOMAIN threads

Cached == pid \in DOMAIN threads /\ thrClock - threads[pid].fetched < ThreadRefresh

(* vcpuThreads, whose list is empty when it cannot be read. *)
VcpuThreads(ok) ==
  IF Cached THEN threads[pid]
  ELSE [tids |-> IF ok THEN vm.tids ELSE <<>>, fetched |-> thrClock]

TidOf(vt, i) == IF i \in DOMAIN vt.tids THEN vt.tids[i] ELSE 0

(* Mutant: latencies stay with the position. *)
ThreadVcpusAnyTid(vt) ==
  LET own == Ordered(DOMAIN vt.tids)
  IN  [i \in DOMAIN own |->
         [index |-> own[i], tid |-> vt.tids[own[i]], lat |-> IF i \in DOMAIN vcpus THEN vcpus[i].lat ELSE 0]]

(* threadCPU: the vCPUs of a VM that libvirt does not know, with what is   *)
(* known of the same thread at the same position.                          *)
ThreadVcpus(vt) ==
  LET own == Ordered(DOMAIN vt.tids)
  IN  [i \in DOMAIN own |->
         LET new == [index |-> own[i], tid |-> vt.tids[own[i]], lat |-> 0]
         IN  IF i \in DOMAIN vcpus /\ vcpus[i].tid = new.tid THEN vcpus[i] ELSE new]

(* ProcCollector.Collect: a process that is gone is skipped; lists of PIDs *)
(* that are not in the store are dropped.                                  *)
ProcCollect(ok) ==
  LET vt == VcpuThreads(ok)
      list == IF source = "libvirt" THEN vcpus ELSE ThreadVcpus(vt)
  IN  /\ step = "proc" /\ step' = "ebpf" /\ now' = thrClock
      /\ IF Live
         THEN /\ vcpus' = [i \in DOMAIN list |-> [list[i] EXCEPT !.tid = TidOf(vt, list[i].index)]]
              /\ threads' = [p \in {pid} |-> vt]
         ELSE /\ threads' = [p \in DOMAIN threads \cap {pid} |-> threads[p]]
              /\ UNCHANGED vcpus
      /\ UNCHANGED <<env, pid, run>>

(* EBPFCollector.Collect. *)
EbpfCollect ==
  /\ step = "ebpf" /\ step' = "discover"
  /\ vcpus' = IF pid = 0 THEN vcpus
              ELSE [i \in DOMAIN vcpus |->
                      IF vcpus[i].tid \in hist THEN [vcpus[i] EXCEPT !.lat = vcpus[i].tid] ELSE vcpus[i]]
  /\ UNCHANGED <<env, now, pid, run, threads>>

ThreadsNext ==
  \/ ThrPass \/ VmStart \/ VmStop \/ Hotplug \/ Unplug \/ Measure
  \/ Discover \/ EbpfCollect \/ \E ok \in BOOLEAN : ProcCollect(ok)

ThreadsSpec == ThreadsInit /\ [][ThreadsNext]_vcpuThreads
-----------------------------------------------------------------------------
(* When the ProcCollector has found the process, the thread shown for a    *)
(* vCPU is, or less than ThreadRefresh ago was, the thread of this vCPU in *)
(* a process with this PID, whatever was plugged, restarted or numbered    *)
(* anew since (vcpuThreads caches by PID, Mutate assigns by index).        *)
ThreadRecent ==
  [][step = "proc" /\ step' = "ebpf" /\ Live => \A i \in DOMAIN vcpus' :
       LET v == vcpus'[i] IN
       v.tid # 0 => \/ v.index \in DOMAIN vm.tids /\ vm.tids[v.index] = v.tid
                    \/ thrClock - until[<<pid, v.index, v.tid>>] < ThreadRefresh]_vcpuThreads

(* Thread t is or was the one of vCPU i in a process with PID p; and it    *)
(* was the thread of one vCPU and then of another.                         *)
Had(p, i, t) ==
  \/ until[<<p, i, t>>] >= 0
  \/ vm.pid = p /\ i \in DOMAIN vm.tids /\ vm.tids[i] = t
Moved(p, t) == \E i, j \in Indexes : i # j /\ Had(p, i, t) /\ Had(p, j, t)

(* Of a VM that libvirt does not know, a latency is only shown next to the *)
(* thread on which it was measured (ProcCollector.Collect keeps what eBPF  *)
(* wrote only for the same thread), unless the thread's ID went to another *)
(* vCPU: the entry that is kept has the old index, by which Mutate then    *)
(* assigns the thread.                                                     *)
LatencyOwn ==
  step = "discover" /\ source = "scan" => \A i \in DOMAIN vcpus :
    vcpus[i].lat \in {0, vcpus[i].tid} \/ Moved(pid, vcpus[i].lat)

(* libvirt.go: mergeLibvirt is to "carry over per-thread data". *)
CarriedPerThread ==
  step = "discover" => \A i \in DOMAIN vcpus : vcpus[i].tid # 0 => vcpus[i].lat \in {0, vcpus[i].tid}
=============================================================================
