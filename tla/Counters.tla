------------------------------ MODULE Counters ------------------------------
(***************************************************************************)
(* The way of a counter from the kernel to the screen.  BPF programs count *)
(* events of monitored processes and interfaces on all CPUs, in a map entry*)
(* that the first event creates; SetTargets and SetIfaces (probe.go) say   *)
(* what is monitored and delete the entries of what no longer is; once per *)
(* tick EBPFCollector.Collect reads the maps and forms rates.  Entries do  *)
(* not affect each other, so the module follows one, of any of the kinds   *)
(*   "drop"   skb_drops of an interface and reason (count_drop)            *)
(*   "exit"   vm_exits, vm_uexits of a process and reason (count_key)      *)
(*   "vm"     vm_stats of a process (vm_counters_get)                      *)
(*   "vcpu"   vcpu_stats of a thread, which only that thread writes        *)
(*   "halt"   halt_waits in the same entry, which the thread's exits make  *)
(*   "error"  blk_errors of a device, always monitored and never deleted   *)
(* An addition to an entry that was found is one step with the lookup.  A  *)
(* map may be full with other entries; no program looks at the error of an *)
(* insertion, and SetTargets and SetIfaces do not either.                  *)
(***************************************************************************)
EXTENDS RateTracker, FiniteSets

CONSTANTS CPUs, Kinds, None,
  MaxHits,   \* bound: monitored events
  MaxTicks   \* bound: ticks of the collector

CountersAssumption ==
  /\ None \notin Nat /\ None \notin [inc : Int, dt : Int, of : Nat]
  /\ IsFiniteSet(CPUs) /\ CPUs # {}

VARIABLES
  kind,
  tracked,   \* targets or target_ifaces has the key
  count,     \* the entry's value, summed over CPUs; None when there is no entry
  cpu,       \* what each CPU does, and whether the entry was deleted meanwhile
  known,     \* the key is in p.targets or p.ifaces
  want,      \* and in the set the collector asks for
  call,      \* where the collector is
  found,     \* deleteKeys has seen the entry
  tick,      \* number of the tick, for time.Now
  rates,     \* ec.rates
  shown,     \* the rate this tick formed, and history: the events it may stand for
  hits,      \* number of monitored events
  counted,   \* history: events handled since the counter was last sampled
  passed,    \* history: monitored events since the entry was last deleted
  missed     \* history: those of them that had no entry to be counted in

counters == <<kind, tracked, count, cpu, known, want, call, found, tick, rates, shown,
          hits, counted, passed, missed>>
kernel == <<tracked, count, cpu, hits, counted, passed, missed>>
user == <<known, want, call, found, tick, rates, shown>>

Idle == [at |-> "idle", late |-> FALSE]

(* Type correctness. *)
CountersTypeOK ==
  /\ kind \in Kinds /\ count \in Nat \cup {None}
  /\ hits \in Nat /\ counted \in Nat /\ passed \in Nat /\ missed \in Nat
  /\ tracked \in BOOLEAN /\ known \in BOOLEAN /\ want \in BOOLEAN /\ found \in BOOLEAN
  /\ cpu \in [CPUs -> [at : {"idle", "lookup", "insert", "again", "exit"}, late : BOOLEAN]]
  /\ call \in {"idle", "set", "scan", "clean", "read"} /\ tick \in Nat
  /\ DOMAIN rates \subseteq {kind}
  /\ rates \in [DOMAIN rates -> [v : Nat, t : Nat, new : BOOLEAN]]
  /\ shown \in {None} \cup [inc : Int, dt : Int, of : Nat]

CountersInit ==
  /\ kind \in Kinds /\ tracked = (kind = "error") /\ count = None /\ cpu = [c \in CPUs |-> Idle]
  /\ known = FALSE /\ want = FALSE /\ call = "idle" /\ found = FALSE /\ tick = 0
  /\ rates = <<>> /\ shown = None /\ hits = 0 /\ counted = 0 /\ passed = 0 /\ missed = 0
-----------------------------------------------------------------------------
(* The kernel. *)
PerThread == {"vcpu", "halt"}
AllIdle == \A c \in CPUs : cpu[c].at = "idle"

Goes(c, at) == cpu' = [cpu EXCEPT ![c].at = at]
Done(c) == cpu' = [cpu EXCEPT ![c] = Idle] /\ counted' = counted + 1
Miss(c) == missed' = IF cpu[c].late THEN missed ELSE missed + 1

(* An event passes is_target, or the lookup in target_ifaces. *)
Hit(c) ==
  /\ cpu[c].at = "idle" /\ tracked /\ hits < MaxHits
  /\ kind \in PerThread => AllIdle
  /\ Goes(c, "lookup") /\ hits' = hits + 1 /\ passed' = passed + 1
  /\ UNCHANGED <<kind, tracked, count, counted, missed, user>>

(* kvm_vcpu_wakeup makes no entry for the thread. *)
Lookup(c) ==
  /\ cpu[c].at = "lookup"
  /\ \/ count # None /\ Done(c) /\ count' = count + 1 /\ UNCHANGED missed
     \/ count = None /\ kind = "halt" /\ Done(c) /\ Miss(c) /\ UNCHANGED count
     \/ count = None /\ kind # "halt" /\ Goes(c, "insert") /\ UNCHANGED <<count, counted, missed>>
  /\ UNCHANGED <<kind, tracked, hits, passed, user>>

(* Mutant: the insertion replaces an entry made meanwhile. *)
InsertAny(c, full) ==
  /\ cpu[c].at = "insert"
  /\ \/ kind = "vm" /\ Goes(c, "again") /\ count' = 0 /\ UNCHANGED <<counted, missed>>
     \/ kind # "vm" /\ Done(c) /\ count' = 1 /\ UNCHANGED missed
  /\ UNCHANGED <<kind, tracked, hits, passed, user>>

(* BPF_NOEXIST: an entry made meanwhile stays as it is; a full map takes   *)
(* no entry.  vm_counters_get inserts a zero and goes on.                  *)
Insert(c, full) ==
  /\ cpu[c].at = "insert"
  /\ IF kind = "vm" THEN Goes(c, "again") /\ UNCHANGED counted ELSE Done(c)
  /\ IF count = None /\ ~full THEN count' = (IF kind = "vm" THEN 0 ELSE 1) ELSE UNCHANGED count
  /\ IF count = None /\ full /\ kind # "vm" THEN Miss(c) ELSE UNCHANGED missed
  /\ UNCHANGED <<kind, tracked, hits, passed, user>>

(* The second lookup of vm_counters_get, and the callers' test of it. *)
LookupAgain(c) ==
  /\ cpu[c].at = "again" /\ Done(c)
  /\ \/ count # None /\ count' = count + 1 /\ UNCHANGED missed
     \/ count = None /\ Miss(c) /\ UNCHANGED count
  /\ UNCHANGED <<kind, tracked, hits, passed, user>>

(* kvm_exit of the thread makes the entry in which its halts are counted,  *)
(* in two steps, the target check and the insertion.                       *)
KvmExit(c) ==
  /\ kind = "halt" /\ tracked /\ AllIdle /\ Goes(c, "exit")
  /\ UNCHANGED <<kind, tracked, count, hits, counted, passed, missed, user>>

KvmExitCount(c) ==
  /\ cpu[c].at = "exit" /\ cpu' = [cpu EXCEPT ![c] = Idle]
  /\ count' \in IF count = None THEN {None, 0} ELSE {count}
  /\ UNCHANGED <<kind, tracked, hits, counted, passed, missed, user>>

(* Deleting the entry, by whomever, while events may be on their way. *)
Forget ==
  /\ count' = None /\ passed' = 0 /\ missed' = 0
  /\ cpu' = [c \in CPUs |-> [cpu[c] EXCEPT !.late = @ \/ cpu[c].at # "idle"]]

(* sched_process_exit of the thread; a thread with its ID may come later. *)
ThreadExit ==
  /\ kind \in PerThread /\ tracked /\ AllIdle
  /\ Forget
  /\ UNCHANGED <<kind, tracked, hits, counted, user>>
-----------------------------------------------------------------------------
(* EBPFCollector.Collect. *)
Begin(w) ==
  /\ call = "idle" /\ tick < MaxTicks
  /\ tick' = tick + 1 /\ want' = w
  /\ call' = IF kind = "error" THEN "read" ELSE "set"
  /\ UNCHANGED <<kind, kernel, known, found, rates, shown>>

(* The updates and deletions of SetTargets and SetIfaces.  An update may   *)
(* find the map full; SetIfaces repeats it when the interface goes to      *)
(* another process.                                                        *)
SetTracked ==
  /\ call = "set"
  /\ tracked' \in CASE known /\ ~want -> {FALSE}
                    [] want /\ ~known -> BOOLEAN
                    [] want /\ known /\ kind = "drop" -> {tracked, TRUE}
                    [] OTHER -> {tracked}
  /\ known' = want
  /\ call' = IF ~known \/ want \/ kind \in PerThread THEN "read"
             ELSE IF kind = "vm" THEN "clean" ELSE "scan"
  /\ found' = (kind = "vm")
  /\ UNCHANGED <<kind, count, cpu, hits, counted, passed, missed, want, tick, rates, shown>>

(* deleteKeys: the keys are collected first, and then deleted. *)
Scan ==
  /\ call = "scan" /\ call' = "clean" /\ found' = (count # None)
  /\ UNCHANGED <<kind, kernel, known, want, tick, rates, shown>>

Clean ==
  /\ call = "clean" /\ call' = "read"
  /\ IF found THEN Forget ELSE UNCHANGED <<count, cpu, passed, missed>>
  /\ UNCHANGED <<kind, tracked, hits, counted, known, want, found, tick, rates, shown>>

(* The readers of the maps, which add up the values of the CPUs; to rates, *)
(* an entry that is missing is zero.                                       *)
Counted == IF count = None THEN 0 ELSE count

(* Drops are read off the map whatever is monitored, exits for the targets *)
(* only; the counters of a VM or thread without an entry read as zero, and *)
(* of block errors only the total is shown.                                *)
Read ==
  LET sample == CASE kind = "drop" -> count # None
                  [] kind = "exit" -> want /\ count # None
                  [] kind = "error" -> FALSE
                  [] OTHER -> want
      r == Rate(rates, kind, Counted, tick)
  IN  /\ call = "read" /\ call' = "idle"
      /\ rates' = Swept(IF sample THEN Sampled(rates, kind, Counted, tick) ELSE rates)
      /\ shown' = IF sample THEN [inc |-> r.inc, dt |-> r.dt, of |-> counted] ELSE None
      /\ counted' = IF sample THEN 0 ELSE counted
      /\ UNCHANGED <<kind, tracked, count, cpu, hits, passed, missed, known, want, found, tick>>

CountersNext ==
  \/ \E c \in CPUs :
       \/ Hit(c) \/ Lookup(c) \/ LookupAgain(c) \/ KvmExit(c) \/ KvmExitCount(c)
       \/ \E full \in BOOLEAN : Insert(c, full)
  \/ ThreadExit
  \/ \E w \in BOOLEAN : Begin(w)
  \/ SetTracked \/ Scan \/ Clean \/ Read

CountersSpec == CountersInit /\ [][CountersNext]_counters
-----------------------------------------------------------------------------
(* A rate is never negative and never stands for more events than there    *)
(* were since the counter was last sampled, however entries were deleted   *)
(* and made anew in between, left over or taken for zero (rate, sweep,     *)
(* SetTargets, SetIfaces).                                                 *)
NoPhantom == shown # None => shown.inc \in 0 .. shown.of

OnTheWay == {c \in CPUs : cpu[c].at \in {"lookup", "insert", "again"} /\ ~cpu[c].late}

(* Of the monitored events since an entry was deleted all are counted in   *)
(* it, but those that found the map full or came before the entry that     *)
(* their handler does not make, and those of CPUs that missed the entry at *)
(* once with the one that made it: at most one per other CPU, and none     *)
(* where the entry is made before it is counted in or by one thread only   *)
(* (count_drop, count_key, vm_counters_get, kvm_exit, kvm_vcpu_wakeup,     *)
(* block_rq_complete).                                                     *)
FewLost ==
  passed - missed - Counted - Cardinality(OnTheWay)
    <= IF kind \in PerThread \cup {"vm"} THEN 0 ELSE Cardinality(CPUs) - 1
=============================================================================
