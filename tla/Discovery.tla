----------------------------- MODULE Discovery -----------------------------
(***************************************************************************)
(* Which VMs exist: Poller.Tick (internal/collect/collector.go) with its   *)
(* two discoverers, LibvirtCollector (libvirt.go) and ScanCollector        *)
(* (scan.go), the ProcessIndex they share (discover.go) and the entries of *)
(* the DomainStore (internal/store/domain.go).                             *)
(*                                                                         *)
(* The environment boots and stops hypervisor processes (PIDs are reused,  *)
(* start times are not), changes the state libvirt reports and lets time   *)
(* pass between any two steps of a tick.  A libvirt call may fail at any   *)
(* time.  A libvirt domain is identified by its UUID, the VM itself here;  *)
(* the process scan names an entry after the PID and the start time.       *)
(***************************************************************************)
EXTENDS Integers, Functions

CONSTANTS
  Managed,       \* the VMs libvirt runs
  Unmanaged,     \* the VMs started without libvirt
  NoPidfile,     \* libvirt VMs whose pidfile cannot be read
  Pids,          \* host PIDs
  Grace,         \* discoveryGrace
  ScanInterval,  \* interval of the ProcessIndex
  States,        \* libvirt states of a domain that has a process
  MaxLag,        \* how long a tick may take
  MaxBoots,      \* bound on process starts
  MaxTime        \* bound on the clock

VMs == Managed \cup Unmanaged
Never == -1 - Grace
Starts == 1 .. MaxBoots

(* UUIDs are not of the form pid-<PID>-<start>, no process has the PID 0,  *)
(* and main.go scans every five seconds.                                   *)
ASSUME DiscoveryAssumption ==
  /\ Managed \cap Unmanaged = {} /\ NoPidfile \subseteq Managed
  /\ Managed \cap (Pids \X Starts) = {} /\ 0 \notin Pids
  /\ Grace \in Nat /\ ScanInterval \in Nat \ {0} /\ MaxTime \in Nat
  /\ MaxBoots \in Nat /\ MaxLag \in Nat

VARIABLES
  clock,      \* the wall clock
  procs,      \* running hypervisor processes: [vm, pid, start, since]
  boots,      \* number of process starts so far; the start times
  vmState,    \* the state libvirt has for each of its VMs
  cancelled,  \* ctx is cancelled
  index,      \* ProcessIndex.procs and lastScan
  libvirt,    \* LibvirtCollector: claimed PIDs (lc.pids) and lastOK
  lastAlive,  \* Poller.lastAlive: [ids, at] of each discoverer
  store,      \* DomainStore.domains: the PID and state of each entry
  tick,       \* locals of the running tick
  held,       \* history variable: tick that last saw a libvirt VM, or Never
  ended       \* history variable: when each process exited, or Never

env == <<procs, boots, vmState, cancelled, ended>>
vars == <<clock, env, index, libvirt, lastAlive, store, tick, held>>

Time == 0 .. MaxTime
Process == [vm : VMs, pid : Pids, start : Starts, since : Time]
ScanID(p) == <<p.pid, p.start>>
IDs == Managed \cup (Pids \X Starts)
Phases == {"idle", "libvirt", "domains", "scan", "retain", "commit", "stopped"}
Entry == [pid : Pids \cup {0}, st : States \cup {"running", "shut off"}]

(* Type correctness: processes, the PID claims of libvirt, the last        *)
(* reports of the discoverers and the store entries stay within their      *)
(* domains.                                                                *)
TypeOK ==
  /\ clock \in Time /\ boots \in 0 .. MaxBoots
  /\ procs \subseteq Process
  /\ vmState \in [Managed -> States \cup {"shut off"}]
  /\ cancelled \in BOOLEAN
  /\ index \in [procs : SUBSET Process, at : Time \cup {Never - ScanInterval}]
  /\ libvirt \in [pids : [Managed -> Pids \cup {0}], ok : Time \cup {Never}]
  /\ lastAlive \in [{"libvirt", "kvmscan"} ->
                      [ids : SUBSET IDs, at : Time \cup {Never}]]
  /\ DOMAIN store \subseteq IDs /\ \A i \in DOMAIN store : store[i] \in Entry
  /\ tick \in [phase : Phases, start : Time \cup {Never}, now : Time,
               alive : SUBSET IDs, todo : SUBSET Managed,
               found : SUBSET Managed, pids : [Managed -> Pids \cup {0}]]
  /\ held \in [Managed -> Time \cup {Never}]
  /\ ended \in [Starts -> Time \cup {Never}]

NoPids == [v \in Managed |-> 0]

Init ==
  /\ clock = 0
  /\ procs = {} /\ boots = 0
  /\ vmState = [v \in Managed |-> "shut off"]
  /\ cancelled = FALSE
  /\ index = [procs |-> {}, at |-> Never - ScanInterval]
  /\ libvirt = [pids |-> NoPids, ok |-> Never]
  /\ lastAlive = [d \in {"libvirt", "kvmscan"} |-> [ids |-> {}, at |-> Never]]
  /\ store = <<>>
  /\ tick = [phase |-> "idle", start |-> Never, now |-> 0, alive |-> {},
             todo |-> {}, found |-> {}, pids |-> NoPids]
  /\ held = [v \in Managed |-> Never]
  /\ ended = [i \in Starts |-> Never]
-----------------------------------------------------------------------------
(* The environment. *)

Up(v) == \E p \in procs : p.vm = v

Boot(v, pid) ==
  /\ ~Up(v) /\ boots < MaxBoots /\ \A p \in procs : p.pid # pid
  /\ boots' = boots + 1
  /\ procs' = procs \cup
       {[vm |-> v, pid |-> pid, start |-> boots + 1, since |-> clock]}
  /\ vmState' = IF v \in Managed THEN [vmState EXCEPT ![v] = "running"]
                ELSE vmState
  /\ UNCHANGED <<clock, cancelled, ended, index, libvirt, lastAlive, store,
                 tick, held>>

Exit(p) ==
  /\ procs' = procs \ {p}
  /\ vmState' = IF p.vm \in Managed THEN [vmState EXCEPT ![p.vm] = "shut off"]
                ELSE vmState
  /\ ended' = [ended EXCEPT ![p.start] = clock]
  /\ UNCHANGED <<clock, boots, cancelled, index, libvirt, lastAlive, store,
                 tick, held>>

ChangeState(v, s) ==
  /\ Up(v) /\ vmState[v] # s
  /\ vmState' = [vmState EXCEPT ![v] = s]
  /\ UNCHANGED <<clock, procs, boots, cancelled, ended, index, libvirt,
                 lastAlive, store, tick, held>>

(* Run's select returns at once when ctx is cancelled. *)
Pass ==
  /\ clock < MaxTime
  /\ IF tick.phase = "idle" THEN ~cancelled ELSE clock - tick.start < MaxLag
  /\ clock' = clock + 1
  /\ UNCHANGED <<env, index, libvirt, lastAlive, store, tick, held>>

Cancel ==
  /\ ~cancelled /\ cancelled' = TRUE
  /\ UNCHANGED <<clock, procs, boots, vmState, ended, index, libvirt,
                 lastAlive, store, tick, held>>
-----------------------------------------------------------------------------
(* Mutant: between scans a process is kept while its PID exists. *)
RefreshByPid(now) ==
  IF now - index.at < ScanInterval
  THEN [index EXCEPT !.procs = {p \in @ : \E q \in procs : q.pid = p.pid}]
  ELSE [procs |-> procs, at |-> now]

(* ProcessIndex.Refresh: a full scan when the interval has elapsed,        *)
(* otherwise the processes that exited or whose PID was reused are dropped.*)
Refresh(now) ==
  IF now - index.at < ScanInterval
  THEN [index EXCEPT !.procs = @ \cap procs]
  ELSE [procs |-> procs, at |-> now]

(* DomainStore.Upsert of a set of entries. *)
Upsert(new) ==
  [i \in DOMAIN store \cup DOMAIN new |->
     IF i \in DOMAIN new THEN new[i] ELSE store[i]]

(* Mutant: the grace period ends one unit early. *)
ReportedShort(la, d) ==
  IF tick.start - la[d].at < Grace THEN la[d].ids ELSE {}

(* The part of Poller.Tick that follows a discoverer's Collect: the last   *)
(* good result counts while it is within the grace period.                 *)
Reported(la, d) ==
  IF tick.start - la[d].at <= Grace THEN la[d].ids ELSE {}

TickStart ==
  /\ tick.phase = "idle" /\ clock > tick.start
  /\ tick' = [tick EXCEPT !.phase = "libvirt", !.start = clock, !.alive = {}]
  /\ UNCHANGED <<clock, env, index, libvirt, lastAlive, store, held>>

(* Mutant: a failure releases the claims at once. *)
LibvirtFailReleases ==
  /\ tick.phase = "libvirt"
  /\ libvirt' = [libvirt EXCEPT !.pids = NoPids]
  /\ tick' = [tick EXCEPT !.phase = "scan",
                          !.alive = @ \cup Reported(lastAlive, "libvirt")]
  /\ UNCHANGED <<clock, env, index, lastAlive, store, held>>

(* LibvirtCollector.Collect when connecting or listing fails: the claims   *)
(* are released after the grace period (expirePIDs).                       *)
LibvirtFail ==
  /\ tick.phase = "libvirt"
  /\ libvirt' = IF clock - libvirt.ok > Grace
                THEN [libvirt EXCEPT !.pids = NoPids] ELSE libvirt
  /\ tick' = [tick EXCEPT !.phase = "scan",
                          !.alive = @ \cup Reported(lastAlive, "libvirt")]
  /\ UNCHANGED <<clock, env, index, lastAlive, store, held>>

LibvirtList ==
  /\ tick.phase = "libvirt"
  /\ index' = Refresh(clock)
  /\ tick' = [tick EXCEPT !.phase = "domains", !.now = clock,
                          !.todo = Managed, !.found = {}, !.pids = NoPids]
  /\ UNCHANGED <<clock, env, libvirt, lastAlive, store, held>>

(* ctx.Err() is tested before each domain: Collect returns an error.       *)
LibvirtAbort ==
  /\ tick.phase = "domains" /\ cancelled /\ tick.todo # {}
  /\ tick' = [tick EXCEPT !.phase = "scan",
                          !.alive = @ \cup Reported(lastAlive, "libvirt")]
  /\ UNCHANGED <<clock, env, index, libvirt, lastAlive, store, held>>

(* A domain whose state cannot be read is left out of the result.          *)
LibvirtSkip(v) ==
  /\ tick.phase = "domains" /\ ~cancelled /\ v \in tick.todo
  /\ tick' = [tick EXCEPT !.todo = @ \ {v}]
  /\ UNCHANGED <<clock, env, index, libvirt, lastAlive, store, held>>

(* libvirtPID reads the pidfile; otherwise the index is searched by UUID.  *)
PidOf(v) ==
  LET known == IF v \in NoPidfile THEN index.procs ELSE procs
  IN  IF \E p \in known : p.vm = v
      THEN (CHOOSE p \in known : p.vm = v).pid ELSE 0

LibvirtDomain(v) ==
  /\ tick.phase = "domains" /\ ~cancelled /\ v \in tick.todo
  /\ LET pid == IF vmState[v] \in {"running", "paused"} THEN PidOf(v) ELSE 0
     IN  /\ store' = Upsert([i \in {v} |-> [pid |-> pid, st |-> vmState[v]]])
         /\ tick' = [tick EXCEPT !.todo = @ \ {v}, !.found = @ \cup {v},
                                 !.pids[v] = pid]
  /\ UNCHANGED <<clock, env, index, libvirt, lastAlive, held>>

(* Mutant: claims are added to the old ones instead of replacing them. *)
LibvirtDoneAdds ==
  /\ tick.phase = "domains" /\ tick.todo = {}
  /\ libvirt' = [pids |-> [v \in Managed |-> IF tick.pids[v] = 0
                              THEN libvirt.pids[v] ELSE tick.pids[v]],
                 ok |-> tick.now]
  /\ lastAlive' = [lastAlive EXCEPT !["libvirt"] =
                     [ids |-> tick.found, at |-> tick.start]]
  /\ tick' = [tick EXCEPT !.phase = "scan",
                          !.alive = @ \cup Reported(lastAlive', "libvirt")]
  /\ held' = [v \in Managed |-> IF v \in tick.found THEN tick.start ELSE Never]
  /\ UNCHANGED <<clock, env, index, store>>

LibvirtDone ==
  /\ tick.phase = "domains" /\ tick.todo = {}
  /\ libvirt' = [pids |-> tick.pids, ok |-> tick.now]
  /\ lastAlive' = [lastAlive EXCEPT !["libvirt"] =
                     [ids |-> tick.found, at |-> tick.start]]
  /\ tick' = [tick EXCEPT !.phase = "scan",
                          !.alive = @ \cup Reported(lastAlive', "libvirt")]
  /\ held' = [v \in Managed |-> IF v \in tick.found THEN tick.start ELSE Never]
  /\ UNCHANGED <<clock, env, index, store>>

(* ScanCollector.Collect, which never fails. *)
ScanCollect ==
  /\ tick.phase = "scan"
  /\ index' = Refresh(clock)
  /\ LET claimed == {libvirt.pids[v] : v \in Managed}
         own == {p \in index'.procs : p.pid \notin claimed}
         ids == {ScanID(p) : p \in own}
     IN  /\ store' = Upsert([i \in ids |-> [pid |-> i[1], st |-> "running"]])
         /\ lastAlive' = [lastAlive EXCEPT !["kvmscan"] =
                            [ids |-> ids, at |-> tick.start]]
  /\ tick' = [tick EXCEPT !.phase = "retain",
                          !.alive = @ \cup Reported(lastAlive', "kvmscan")]
  /\ UNCHANGED <<clock, env, libvirt, held>>

(* DomainStore.Retain. *)
Retain ==
  /\ tick.phase = "retain"
  /\ store' = Restrict(store, DOMAIN store \cap tick.alive)
  /\ tick' = [tick EXCEPT !.phase = "commit"]
  /\ UNCHANGED <<clock, env, index, libvirt, lastAlive, held>>

(* The other collectors only Mutate existing entries; Commit and the hooks *)
(* leave the set of entries alone.                                         *)
Commit ==
  /\ tick.phase = "commit"
  /\ tick' = [tick EXCEPT !.phase = "idle"]
  /\ UNCHANGED <<clock, env, index, libvirt, lastAlive, store, held>>

(* Poller.Run returns; when the ticker has fired as well, select may       *)
(* choose another tick first.                                              *)
Stop ==
  /\ tick.phase = "idle" /\ cancelled
  /\ tick' = [tick EXCEPT !.phase = "stopped"]
  /\ UNCHANGED <<clock, env, index, libvirt, lastAlive, store, held>>

Next ==
  \/ \E v \in VMs, pid \in Pids : Boot(v, pid)
  \/ \E p \in procs : Exit(p)
  \/ \E v \in Managed, s \in States : ChangeState(v, s)
  \/ Pass \/ Cancel
  \/ TickStart \/ LibvirtFail \/ LibvirtList \/ LibvirtAbort
  \/ \E v \in Managed : LibvirtSkip(v) \/ LibvirtDomain(v)
  \/ LibvirtDone \/ ScanCollect \/ Retain \/ Commit \/ Stop

Spec == Init /\ [][Next]_vars
-----------------------------------------------------------------------------
(* A tick leaves a libvirt VM in the store exactly when the last complete  *)
(* answer of libvirt listed it and is no older than the grace period:      *)
(* failures and cancelled calls neither drop nor keep an entry.            *)
GraceExact ==
  tick.phase = "commit" => \A v \in Managed :
    v \in DOMAIN store <=> held[v] # Never /\ tick.start - held[v] <= Grace

(* After a tick every entry of the process scan names a process that was   *)
(* running during that tick: a reused PID is never taken for the old VM.   *)
NoGhost ==
  tick.phase = "commit" => \A i \in DOMAIN store \ Managed :
    ended[i[2]] = Never \/ ended[i[2]] >= tick.start

(* The entries that carry the PID of p. *)
EntriesOf(p) == {i \in DOMAIN store : store[i].pid = p.pid}

(* Processes that have been up for the scan interval when a tick starts.   *)
Settled == {p \in procs : p.since + ScanInterval <= tick.start}

(* The libvirt collector times its claims with its own clock readings      *)
(* (lastOK, time.Since), Tick times the kept entries with the starts of    *)
(* its ticks.  A tick that may take MaxLag lets the two disagree only this *)
(* close to the end of the grace period.                                   *)
GraceEdge ==
  LET age == tick.start - lastAlive["libvirt"].at
  IN  Grace - MaxLag < age /\ age <= Grace + MaxLag

(* Libvirt reported the VM of p in this tick, in a state for which it      *)
(* looks up the PID, and p was up before the tick, long enough to be in    *)
(* the index where its pidfile cannot be read.  (A VM that has a process   *)
(* in another state, such as pmsuspended, is listed by both.)              *)
Owned(p) ==
  /\ p.vm \in Managed /\ p.since < tick.start
  /\ p.vm \in NoPidfile => p \in Settled
  /\ held[p.vm] = tick.start /\ store[p.vm].st \in {"running", "paused"}

(* Hand-over between the discoverers (LibvirtCollector.PIDs, scan.go):     *)
(* unless the program is shutting down, after a tick the PID of an entry   *)
(* of the scan is that of no other entry, and no process that was up for   *)
(* the scan interval is listed by neither, whatever calls to libvirt       *)
(* failed, except at the edge of the grace period; and even there the scan *)
(* does not report a process that libvirt owns.                            *)
HandOver ==
  tick.phase = "commit" =>
    /\ ~GraceEdge /\ ~cancelled => \A p \in procs :
         /\ \A i, j \in EntriesOf(p) : i \notin Managed => i = j
         /\ p \in Settled => EntriesOf(p) # {}
    /\ \A p \in procs : Owned(p) => ScanID(p) \notin DOMAIN store

(* A PID that libvirt's VM had before another VM reused it stays claimed,  *)
(* hiding the new process, only while libvirt has not answered since and   *)
(* for no longer than the grace period.                                    *)
StaleClaimBound ==
  tick.phase = "commit" /\ ~cancelled =>
    \A p \in Settled, v \in Managed :
      p.vm # v /\ libvirt.pids[v] = p.pid
        => libvirt.ok <= p.since /\ tick.start - libvirt.ok <= Grace
=============================================================================
