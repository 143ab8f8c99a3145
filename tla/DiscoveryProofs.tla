-------------------------- MODULE DiscoveryProofs --------------------------
(***************************************************************************)
(* Proofs about discovery (Discovery), for any managed and unmanaged VMs,  *)
(* any PIDs and start times, any length of a tick and any grace period.    *)
(***************************************************************************)
EXTENDS Discovery, Sequences, TLAPS

(* What a PID says about a claim that is not of the VM it was made for:    *)
(* the process is younger than the listing that the claim comes from.      *)
Younger(pids, at) ==
  \A v \in Managed, p \in procs : pids[v] = p.pid /\ p.vm # v => p.since >= at

(* p has been up for so long that a tick begun at t has it in its index.   *)
UpFor(p, t) == p.since + ScanInterval <= t

Working == tick.phase \notin {"idle", "stopped"}
AfterLibvirt == tick.phase \in {"scan", "retain", "commit"}
AfterScan == tick.phase \in {"retain", "commit"}
Seen == lastAlive["libvirt"]
Scanned == lastAlive["kvmscan"].ids

Ticks ==
  [phase : Phases, start : Int, now : Int, alive : SUBSET IDs, todo : SUBSET Managed,
   found : SUBSET Managed, pids : [Managed -> Pids \cup {0}]]

DiscType ==
  /\ clock \in Time /\ boots \in 0 .. MaxBoots
  /\ procs \subseteq Process
  /\ index \in [procs : SUBSET Process, at : Int]
  /\ libvirt \in [pids : [Managed -> Pids \cup {0}], ok : Int]
  /\ lastAlive \in [{"libvirt", "kvmscan"} -> [ids : SUBSET IDs, at : Int]]
  /\ tick \in Ticks
  /\ held \in [Managed -> Int]
  /\ ended \in [Starts -> Int]

(* Processes differ in their VM, PID and start, and have not ended. *)
ProcInv ==
  /\ \A p, q \in procs :
       p.pid = q.pid \/ p.vm = q.vm \/ p.start = q.start => p = q
  /\ \A p \in procs :
       p.start <= boots /\ p.since <= clock /\ ended[p.start] = Never
  /\ \A k \in Starts : k > boots => ended[k] = Never

(* The order of the clock readings. *)
TimeInv ==
  /\ tick.start <= clock
  /\ Working => tick.start >= 0 /\ clock - tick.start <= MaxLag
  /\ tick.phase = "domains" => tick.start <= tick.now /\ tick.now <= clock
  /\ index.at <= clock
  /\ Seen.at <= tick.start
  /\ tick.phase \in {"libvirt", "domains"} => Seen.at < tick.start
  /\ Seen.at <= libvirt.ok /\ libvirt.ok <= Seen.at + MaxLag
  /\ libvirt.ok <= clock

(* The index misses only processes younger than its last scan, and lists   *)
(* only processes whose PID no older process has.                          *)
IndexInv ==
  /\ \A p, q \in index.procs : p.vm = q.vm => p = q
  /\ \A p \in procs : p.since < index.at => p \in index.procs
  /\ tick.phase = "domains" =>
       /\ \A p \in procs, q \in index.procs :
            p.pid = q.pid => p = q \/ p.since >= tick.now
       /\ \A p \in procs : UpFor(p, tick.start) => p \in index.procs

(* The history variable held and the entries within the grace period. *)
AliveInv ==
  /\ Seen.ids \subseteq Managed
  /\ \A v \in Managed : IF v \in Seen.ids THEN held[v] = Seen.at /\ held[v] # Never
                        ELSE held[v] = Never
  /\ tick.start - Seen.at <= Grace => Seen.ids \subseteq DOMAIN store
  /\ tick.phase = "domains" => tick.found \subseteq DOMAIN store
  /\ tick.phase \in {"libvirt", "domains"} => tick.alive = {}
  /\ tick.phase = "scan" => tick.alive = Reported(lastAlive, "libvirt")
  /\ AfterScan => tick.alive = Reported(lastAlive, "libvirt") \cup Scanned
  /\ tick.phase = "commit" => DOMAIN store \subseteq tick.alive

(* What the scan of this tick found. *)
ScanInv ==
  AfterScan =>
    /\ \A i \in Scanned :
         /\ i \in Pids \X Starts /\ i \in DOMAIN store /\ store[i].pid = i[1]
         /\ ended[i[2]] = Never \/ ended[i[2]] >= tick.start
         /\ \A v \in Managed : libvirt.pids[v] # i[1]
         /\ \A j \in Scanned : i[1] = j[1] => i = j
    /\ \A p \in procs : UpFor(p, tick.start) =>
         ScanID(p) \in Scanned \/ \E v \in Managed : libvirt.pids[v] = p.pid

(* What the claims of libvirt say. *)
ClaimInv ==
  /\ Younger(libvirt.pids, libvirt.ok)
  /\ tick.phase = "domains" => Younger(tick.pids, tick.now)
  /\ tick.phase = "domains" => \A v \in Managed :
       IF v \in tick.found THEN store[v].pid = tick.pids[v] ELSE tick.pids[v] = 0
  /\ \A v \in Managed : libvirt.pids[v] # 0 => v \in Seen.ids
  /\ ~cancelled => \A v \in Seen.ids \cap DOMAIN store :
       \/ tick.phase = "domains" /\ v \in tick.found
       \/ store[v].pid = libvirt.pids[v]
       \/ clock - libvirt.ok > Grace
  /\ AfterLibvirt /\ ~cancelled =>
       libvirt.pids = NoPids \/ tick.start - libvirt.ok <= Grace

(* A process that libvirt reported in this tick is claimed. *)
Named(p) ==
  /\ p.vm \in Managed /\ p.since < tick.start
  /\ p.vm \in NoPidfile => UpFor(p, tick.start)
  /\ store[p.vm].st \in {"running", "paused"}

OwnInv ==
  /\ tick.phase = "domains" =>
       \A p \in procs : p.vm \in tick.found /\ Named(p) => tick.pids[p.vm] = p.pid
  /\ AfterLibvirt =>
       \A p \in procs :
         p.vm \in Managed /\ held[p.vm] = tick.start /\ Named(p)
           => libvirt.pids[p.vm] = p.pid

DiscInv ==
  /\ DiscType /\ ProcInv /\ TimeInv /\ IndexInv /\ AliveInv
  /\ ScanInv /\ ClaimInv /\ OwnInv
-----------------------------------------------------------------------------
(* The initial state. *)
LEMMA DiscStart == Init => DiscInv
<1> SUFFICES ASSUME Init PROVE DiscInv
  OBVIOUS
<1> DEFINE none == [ids |-> {}, at |-> Never]
           idle == [phase |-> "idle", start |-> Never, now |-> 0, alive |-> {},
                    todo |-> {}, found |-> {}, pids |-> NoPids]
<1>1. /\ clock = 0 /\ procs = {} /\ boots = 0
      /\ index = [procs |-> {}, at |-> Never - ScanInterval]
      /\ libvirt = [pids |-> NoPids, ok |-> Never]
      /\ lastAlive = [d \in {"libvirt", "kvmscan"} |-> none]
      /\ tick = idle
      /\ held = [v \in Managed |-> Never] /\ ended = [i \in Starts |-> Never]
  BY Zenon DEF Init
<1>2. DOMAIN store = {}
  <2>1. store = <<>>
    BY Zenon DEF Init
  <2> QED  BY <2>1
<1>3. /\ Never \in Int /\ Never < 0 /\ Never - ScanInterval \in Int /\ Never - ScanInterval < 0
      /\ NoPids \in [Managed -> Pids \cup {0}] /\ \A v \in Managed : NoPids[v] = 0
      /\ MaxTime \in Nat /\ MaxBoots \in Nat /\ MaxLag \in Nat
  BY DiscoveryAssumption DEF Never, NoPids
<1>4. DiscType
  BY <1>1, <1>3 DEF DiscType, Ticks, Time, Phases
<1>5. Seen = none /\ tick.phase = "idle" /\ tick.start = Never
  BY <1>1 DEF Seen
<1>6. ProcInv
  BY <1>1 DEF ProcInv
<1>7. TimeInv
  BY <1>1, <1>3, <1>5 DEF TimeInv, Working
<1>8. IndexInv
  BY <1>1 DEF IndexInv
<1>9. AliveInv
  BY <1>1, <1>2, <1>5 DEF AliveInv, AfterScan
<1>10. ScanInv /\ OwnInv
  BY <1>5 DEF ScanInv, OwnInv, AfterScan, AfterLibvirt
<1>11. ClaimInv
  BY <1>1, <1>2, <1>3, <1>5 DEF ClaimInv, Younger, AfterLibvirt
<1> QED  BY <1>4, <1>6, <1>7, <1>8, <1>9, <1>10, <1>11 DEF DiscInv
-----------------------------------------------------------------------------
(* The environment. *)

(* A process that starts now is younger than any listing. *)
LEMMA BootKeeps ==
  ASSUME DiscInv, NEW v \in VMs, NEW pid \in Pids, Boot(v, pid)
  PROVE DiscInv'
<1> DEFINE q == [vm |-> v, pid |-> pid, start |-> boots + 1, since |-> clock]
<1>1. /\ q \in Process /\ q.vm = v /\ q.pid = pid /\ q.start = boots + 1 /\ q.since = clock
      /\ boots' = boots + 1 /\ boots' \in 0 .. MaxBoots
  BY DiscoveryAssumption DEF Boot, DiscInv, DiscType, Process, Starts
<1>2. procs' = procs \cup {q}
  BY DEF Boot
<1>3. UNCHANGED <<clock, cancelled, ended, index, libvirt, lastAlive, store, tick, held>>
  BY DEF Boot
<1>4. \A p \in procs : p.pid # q.pid /\ p.vm # q.vm
  BY <1>1 DEF Boot, Up
<1> HIDE DEF q
<1>5. DiscType'
  BY <1>1, <1>2, <1>3 DEF DiscInv, DiscType
<1>6. ProcInv'
  <2>1. boots \in Int /\ clock \in Int /\ q.start \in Starts /\ \A p \in procs : p.start \in Int
    BY <1>1 DEF DiscInv, DiscType, Process, Starts, Time
  <2>2. \A p \in procs : p.start # q.start
    BY <1>1, <2>1 DEF DiscInv, ProcInv
  <2>3. \A p, r \in procs' : p.pid = r.pid \/ p.vm = r.vm \/ p.start = r.start => p = r
    BY <1>2, <1>4, <2>2 DEF DiscInv, ProcInv
  <2>4. \A p \in procs' : p.start <= boots' /\ p.since <= clock' /\ ended'[p.start] = Never
    BY <1>1, <1>2, <1>3, <2>1 DEF DiscInv, ProcInv
  <2>5. \A k \in Starts : k > boots' => ended'[k] = Never
    BY <1>1, <1>3, <2>1 DEF DiscInv, ProcInv, Starts
  <2> QED  BY <2>3, <2>4, <2>5 DEF ProcInv
<1>7. clock \in Int /\ index.at \in Int /\ tick.start \in Int /\ tick.now \in Int /\ libvirt.ok \in Int
  BY DEF DiscInv, DiscType, Ticks, Time
<1>8. TimeInv' /\ AliveInv'
  BY <1>3 DEF DiscInv, TimeInv, AliveInv, Working, Seen, AfterScan, Scanned, Reported
<1>9. ~UpFor(q, tick.start) /\ q.since >= tick.start /\ ~(q.since < index.at)
      /\ q.since >= libvirt.ok /\ (tick.phase = "domains" => q.since >= tick.now)
  BY <1>1, <1>7, DiscoveryAssumption DEF DiscInv, TimeInv, UpFor
<1>10. IndexInv'
  BY <1>2, <1>3, <1>9 DEF DiscInv, IndexInv, UpFor
<1>11. ScanInv'
  BY <1>2, <1>3, <1>9 DEF DiscInv, ScanInv, AfterScan, Scanned, UpFor
<1>12. ClaimInv'
  BY <1>2, <1>3, <1>9 DEF DiscInv, ClaimInv, Younger, AfterLibvirt, Seen
<1>13. OwnInv'
  <2>1. ~(q.since < tick.start)
    BY <1>1, <1>7, <1>9
  <2> QED  BY <1>2, <1>3, <2>1 DEF DiscInv, OwnInv, Named, AfterLibvirt, UpFor
<1> QED  BY <1>5, <1>6, <1>8, <1>10, <1>11, <1>12, <1>13 DEF DiscInv

(* A process that exits ends now. *)
LEMMA ExitKeeps ==
  ASSUME DiscInv, NEW p \in procs, Exit(p)
  PROVE DiscInv'
<1>1. /\ procs' = procs \ {p} /\ ended' = [ended EXCEPT ![p.start] = clock]
      /\ UNCHANGED <<clock, boots, cancelled, index, libvirt, lastAlive, store, tick, held>>
  BY Zenon DEF Exit
<1>2. p.start \in Starts /\ clock \in Int /\ tick.start \in Int /\ ended \in [Starts -> Int]
  BY DEF DiscInv, DiscType, Ticks, Process, Time
<1>3. DiscType'
  BY <1>1, <1>2 DEF DiscInv, DiscType
<1>4. ProcInv'
  BY <1>1, <1>2 DEF DiscInv, DiscType, ProcInv, Process, Starts
<1>5. TimeInv' /\ AliveInv' /\ IndexInv' /\ ClaimInv' /\ OwnInv'
  <2>1. TimeInv' /\ AliveInv'
    BY <1>1 DEF DiscInv, TimeInv, AliveInv, Working, Seen, AfterScan, Scanned, Reported
  <2>2. IndexInv'
    BY <1>1 DEF DiscInv, IndexInv, UpFor
  <2>3. ClaimInv'
    BY <1>1 DEF DiscInv, ClaimInv, Younger, AfterLibvirt, Seen
  <2>4. OwnInv'
    BY <1>1 DEF DiscInv, OwnInv, Named, AfterLibvirt, UpFor
  <2> QED  BY <2>1, <2>2, <2>3, <2>4
<1>6. ScanInv'
  <2>1. \A k \in Starts : ended'[k] = ended[k] \/ ended'[k] >= tick.start
    BY <1>1, <1>2 DEF DiscInv, TimeInv
  <2>2. \A i \in Pids \X Starts : i[2] \in Starts
    OBVIOUS
  <2> QED  BY <1>1, <2>1, <2>2 DEF DiscInv, ScanInv, AfterScan, Scanned, UpFor
<1> QED  BY <1>3, <1>4, <1>5, <1>6 DEF DiscInv

(* The invariant does not speak of the states of the guests, and time and  *)
(* the cancelled context only make its conclusions easier.                 *)
LEMMA OtherKeeps ==
  ASSUME DiscInv,
         UNCHANGED <<procs, boots, ended, index, libvirt, lastAlive, store, tick, held>>,
         \/ UNCHANGED <<clock, cancelled>>
         \/ Pass
         \/ Cancel
  PROVE DiscInv'
<1>1. /\ clock' \in Time /\ clock \in Int /\ clock' \in Int /\ clock' >= clock
      /\ tick.start \in Int /\ tick.now \in Int /\ index.at \in Int /\ libvirt.ok \in Int
      /\ tick.phase \in {"idle", "stopped"} \/ clock' = clock \/ clock' - tick.start <= MaxLag
  BY DiscoveryAssumption DEF DiscInv, DiscType, Ticks, Time, Pass, Cancel
<1>2. ~cancelled' => ~cancelled
  BY DEF Pass, Cancel, env
<1>3. DiscType'
  BY <1>1 DEF DiscInv, DiscType
<1>4. ProcInv'
  <2>1. \A p \in procs : p.since \in Int
    BY DEF DiscInv, DiscType, Process, Time
  <2> QED  BY <1>1, <2>1 DEF DiscInv, ProcInv
<1>5. TimeInv'
  BY <1>1 DEF DiscInv, TimeInv, Working, Seen
<1>6. IndexInv' /\ AliveInv' /\ ScanInv'
  BY DEF DiscInv, IndexInv, AliveInv, ScanInv, UpFor, Seen, AfterScan, Scanned, Reported
<1>7. OwnInv'
  BY DEF DiscInv, OwnInv, Named, AfterLibvirt, UpFor
<1>8. ClaimInv'
  BY <1>1, <1>2, DiscoveryAssumption DEF DiscInv, ClaimInv, Younger, AfterLibvirt, Seen
<1> QED  BY <1>3, <1>4, <1>5, <1>6, <1>7, <1>8 DEF DiscInv
-----------------------------------------------------------------------------
(* The steps of a tick. *)

(* What a step of a tick leaves alone keeps its part of the invariant. *)
Still == UNCHANGED <<clock, procs, boots, cancelled, ended>>

LEMMA StillProc ==
  ASSUME ProcInv, Still
  PROVE ProcInv'
BY DEF ProcInv, Still

(* ProcessIndex.Refresh, whether it scans or only drops processes, has     *)
(* every process that has been up for the interval.                        *)
LEMMA RefreshExact ==
  ASSUME DiscInv, index' = Refresh(clock)
  PROVE  /\ index' \in [procs : SUBSET Process, at : Int]
         /\ index'.procs \subseteq procs
         /\ index'.at <= clock
         /\ \A p \in procs : p.since < index'.at => p \in index'.procs
         /\ \A p \in procs : UpFor(p, clock) => p \in index'.procs
<1>1. /\ clock \in Int /\ index \in [procs : SUBSET Process, at : Int] /\ procs \subseteq Process
      /\ ScanInterval \in Int /\ \A p \in procs : p.since \in Int /\ p.since <= clock
  BY DiscoveryAssumption DEF DiscInv, DiscType, ProcInv, Time, Process
<1>2. CASE clock - index.at < ScanInterval
  <2>1. index' = [index EXCEPT !.procs = @ \cap procs]
    BY <1>2 DEF Refresh
  <2>2. index'.procs = index.procs \cap procs /\ index'.at = index.at
    BY <1>1, <2>1
  <2>3. index.at <= clock /\ \A p \in procs : p.since < index.at => p \in index.procs
    BY DEF DiscInv, TimeInv, IndexInv
  <2> QED  BY <1>1, <1>2, <2>1, <2>2, <2>3 DEF UpFor
<1>3. CASE ~(clock - index.at < ScanInterval)
  <2>1. index' = [procs |-> procs, at |-> clock]
    BY <1>3 DEF Refresh
  <2> QED  BY <1>1, <2>1
<1> QED  BY <1>2, <1>3

(* Poller.Tick begins. *)
LEMMA TickStartKeeps ==
  ASSUME DiscInv, TickStart
  PROVE DiscInv'
<1>1. /\ Still /\ UNCHANGED <<index, libvirt, lastAlive, store, held>>
      /\ tick.phase = "idle" /\ clock > tick.start
  BY Zenon DEF TickStart, Still, env
<1>2. /\ tick' = [tick EXCEPT !.phase = "libvirt", !.start = clock, !.alive = {}]
      /\ tick'.phase = "libvirt" /\ tick'.start = clock /\ tick'.alive = {}
  BY DEF TickStart, DiscInv, DiscType, Ticks
<1>3. clock \in Time /\ clock \in Int /\ clock >= 0 /\ tick.start \in Int /\ Seen.at \in Int /\ libvirt.ok \in Int
  BY DEF DiscInv, DiscType, Ticks, Time, Seen
<1>4. DiscType'
  <2>1. tick' \in Ticks
    BY <1>1, <1>2, <1>3, Zenon DEF DiscInv, DiscType, Ticks, Phases
  <2> QED  BY <1>1, <1>2, <1>3, <2>1 DEF DiscInv, DiscType, Still
<1>5. TimeInv'
  BY <1>1, <1>2, <1>3, DiscoveryAssumption DEF DiscInv, TimeInv, Working, Seen, Still
<1>6. IndexInv' /\ ScanInv' /\ OwnInv'
  BY <1>1, <1>2 DEF DiscInv, IndexInv, ScanInv, OwnInv, AfterScan, AfterLibvirt, Still
<1>7. AliveInv'
  BY <1>1, <1>2, <1>3, DiscoveryAssumption DEF DiscInv, AliveInv, AfterScan, Seen
<1>8. ClaimInv'
  BY <1>1, <1>2 DEF DiscInv, ClaimInv, Younger, AfterLibvirt, Seen, Still
<1> QED  BY <1>1, <1>4, <1>5, <1>6, <1>7, <1>8, StillProc DEF DiscInv

(* Before libvirt has answered in this tick, no VM was seen in it. *)
LEMMA NotSeenYet ==
  ASSUME DiscInv, tick.phase \in {"libvirt", "domains"}
  PROVE  \A v \in Managed : held[v] # tick.start
<1>1. Seen.at < tick.start /\ tick.start >= 0 /\ Never < 0
  BY DiscoveryAssumption DEF DiscInv, TimeInv, Working, Never
<1>2. tick.start \in Int /\ Seen.at \in Int /\ Never \in Int
  BY DiscoveryAssumption DEF DiscInv, DiscType, Ticks, Seen, Never
<1> QED  BY <1>1, <1>2 DEF DiscInv, AliveInv

(* LibvirtCollector.Collect fails: the claims stay, or are released after  *)
(* the grace period.                                                       *)
LEMMA LibvirtFailKeeps ==
  ASSUME DiscInv, LibvirtFail
  PROVE DiscInv'
<1>1. /\ Still /\ UNCHANGED <<index, lastAlive, store, held>> /\ tick.phase = "libvirt"
      /\ IF clock - libvirt.ok > Grace THEN libvirt' = [libvirt EXCEPT !.pids = NoPids]
         ELSE libvirt' = libvirt
  BY DEF LibvirtFail, Still, env
<1>2. /\ tick' = [tick EXCEPT !.phase = "scan", !.alive = @ \cup Reported(lastAlive, "libvirt")]
      /\ Reported(lastAlive, "libvirt") \subseteq IDs
  BY DEF LibvirtFail, DiscInv, DiscType, Ticks, Reported
<1>3. /\ tick'.phase = "scan" /\ tick'.start = tick.start
      /\ tick'.alive = tick.alive \cup Reported(lastAlive, "libvirt")
  BY <1>2 DEF DiscInv, DiscType, Ticks
<1>4. clock \in Int /\ tick.start \in Int /\ Seen.at \in Int /\ libvirt.ok \in Int
  BY DEF DiscInv, DiscType, Ticks, Time, Seen
<1>5. /\ libvirt' \in [pids : [Managed -> Pids \cup {0}], ok : Int] /\ libvirt'.ok = libvirt.ok
      /\ IF clock - libvirt.ok > Grace THEN libvirt'.pids = NoPids ELSE libvirt'.pids = libvirt.pids
      /\ \A v \in Managed : NoPids[v] = 0
  BY <1>1 DEF DiscInv, DiscType, Ticks, NoPids
<1>6. DiscType'
  <2>1. tick' \in Ticks
    BY <1>1, <1>2, <1>5, Zenon DEF DiscInv, DiscType, Ticks, Phases
  <2> QED  BY <1>1, <1>2, <1>5, <2>1 DEF DiscInv, DiscType, Still
<1>7. TimeInv'
  BY <1>1, <1>3, <1>5 DEF DiscInv, TimeInv, Working, Seen, Still
<1>8. IndexInv' /\ ScanInv'
  BY <1>1, <1>3 DEF DiscInv, IndexInv, ScanInv, AfterScan, Still
<1>9. AliveInv'
  BY <1>1, <1>3 DEF DiscInv, AliveInv, AfterScan, Seen, Reported
<1>10. ClaimInv'
  <2>1. \A p \in procs : p.pid # 0
    BY DiscoveryAssumption DEF DiscInv, DiscType, Process
  <2>2. Younger(libvirt.pids, libvirt.ok)'
    BY <1>1, <1>5, <2>1 DEF DiscInv, ClaimInv, Younger, Still
  <2>3. libvirt'.pids = NoPids \/ tick.start - libvirt.ok <= Grace
    BY <1>4, <1>5, DiscoveryAssumption DEF DiscInv, TimeInv
  <2> QED  BY <1>1, <1>3, <1>5, <2>2, <2>3 DEF DiscInv, ClaimInv, AfterLibvirt, Seen, Still
<1>11. OwnInv'
  BY <1>1, <1>3, NotSeenYet DEF OwnInv, Still
<1> QED  BY <1>1, <1>6, <1>7, <1>8, <1>9, <1>10, <1>11, StillProc DEF DiscInv

(* LibvirtCollector.Collect gets the list of domains. *)
LEMMA LibvirtListKeeps ==
  ASSUME DiscInv, LibvirtList
  PROVE DiscInv'
<1>1. /\ Still /\ UNCHANGED <<libvirt, lastAlive, store, held>> /\ tick.phase = "libvirt"
      /\ index' = Refresh(clock)
  BY Zenon DEF LibvirtList, Still, env
<1>2. tick' = [tick EXCEPT !.phase = "domains", !.now = clock,
                           !.todo = Managed, !.found = {}, !.pids = NoPids]
  BY Zenon DEF LibvirtList
<1>3. /\ tick'.phase = "domains" /\ tick'.start = tick.start /\ tick'.now = clock
      /\ tick'.alive = tick.alive /\ tick'.found = {} /\ tick'.pids = NoPids
  BY <1>2 DEF DiscInv, DiscType, Ticks
<1>4. clock \in Int /\ tick.start \in Int /\ tick.start <= clock /\ \A p \in procs : p.since \in Int
  BY DEF DiscInv, DiscType, Ticks, TimeInv, Time, Process
<1>5. NoPids \in [Managed -> Pids \cup {0}] /\ \A v \in Managed : NoPids[v] = 0
  BY DEF NoPids
<1>6. DiscType'
  <2>1. tick' \in Ticks
    BY <1>1, <1>2, <1>4, <1>5, RefreshExact, Zenon DEF DiscInv, DiscType, Ticks, Phases
  <2> QED  BY <1>1, <1>2, <1>4, <1>5, RefreshExact, <2>1 DEF DiscInv, DiscType, Still
<1>7. TimeInv'
  BY <1>1, <1>3, <1>4, RefreshExact DEF DiscInv, TimeInv, Working, Seen, Still
<1>8. IndexInv'
  <2>1. \A p \in procs : UpFor(p, tick.start) => UpFor(p, clock)
    BY <1>4, DiscoveryAssumption DEF UpFor
  <2>2. procs' = procs /\ index'.procs \subseteq procs
    BY <1>1, RefreshExact DEF Still
  <2>3. \A p \in procs : UpFor(p, tick'.start) => p \in index'.procs
    BY <1>1, <1>3, <2>1, RefreshExact
  <2>4. \A p \in procs : p.since < index'.at => p \in index'.procs
    BY <1>1, RefreshExact
  <2> QED  BY <2>2, <2>3, <2>4 DEF DiscInv, IndexInv, ProcInv, UpFor
<1>9. AliveInv' /\ ScanInv' /\ OwnInv'
  BY <1>1, <1>3 DEF DiscInv, AliveInv, ScanInv, OwnInv, AfterScan, AfterLibvirt, Seen
<1>10. ClaimInv'
  <2>1. \A p \in procs : p.pid # 0
    BY DiscoveryAssumption DEF DiscInv, DiscType, Process
  <2> QED  BY <1>1, <1>3, <1>5, <2>1 DEF DiscInv, ClaimInv, Younger, AfterLibvirt, Seen, Still
<1> QED  BY <1>1, <1>6, <1>7, <1>8, <1>9, <1>10, StillProc DEF DiscInv

(* ctx is cancelled between two domains. *)
LEMMA LibvirtAbortKeeps ==
  ASSUME DiscInv, LibvirtAbort
  PROVE DiscInv'
<1>1. /\ Still /\ UNCHANGED <<index, libvirt, lastAlive, store, held>>
      /\ tick.phase = "domains" /\ cancelled
  BY Zenon DEF LibvirtAbort, Still, env
<1>2. /\ tick' = [tick EXCEPT !.phase = "scan", !.alive = @ \cup Reported(lastAlive, "libvirt")]
      /\ Reported(lastAlive, "libvirt") \subseteq IDs
  BY DEF LibvirtAbort, DiscInv, DiscType, Ticks, Reported
<1>3. /\ tick'.phase = "scan" /\ tick'.start = tick.start
      /\ tick'.alive = tick.alive \cup Reported(lastAlive, "libvirt")
  BY <1>2 DEF DiscInv, DiscType, Ticks
<1>4. DiscType'
  <2>1. tick' \in Ticks
    BY <1>1, <1>2, Zenon DEF DiscInv, DiscType, Ticks, Phases
  <2> QED  BY <1>1, <1>2, <2>1 DEF DiscInv, DiscType, Still
<1>5. TimeInv'
  BY <1>1, <1>3 DEF DiscInv, TimeInv, Working, Seen, Still
<1>6. IndexInv' /\ ScanInv'
  BY <1>1, <1>3 DEF DiscInv, IndexInv, ScanInv, AfterScan, Still
<1>7. AliveInv'
  BY <1>1, <1>3 DEF DiscInv, AliveInv, AfterScan, Seen, Reported
<1>8. ClaimInv'
  BY <1>1, <1>3 DEF DiscInv, ClaimInv, Younger, AfterLibvirt, Seen, Still
<1>9. OwnInv'
  BY <1>1, <1>3, NotSeenYet DEF OwnInv, Still
<1> QED  BY <1>1, <1>4, <1>5, <1>6, <1>7, <1>8, <1>9, StillProc DEF DiscInv

(* A domain is left out. *)
LEMMA LibvirtSkipKeeps ==
  ASSUME DiscInv, NEW v \in Managed, LibvirtSkip(v)
  PROVE DiscInv'
<1>1. Still /\ UNCHANGED <<index, libvirt, lastAlive, store, held>> /\ tick.phase = "domains"
  BY Zenon DEF LibvirtSkip, Still, env
<1>2. tick' = [tick EXCEPT !.todo = @ \ {v}]
  BY Zenon DEF LibvirtSkip
<1>3. /\ tick'.phase = "domains" /\ tick'.start = tick.start /\ tick'.now = tick.now
      /\ tick'.alive = tick.alive /\ tick'.found = tick.found /\ tick'.pids = tick.pids
  BY <1>1, <1>2 DEF DiscInv, DiscType, Ticks
<1>4. DiscType'
  <2>1. tick' \in Ticks
    BY <1>2 DEF DiscInv, DiscType, Ticks
  <2> QED  BY <1>1, <2>1 DEF DiscInv, DiscType, Still
<1>5. TimeInv'
  BY <1>1, <1>3 DEF DiscInv, TimeInv, Working, Seen, Still
<1>6. IndexInv' /\ ScanInv'
  BY <1>1, <1>3 DEF DiscInv, IndexInv, ScanInv, AfterScan, UpFor, Still
<1>7. AliveInv'
  BY <1>1, <1>3 DEF DiscInv, AliveInv, AfterScan, Seen
<1>8. ClaimInv'
  BY <1>1, <1>3 DEF DiscInv, ClaimInv, Younger, AfterLibvirt, Seen, Still
<1>9. OwnInv'
  BY <1>1, <1>3 DEF DiscInv, OwnInv, Named, UpFor, AfterLibvirt, Still
<1> QED  BY <1>1, <1>4, <1>5, <1>6, <1>7, <1>8, <1>9, StillProc DEF DiscInv

(* libvirtPID and ByUUID: the PID of the VM's process if it has been up    *)
(* for long enough, or one that only a younger process of another VM has.  *)
LEMMA PidOfExact ==
  ASSUME DiscInv, tick.phase = "domains", NEW v \in Managed
  PROVE  /\ PidOf(v) \in Pids \cup {0}
         /\ \A p \in procs : PidOf(v) = p.pid /\ p.vm # v => p.since >= tick.now
         /\ \A p \in procs :
              p.vm = v /\ (v \in NoPidfile => UpFor(p, tick.start)) => PidOf(v) = p.pid
<1> DEFINE known == IF v \in NoPidfile THEN index.procs ELSE procs
<1>1. /\ known \subseteq Process /\ 0 \notin Pids
      /\ \A p \in Process : p.pid \in Pids
  BY DiscoveryAssumption DEF DiscInv, DiscType, Process
<1>2. \A p, q \in known : p.vm = q.vm => p = q
  BY DEF DiscInv, ProcInv, IndexInv
<1>3. \A p \in procs, q \in known : p.pid = q.pid => p = q \/ p.since >= tick.now
  BY DEF DiscInv, ProcInv, IndexInv
<1>4. \A p \in procs : (v \in NoPidfile => UpFor(p, tick.start)) => p \in known
  BY DEF DiscInv, IndexInv
<1>5. PidOf(v) = IF \E p \in known : p.vm = v THEN (CHOOSE p \in known : p.vm = v).pid ELSE 0
  BY DEF PidOf
<1>6. procs \subseteq Process
  BY DEF DiscInv, DiscType, Ticks
<1> HIDE DEF known
<1>7. CASE \E p \in known : p.vm = v
  <2> DEFINE q == CHOOSE p \in known : p.vm = v
  <2>1. q \in known /\ q.vm = v
    BY <1>7
  <2>2. PidOf(v) = q.pid
    BY <1>5, <1>7
  <2> HIDE DEF q
  <2> QED  BY <1>1, <1>2, <1>3, <1>4, <2>1, <2>2
<1>8. CASE ~\E p \in known : p.vm = v
  <2>1. PidOf(v) = 0
    BY <1>5, <1>8
  <2> QED  BY <1>1, <1>4, <1>6, <1>8, <2>1
<1> QED  BY <1>7, <1>8

(* A domain is listed, with its process in the states running and paused. *)
LEMMA LibvirtDomainKeeps ==
  ASSUME DiscInv, NEW v \in Managed, LibvirtDomain(v)
  PROVE DiscInv'
<1> DEFINE pid == IF vmState[v] \in {"running", "paused"} THEN PidOf(v) ELSE 0
           one == [i \in {v} |-> [pid |-> pid, st |-> vmState[v]]]
<1>1. Still /\ UNCHANGED <<index, libvirt, lastAlive, held>> /\ tick.phase = "domains" /\ ~cancelled
  BY Zenon DEF LibvirtDomain, Still, env
<1>2. /\ tick' = [tick EXCEPT !.todo = @ \ {v}, !.found = @ \cup {v}, !.pids[v] = pid]
      /\ store' = Upsert(one)
  BY Zenon DEF LibvirtDomain
<1>3. /\ pid \in Pids \cup {0}
      /\ \A p \in procs : pid = p.pid /\ p.vm # v => p.since >= tick.now
      /\ \A p \in procs : /\ p.vm = v /\ (v \in NoPidfile => UpFor(p, tick.start))
                          /\ vmState[v] \in {"running", "paused"}
                          => pid = p.pid
  <2>1. \A p \in procs : p.pid # 0
    BY DiscoveryAssumption DEF DiscInv, DiscType, Process
  <2> QED  BY <1>1, <2>1, PidOfExact
<1>4. /\ DOMAIN store' = DOMAIN store \cup {v} /\ store'[v].pid = pid /\ store'[v].st = vmState[v]
      /\ \A i \in DOMAIN store : i # v => store'[i] = store[i]
  <2>1. DOMAIN one = {v} /\ one[v] = [pid |-> pid, st |-> vmState[v]]
    OBVIOUS
  <2> HIDE DEF one, pid
  <2> QED  BY <1>2, <2>1 DEF Upsert
<1> HIDE DEF one, pid
<1>5. /\ tick'.phase = "domains" /\ tick'.start = tick.start /\ tick'.now = tick.now
      /\ tick'.alive = tick.alive /\ tick'.found = tick.found \cup {v}
      /\ tick'.pids = [tick.pids EXCEPT ![v] = pid]
  BY <1>1, <1>2 DEF DiscInv, DiscType, Ticks
<1>6. tick'.pids[v] = pid /\ \A w \in Managed : w # v => tick'.pids[w] = tick.pids[w]
  BY <1>5 DEF DiscInv, DiscType, Ticks
<1>7. DiscType'
  <2>1. tick' \in Ticks
    BY <1>1, <1>2, <1>3, Zenon DEF DiscInv, DiscType, Ticks
  <2> QED  BY <1>1, <1>2, <1>3, <2>1 DEF DiscInv, DiscType, Still
<1>8. TimeInv'
  BY <1>1, <1>5 DEF DiscInv, TimeInv, Working, Seen, Still
<1>9. IndexInv' /\ ScanInv'
  BY <1>1, <1>5 DEF DiscInv, IndexInv, ScanInv, AfterScan, UpFor, Still
<1>10. AliveInv'
  BY <1>1, <1>4, <1>5 DEF DiscInv, AliveInv, AfterScan, Seen
<1>11. ClaimInv'
  <2>1. Younger(tick.pids, tick.now)'
    BY <1>1, <1>3, <1>5, <1>6 DEF DiscInv, ClaimInv, Younger, Still
  <2>2. Younger(libvirt.pids, libvirt.ok)'
    BY <1>1 DEF DiscInv, ClaimInv, Younger, Still
  <2>3. \A w \in Managed : IF w \in tick'.found THEN store'[w].pid = tick'.pids[w] ELSE tick'.pids[w] = 0
    BY <1>1, <1>4, <1>5, <1>6 DEF DiscInv, ClaimInv, AliveInv
  <2>4. \A w \in Seen.ids \cap DOMAIN store' :
          w \in tick'.found \/ store'[w].pid = libvirt.pids[w] \/ clock - libvirt.ok > Grace
    BY <1>1, <1>4, <1>5 DEF DiscInv, ClaimInv
  <2> QED  BY <1>1, <1>5, <2>1, <2>2, <2>3, <2>4 DEF DiscInv, ClaimInv, AfterLibvirt, Seen, Still
<1>12. OwnInv'
  BY <1>1, <1>3, <1>4, <1>5, <1>6 DEF DiscInv, OwnInv, AliveInv, Named, UpFor, AfterLibvirt, Still
<1> QED  BY <1>1, <1>7, <1>8, <1>9, <1>10, <1>11, <1>12, StillProc DEF DiscInv

(* Every domain was read: the new claims and the new list count. *)
LEMMA LibvirtDoneKeeps ==
  ASSUME DiscInv, LibvirtDone
  PROVE DiscInv'
<1>1. /\ Still /\ UNCHANGED <<index, store>> /\ tick.phase = "domains"
      /\ libvirt' = [pids |-> tick.pids, ok |-> tick.now]
      /\ lastAlive' = [lastAlive EXCEPT !["libvirt"] = [ids |-> tick.found, at |-> tick.start]]
      /\ held' = [v \in Managed |-> IF v \in tick.found THEN tick.start ELSE Never]
  BY Zenon DEF LibvirtDone, Still, env
<1>2. Seen' = [ids |-> tick.found, at |-> tick.start]
  BY <1>1 DEF DiscInv, DiscType, Ticks, Seen
<1>3. /\ clock \in Int /\ tick.start \in Int /\ tick.now \in Int
      /\ tick.start <= tick.now /\ tick.now <= clock /\ clock - tick.start <= MaxLag /\ tick.start >= 0
      /\ Never < 0 /\ Never \in Int /\ Grace \in Nat /\ MaxLag \in Nat
  BY <1>1, DiscoveryAssumption DEF DiscInv, DiscType, Ticks, TimeInv, Working, Time, Never
<1>4. /\ tick' = [tick EXCEPT !.phase = "scan", !.alive = @ \cup Reported(lastAlive', "libvirt")]
      /\ Reported(lastAlive', "libvirt") = tick.found
  BY <1>2, <1>3 DEF LibvirtDone, Reported, Seen
<1>5. tick'.phase = "scan" /\ tick'.start = tick.start /\ tick'.alive = tick.found
  BY <1>1, <1>4 DEF DiscInv, DiscType, Ticks, AliveInv
<1>6. tick.found \subseteq Managed /\ tick.found \subseteq IDs
  BY DEF DiscInv, DiscType, Ticks, IDs
<1>7. DiscType'
  <2>1. lastAlive' \in [{"libvirt", "kvmscan"} -> [ids : SUBSET IDs, at : Int]]
    BY <1>1, <1>3, <1>6 DEF DiscInv, DiscType, Ticks
  <2>2. libvirt' \in [pids : [Managed -> Pids \cup {0}], ok : Int] /\ held' \in [Managed -> Int]
    BY <1>1, <1>3 DEF DiscInv, DiscType, Ticks
  <2>3. tick' \in Ticks
    BY <1>4, <1>6, Zenon DEF DiscInv, DiscType, Ticks, Phases
  <2> QED  BY <1>1, <2>1, <2>2, <2>3 DEF DiscInv, DiscType, Still
<1>8. TimeInv'
  BY <1>1, <1>2, <1>3, <1>5 DEF DiscInv, TimeInv, Working, Still
<1>9. IndexInv' /\ ScanInv'
  BY <1>1, <1>5 DEF DiscInv, IndexInv, ScanInv, AfterScan, Still
<1>10. AliveInv'
  <2>1. Reported(lastAlive, "libvirt")' = tick.found
    BY <1>2, <1>3, <1>5 DEF Reported, Seen
  <2>2. tick.found \subseteq DOMAIN store'
    BY <1>1 DEF DiscInv, AliveInv
  <2> QED  BY <1>1, <1>2, <1>3, <1>5, <1>6, <2>1, <2>2 DEF AliveInv, AfterScan
<1>11. ClaimInv'
  <2>1. Younger(libvirt.pids, libvirt.ok)'
    BY <1>1 DEF DiscInv, ClaimInv, Younger, Still
  <2>2. \A v \in Managed : IF v \in tick.found THEN store[v].pid = tick.pids[v] ELSE tick.pids[v] = 0
    BY <1>1 DEF DiscInv, ClaimInv
  <2>3. tick.start - tick.now <= Grace
    BY <1>3
  <2> QED  BY <1>1, <1>2, <1>5, <1>6, <2>1, <2>2, <2>3 DEF ClaimInv
<1>12. OwnInv'
  <2>1. \A v \in Managed : held'[v] = tick.start => v \in tick.found
    BY <1>1, <1>3
  <2> QED  BY <1>1, <1>5, <2>1 DEF DiscInv, OwnInv, Named, UpFor, Still
<1> QED  BY <1>1, <1>7, <1>8, <1>9, <1>10, <1>11, <1>12, StillProc DEF DiscInv

(* ScanCollector.Collect: the processes that nobody claims. *)
LEMMA ScanKeeps ==
  ASSUME DiscInv, ScanCollect
  PROVE DiscInv'
<1> DEFINE claimed == {libvirt.pids[v] : v \in Managed}
           own == {p \in index'.procs : p.pid \notin claimed}
           ids == {ScanID(p) : p \in own}
           new == [i \in ids |-> [pid |-> i[1], st |-> "running"]]
<1>1. /\ Still /\ UNCHANGED <<libvirt, held>> /\ tick.phase = "scan"
      /\ index' = Refresh(clock)
      /\ store' = Upsert(new)
      /\ lastAlive' = [lastAlive EXCEPT !["kvmscan"] = [ids |-> ids, at |-> tick.start]]
      /\ tick' = [tick EXCEPT !.phase = "retain", !.alive = @ \cup Reported(lastAlive', "kvmscan")]
  BY Zenon DEF ScanCollect, Still, env
<1>2. /\ clock \in Int /\ tick.start \in Int /\ tick.start <= clock /\ Grace \in Nat
      /\ procs \subseteq Process /\ index'.procs \subseteq procs
      /\ \A p \in Process : p.pid \in Pids /\ p.start \in Starts /\ p.since \in Int
  BY <1>1, RefreshExact, DiscoveryAssumption DEF DiscInv, DiscType, Ticks, TimeInv, Time, Process
<1>3. \A i \in ids : \E p \in procs : i = ScanID(p) /\ \A v \in Managed : libvirt.pids[v] # p.pid
  BY <1>2
<1>4. \A p \in procs : UpFor(p, tick.start) => ScanID(p) \in ids \/ \E v \in Managed : libvirt.pids[v] = p.pid
  <2>1. \A p \in procs : UpFor(p, tick.start) => p \in index'.procs
    BY <1>1, <1>2, RefreshExact, DiscoveryAssumption DEF UpFor
  <2> QED  BY <2>1
<1>5. /\ DOMAIN store' = DOMAIN store \cup ids /\ \A i \in ids : store'[i].pid = i[1]
      /\ \A i \in DOMAIN store : i \notin ids => store'[i] = store[i]
  <2>1. DOMAIN new = ids /\ \A i \in ids : new[i].pid = i[1]
    OBVIOUS
  <2> HIDE DEF new, ids
  <2> QED  BY <1>1, <2>1 DEF Upsert
<1> HIDE DEF new, ids, own, claimed
<1>6. /\ \A p \in procs : ScanID(p) \in Pids \X Starts /\ ScanID(p)[1] = p.pid /\ ScanID(p)[2] = p.start
      /\ ids \subseteq Pids \X Starts /\ ids \subseteq IDs /\ \A v \in Managed : v \notin ids
  <2>1. \A p \in procs : ScanID(p) \in Pids \X Starts /\ ScanID(p)[1] = p.pid /\ ScanID(p)[2] = p.start
    BY <1>2 DEF ScanID
  <2> QED  BY <1>3, <2>1, DiscoveryAssumption DEF IDs
<1>7. /\ Scanned' = ids /\ Seen' = Seen
      /\ lastAlive' \in [{"libvirt", "kvmscan"} -> [ids : SUBSET IDs, at : Int]]
      /\ Reported(lastAlive', "kvmscan") = ids
  <2>1. lastAlive'["kvmscan"] = [ids |-> ids, at |-> tick.start] /\ lastAlive'["libvirt"] = lastAlive["libvirt"]
    BY <1>1 DEF DiscInv, DiscType, Ticks
  <2>2. lastAlive' \in [{"libvirt", "kvmscan"} -> [ids : SUBSET IDs, at : Int]]
    BY <1>1, <1>2, <1>6 DEF DiscInv, DiscType, Ticks
  <2> QED  BY <1>2, <2>1, <2>2 DEF Scanned, Seen, Reported
<1>8. tick'.phase = "retain" /\ tick'.start = tick.start /\ tick'.alive = tick.alive \cup ids
  BY <1>1, <1>7 DEF DiscInv, DiscType, Ticks
<1>9. DiscType'
  <2>1. tick' \in Ticks
    BY <1>1, <1>6, <1>7, Zenon DEF DiscInv, DiscType, Ticks, Phases
  <2> QED  BY <1>1, <1>7, <2>1, RefreshExact DEF DiscInv, DiscType, Still
<1>10. TimeInv'
  BY <1>1, <1>7, <1>8, RefreshExact DEF DiscInv, TimeInv, Working, Still
<1>11. IndexInv'
  <2>1. \A p \in procs : p.since < index'.at => p \in index'.procs
    BY <1>1, RefreshExact
  <2> QED  BY <1>1, <1>2, <1>8, <2>1 DEF DiscInv, ProcInv, IndexInv, Still
<1>12. AliveInv'
  <2>1. Reported(lastAlive, "libvirt")' = Reported(lastAlive, "libvirt")
    BY <1>7, <1>8 DEF Reported, Seen
  <2> QED  BY <1>1, <1>5, <1>7, <1>8, <2>1 DEF DiscInv, AliveInv, AfterScan
<1>13. ScanInv'
  <2>1. \A i \in ids : ended[i[2]] = Never /\ \A v \in Managed : libvirt.pids[v] # i[1]
    BY <1>3, <1>6 DEF DiscInv, ProcInv
  <2>2. \A i, j \in ids : i[1] = j[1] => i = j
    BY <1>3, <1>6 DEF DiscInv, ProcInv
  <2> QED  BY <1>1, <1>4, <1>5, <1>6, <1>7, <1>8, <2>1, <2>2 DEF ScanInv, UpFor, ScanID, Still
<1>14. ClaimInv'
  <2>1. \A v \in Seen.ids \cap DOMAIN store' : v \in DOMAIN store /\ store'[v] = store[v]
    BY <1>5, <1>6 DEF DiscInv, AliveInv
  <2> QED  BY <1>1, <1>7, <1>8, <2>1 DEF DiscInv, ClaimInv, Younger, AfterLibvirt, Still
<1>15. OwnInv'
  <2>1. \A v \in Managed : held[v] = tick.start => store'[v] = store[v]
    <3>1. \A v \in Managed : held[v] = tick.start => v \in DOMAIN store
      <4>1. tick.start >= 0 /\ Never < 0
        BY <1>1, DiscoveryAssumption DEF DiscInv, TimeInv, Working, Never
      <4> QED  BY <1>2, <4>1 DEF DiscInv, AliveInv
    <3> QED  BY <1>5, <1>6, <3>1
  <2> QED  BY <1>1, <1>8, <2>1 DEF DiscInv, OwnInv, Named, UpFor, AfterLibvirt, Still
<1> QED  BY <1>1, <1>9, <1>10, <1>11, <1>12, <1>13, <1>14, <1>15, StillProc DEF DiscInv

(* DomainStore.Retain keeps what a discoverer reported. *)
LEMMA RetainKeeps ==
  ASSUME DiscInv, Retain
  PROVE DiscInv'
<1>1. /\ Still /\ UNCHANGED <<index, libvirt, lastAlive, held>> /\ tick.phase = "retain"
      /\ store' = Restrict(store, DOMAIN store \cap tick.alive)
      /\ tick' = [tick EXCEPT !.phase = "commit"]
  BY Zenon DEF Retain, Still, env
<1>2. /\ tick'.phase = "commit" /\ tick'.start = tick.start /\ tick'.alive = tick.alive
  BY <1>1 DEF DiscInv, DiscType, Ticks
<1>3. /\ DOMAIN store' = DOMAIN store \cap tick.alive
      /\ \A i \in DOMAIN store' : store'[i] = store[i]
  BY <1>1 DEF Restrict
<1>4. tick.alive = Reported(lastAlive, "libvirt") \cup Scanned
  BY <1>1 DEF DiscInv, AliveInv, AfterScan
<1>5. tick.start - Seen.at <= Grace => Seen.ids \subseteq DOMAIN store'
  BY <1>3, <1>4 DEF DiscInv, AliveInv, Reported, Seen
<1>6. \A i \in Scanned : i \in DOMAIN store'
  BY <1>1, <1>3, <1>4 DEF DiscInv, ScanInv, AfterScan
<1>7. DiscType'
  <2>1. tick' \in Ticks
    BY <1>1 DEF DiscInv, DiscType, Ticks, Phases
  <2> QED  BY <1>1, <2>1 DEF DiscInv, DiscType, Still
<1>8. TimeInv'
  BY <1>1, <1>2 DEF DiscInv, TimeInv, Working, Seen, Still
<1>9. IndexInv'
  BY <1>1, <1>2 DEF DiscInv, IndexInv, Still
<1>10. AliveInv'
  BY <1>1, <1>2, <1>3, <1>5 DEF DiscInv, AliveInv, AfterScan, Seen, Scanned, Reported
<1>11. ScanInv'
  <2>1. Scanned' = Scanned /\ \A i \in Scanned : store'[i] = store[i]
    BY <1>1, <1>3, <1>6 DEF Scanned
  <2> QED  BY <1>1, <1>2, <1>6, <2>1, ZenonT(30) DEF DiscInv, ScanInv, AfterScan, UpFor, Still
<1>12. ClaimInv'
  BY <1>1, <1>2, <1>3, Zenon DEF DiscInv, ClaimInv, Younger, AfterLibvirt, Seen, Still
<1>13. OwnInv'
  <2>1. \A v \in Managed : held[v] = tick.start => store'[v] = store[v]
    <3>1. tick.start >= 0 /\ Never < 0 /\ tick.start \in Int /\ Grace \in Nat
      BY <1>1, DiscoveryAssumption DEF DiscInv, DiscType, Ticks, TimeInv, Working, Never
    <3>2. \A v \in Managed : held[v] = tick.start => v \in Seen.ids /\ Seen.at = tick.start
      BY <3>1 DEF DiscInv, AliveInv
    <3> QED  BY <1>3, <1>5, <3>1, <3>2
  <2> QED  BY <1>1, <1>2, <2>1, Zenon DEF DiscInv, OwnInv, Named, UpFor, AfterLibvirt, Still
<1> QED  BY <1>1, <1>7, <1>8, <1>9, <1>10, <1>11, <1>12, <1>13, StillProc DEF DiscInv

(* The end of a tick, and of Poller.Run. *)
LEMMA EndKeeps ==
  ASSUME DiscInv, Commit \/ Stop
  PROVE DiscInv'
<1>1. Still /\ UNCHANGED <<index, libvirt, lastAlive, store, held>> /\ tick.phase \in {"commit", "idle"}
  BY Zenon DEF Commit, Stop, Still, env
<1>2. \E ph \in {"idle", "stopped"} : tick' = [tick EXCEPT !.phase = ph]
  BY DEF Commit, Stop
<1>3. tick'.phase \in {"idle", "stopped"} /\ tick'.start = tick.start
  BY <1>2 DEF DiscInv, DiscType, Ticks
<1>4. DiscType'
  <2>1. tick' \in Ticks
    BY <1>1, <1>2 DEF DiscInv, DiscType, Ticks, Phases
  <2> QED  BY <1>1, <1>2, <2>1 DEF DiscInv, DiscType, Still
<1>5. TimeInv'
  BY <1>1, <1>3 DEF DiscInv, TimeInv, Working, Seen, Still
<1>6. IndexInv' /\ ScanInv' /\ OwnInv'
  BY <1>1, <1>3 DEF DiscInv, IndexInv, ScanInv, OwnInv, AfterScan, AfterLibvirt, Still
<1>7. AliveInv'
  BY <1>1, <1>3 DEF DiscInv, AliveInv, AfterScan, Seen
<1>8. ClaimInv'
  BY <1>1, <1>3 DEF DiscInv, ClaimInv, Younger, AfterLibvirt, Seen, Still
<1> QED  BY <1>1, <1>4, <1>5, <1>6, <1>7, <1>8, StillProc DEF DiscInv
-----------------------------------------------------------------------------
(* Every step keeps the invariant. *)
LEMMA DiscNext ==
  ASSUME DiscInv, [Next]_vars
  PROVE DiscInv'
<1>1. ASSUME NEW v \in Managed, NEW s \in States, ChangeState(v, s) PROVE DiscInv'
  BY <1>1, OtherKeeps, Zenon DEF ChangeState
<1>2. CASE Pass \/ Cancel
  BY <1>2, OtherKeeps, Zenon DEF Pass, Cancel, env
<1>3. CASE UNCHANGED vars
  BY <1>3, OtherKeeps, Zenon DEF vars, env
<1> QED
  BY <1>1, <1>2, <1>3, BootKeeps, ExitKeeps, TickStartKeeps, LibvirtFailKeeps, LibvirtListKeeps,
     LibvirtAbortKeeps, LibvirtSkipKeeps, LibvirtDomainKeeps, LibvirtDoneKeeps, ScanKeeps,
     RetainKeeps, EndKeeps, Zenon DEF Next

(* The invariant holds in every reachable state of the poller. *)
THEOREM DiscAlways == Spec => []DiscInv
BY DiscStart, DiscNext, PTL DEF Spec

(* Poller.Tick and Retain: a libvirt VM is listed exactly while the last   *)
(* complete answer of libvirt that had it is within the grace period, for  *)
(* any VMs, failures, cancellations and delays.                            *)
THEOREM GraceAlwaysExact == Spec => []GraceExact
<1>1. DiscInv => GraceExact
  <2> SUFFICES ASSUME DiscInv, tick.phase = "commit", NEW v \in Managed
               PROVE v \in DOMAIN store <=> held[v] # Never /\ tick.start - held[v] <= Grace
    BY DEF GraceExact
  <2>1. Seen.at \in Int /\ tick.start \in Int
    BY DEF DiscInv, DiscType, Ticks, Seen
  <2>2. \A i \in Scanned : i \notin Managed
    BY DiscoveryAssumption DEF DiscInv, ScanInv, AfterScan
  <2>3. v \in DOMAIN store => v \in Reported(lastAlive, "libvirt")
    BY <2>2 DEF DiscInv, AliveInv, AfterScan
  <2>4. v \in Reported(lastAlive, "libvirt") <=> v \in Seen.ids /\ tick.start - Seen.at <= Grace
    BY DEF Reported, Seen
  <2> QED  BY <2>1, <2>3, <2>4 DEF DiscInv, AliveInv
<1> QED  BY <1>1, DiscAlways, PTL

(* ProcessIndex.Refresh: no entry of the scan names a process that was     *)
(* gone before the tick, although PIDs are reused and scans are cached.    *)
THEOREM GhostsNever == Spec => []NoGhost
<1>1. DiscInv => NoGhost
  <2> SUFFICES ASSUME DiscInv, tick.phase = "commit", NEW i \in DOMAIN store, i \notin Managed
               PROVE ended[i[2]] = Never \/ ended[i[2]] >= tick.start
    BY DEF NoGhost
  <2>1. i \in Scanned
    BY DEF DiscInv, AliveInv, AfterScan, Reported, Seen
  <2> QED  BY <2>1 DEF DiscInv, ScanInv, AfterScan
<1> QED  BY <1>1, DiscAlways, PTL

(* expirePIDs: a claim on a PID that another VM's process has reused is    *)
(* older than that process and ends with the grace period.                 *)
THEOREM StaleClaimsEnd == Spec => []StaleClaimBound
<1>1. DiscInv => StaleClaimBound
  <2> SUFFICES ASSUME DiscInv, tick.phase = "commit", ~cancelled,
                      NEW p \in procs, NEW v \in Managed, p.vm # v, libvirt.pids[v] = p.pid
               PROVE  libvirt.ok <= p.since /\ tick.start - libvirt.ok <= Grace
    BY DEF StaleClaimBound, Settled
  <2>1. p.pid # 0 /\ p.since \in Int /\ libvirt.ok \in Int
    BY DiscoveryAssumption DEF DiscInv, DiscType, Ticks, Process, Time
  <2>2. libvirt.pids # NoPids
    BY <2>1 DEF NoPids
  <2>3. p.since >= libvirt.ok
    BY DEF DiscInv, ClaimInv, Younger
  <2> QED  BY <2>1, <2>2, <2>3 DEF DiscInv, ClaimInv, AfterLibvirt
<1> QED  BY <1>1, DiscAlways, PTL

(* The hand-over between LibvirtCollector and ScanCollector: whatever      *)
(* libvirt calls fail, and however PIDs are reused, away from the edge of  *)
(* the grace period the scan lists no PID that another entry has, no       *)
(* process that is up for the scan interval is missing, and what libvirt   *)
(* owns is never reported by the scan.                                     *)
THEOREM HandOverAlways == Spec => []HandOver
<1>1. DiscInv => HandOver
  <2> SUFFICES ASSUME DiscInv, tick.phase = "commit", NEW p \in procs
      PROVE  /\ ~GraceEdge /\ ~cancelled =>
                  /\ \A i, j \in EntriesOf(p) : i \notin Managed => i = j
                  /\ p \in Settled => EntriesOf(p) # {}
             /\ Owned(p) => ScanID(p) \notin DOMAIN store
    BY DEF HandOver
  <2>1. /\ p.pid # 0 /\ p.pid \in Pids /\ p.start \in Starts /\ p.since \in Int
        /\ libvirt.ok \in Int /\ tick.start \in Int /\ Seen.at \in Int /\ clock \in Int
        /\ Grace \in Nat /\ MaxLag \in Nat
    BY DiscoveryAssumption DEF DiscInv, DiscType, Ticks, Process, Time, Seen
  <2>2. /\ \A i \in DOMAIN store : i \in Managed => i \in Seen.ids /\ tick.start - Seen.at <= Grace
        /\ \A i \in DOMAIN store : i \notin Managed => i \in Scanned
        /\ \A i \in Scanned : i \notin Managed
    BY DiscoveryAssumption DEF DiscInv, AliveInv, ScanInv, AfterScan, Reported, Seen
  <2>3. /\ \A i \in Scanned : /\ i \in DOMAIN store /\ store[i].pid = i[1]
                              /\ \A v \in Managed : libvirt.pids[v] # i[1]
                              /\ \A j \in Scanned : i[1] = j[1] => i = j
        /\ UpFor(p, tick.start) => ScanID(p) \in Scanned \/ \E v \in Managed : libvirt.pids[v] = p.pid
    BY DEF DiscInv, ScanInv, AfterScan
  <2>4. ScanID(p)[1] = p.pid /\ ScanID(p) \in Pids \X Starts /\ ScanID(p) \notin Managed
    BY <2>1, DiscoveryAssumption DEF ScanID
  <2>5. ASSUME ~GraceEdge, ~cancelled, tick.start - Seen.at <= Grace
        PROVE  \A v \in Seen.ids : v \in DOMAIN store /\ store[v].pid = libvirt.pids[v]
    <3>1. tick.start - Seen.at <= Grace - MaxLag
      BY <2>1, <2>5 DEF GraceEdge, Seen
    <3>2. clock - tick.start <= MaxLag /\ Seen.at <= libvirt.ok
      BY DEF DiscInv, TimeInv, Working
    <3>3. ~(clock - libvirt.ok > Grace)
      BY <2>1, <3>1, <3>2
    <3> QED  BY <2>5, <3>3 DEF DiscInv, AliveInv, ClaimInv
  <2>6. ASSUME ~GraceEdge, ~cancelled PROVE \A i, j \in EntriesOf(p) : i \notin Managed => i = j
    BY <2>2, <2>3, <2>5, <2>6 DEF EntriesOf, DiscInv, AliveInv
  <2>7. ASSUME ~GraceEdge, ~cancelled, p \in Settled PROVE EntriesOf(p) # {}
    <3>1. UpFor(p, tick.start)
      BY <2>7 DEF Settled, UpFor
    <3>2. CASE ScanID(p) \in Scanned
      BY <2>3, <2>4, <3>2 DEF EntriesOf
    <3>3. ASSUME NEW v \in Managed, libvirt.pids[v] = p.pid PROVE EntriesOf(p) # {}
      <4>1. v \in Seen.ids /\ libvirt.pids # NoPids
        BY <2>1, <3>3 DEF DiscInv, ClaimInv, NoPids
      <4>2. tick.start - libvirt.ok <= Grace
        BY <2>7, <4>1 DEF DiscInv, ClaimInv, AfterLibvirt
      <4>3. libvirt.ok <= Seen.at + MaxLag
        BY DEF DiscInv, TimeInv
      <4>4. tick.start - Seen.at <= Grace
        BY <2>1, <2>7, <4>2, <4>3 DEF GraceEdge, Seen
      <4> QED  BY <2>5, <2>7, <3>3, <4>1, <4>4 DEF EntriesOf
    <3> QED  BY <2>3, <3>1, <3>2, <3>3
  <2>8. ASSUME Owned(p) PROVE ScanID(p) \notin DOMAIN store
    <3>1. libvirt.pids[p.vm] = p.pid /\ p.vm \in Managed
      BY <2>8 DEF Owned, Settled, DiscInv, OwnInv, Named, UpFor, AfterLibvirt
    <3> QED  BY <2>2, <2>3, <2>4, <3>1
  <2> QED  BY <2>6, <2>7, <2>8
<1> QED  BY <1>1, DiscAlways, PTL
====
