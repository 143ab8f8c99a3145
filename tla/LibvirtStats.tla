--------------------------- MODULE LibvirtStats ---------------------------
(***************************************************************************)
(* What LibvirtCollector.Collect (internal/collect/libvirt.go) reads about *)
(* the devices of a VM: the device list comes from the domain XML, cached  *)
(* for XmlRefresh; the counters of each device are read every tick and     *)
(* turned into rates.  The module follows one VM and one tap interface of  *)
(* it, as a stand-in for interfaces and disks.  The VM and libvirt run on  *)
(* while Collect talks to libvirt, and any call may fail.  Discovery       *)
(* models which VMs are listed, and Detector the job.                      *)
(***************************************************************************)
EXTENDS RateTracker

CONSTANTS Nil,
  DomIDs,     \* domain IDs: libvirt numbers the VMs it starts
  XmlRefresh, \* xmlRefresh
  DevTime, MaxTap, MaxRx  \* bounds: time, interfaces created, bytes

(* No list and no interface is Nil. *)
DevicesAssumption ==
  /\ XmlRefresh \in Nat \ {0} /\ Nil \notin [dom : DomIDs, fetched : Nat, tap : Nat]
  /\ Nil \notin DomIDs /\ Nil \notin [tap : Nat, inc : Int, dt : Int, of : Nat]

VARIABLES
  devClock,
  guest,    \* its domain ID (Nil when shut off), the ifindex of its tap (0: none),
            \* the tap's byte counter, when devices last changed
  taps,     \* number of interfaces created
  collect,  \* where Collect is
  dom,      \* the domain ID of the VM, Nil when its devices are not read
  fetch,    \* time.Now of this Collect
  xml,      \* lc.xmlCache: domain ID, time and ifindex
  period,   \* lc.statsPeriod
  devRates, \* lc.rates
  iface,    \* the interface in the store: ifindex, rate, and history: what it may stand for
  failed,   \* history: a call about devices failed in this Collect
  since     \* history: bytes since the counter was last sampled

devices == <<devClock, guest, taps, collect, dom, fetch, xml, period, devRates, iface, failed, since>>
collector == <<collect, dom, fetch, xml, period, devRates, iface, failed>>

(* Type correctness. *)
DevicesTypeOK ==
  /\ devClock \in Nat /\ fetch \in Nat /\ taps \in Nat /\ since \in Nat
  /\ guest \in [id : DomIDs \cup {Nil}, tap : Nat, rx : Nat, changed : Nat]
  /\ collect \in {"idle", "xml", "stats"} /\ dom \in DomIDs \cup {Nil}
  /\ xml \in {Nil} \cup [dom : DomIDs, fetched : Nat, tap : Nat]
  /\ period \in DomIDs \cup {Nil} /\ failed \in BOOLEAN
  /\ DOMAIN devRates \subseteq {"net"}
  /\ devRates \in [DOMAIN devRates -> [v : Nat, t : Nat, new : BOOLEAN]]
  /\ iface \in {Nil} \cup [tap : Nat, inc : Int, dt : Int, of : Nat]

DevicesInit ==
  /\ devClock = 0 /\ guest = [id |-> Nil, tap |-> 0, rx |-> 0, changed |-> 0] /\ taps = 0
  /\ collect = "idle" /\ dom = Nil /\ fetch = 0 /\ xml = Nil /\ period = Nil
  /\ devRates = <<>> /\ iface = Nil /\ failed = FALSE /\ since = 0
-----------------------------------------------------------------------------
(* The VM and time. *)
DevPass == devClock < DevTime /\ devClock' = devClock + 1 /\ UNCHANGED <<guest, taps, since, collector>>

(* A start may get an ID the VM had before: libvirtd counts anew when it   *)
(* is restarted.                                                           *)
GuestStart(id) ==
  /\ guest.id = Nil /\ taps < MaxTap
  /\ taps' = taps + 1
  /\ guest' = [id |-> id, tap |-> taps + 1, rx |-> 0, changed |-> devClock]
  /\ UNCHANGED <<devClock, since, collector>>

GuestStop ==
  /\ guest.id # Nil /\ guest' = [id |-> Nil, tap |-> 0, rx |-> 0, changed |-> devClock]
  /\ UNCHANGED <<devClock, taps, since, collector>>

PlugTap ==
  /\ guest.id # Nil /\ guest.tap = 0 /\ taps < MaxTap
  /\ taps' = taps + 1 /\ guest' = [guest EXCEPT !.tap = taps + 1, !.rx = 0, !.changed = devClock]
  /\ UNCHANGED <<devClock, since, collector>>

UnplugTap ==
  /\ guest.id # Nil /\ guest.tap # 0 /\ guest' = [guest EXCEPT !.tap = 0, !.rx = 0, !.changed = devClock]
  /\ UNCHANGED <<devClock, taps, since, collector>>

Receive ==
  /\ guest.tap # 0 /\ since < MaxRx /\ guest.rx < MaxRx
  /\ guest' = [guest EXCEPT !.rx = @ + 1] /\ since' = since + 1
  /\ UNCHANGED <<devClock, taps, collector>>
-----------------------------------------------------------------------------
(* Collect fails before it reaches the VM, or is cancelled. *)
CollectFails ==
  /\ collect = "idle" /\ devClock > fetch
  /\ fetch' = devClock /\ failed' = TRUE
  /\ UNCHANGED <<devClock, guest, taps, since, collect, dom, xml, period, devRates, iface>>

(* DomainGetState fails, which passes the VM over. *)
StateFails ==
  /\ collect = "idle" /\ devClock > fetch
  /\ fetch' = devClock /\ failed' = TRUE /\ devRates' = Swept(devRates)
  /\ UNCHANGED <<devClock, guest, taps, since, collect, dom, xml, period, iface>>

(* The VM is listed, and running or paused. *)
ListDomains ==
  /\ collect = "idle" /\ devClock > fetch /\ guest.id # Nil
  /\ fetch' = devClock /\ dom' = guest.id /\ failed' = FALSE
  /\ collect' = "xml" /\ period' = guest.id
  /\ UNCHANGED <<devClock, guest, taps, since, xml, devRates, iface>>

(* The VM is listed in another state: off, or with a domain ID and yet     *)
(* shutting down, crashed or suspended; its devices are not read.          *)
ListOff ==
  /\ collect = "idle" /\ devClock > fetch
  /\ fetch' = devClock /\ dom' = Nil /\ failed' = FALSE
  /\ iface' = Nil /\ devRates' = Swept(devRates)
  /\ UNCHANGED <<devClock, guest, taps, since, collect, xml, period>>

(* The VM was undefined: its uuid is not in the list. *)
ListWithout ==
  /\ collect = "idle" /\ devClock > fetch /\ guest.id = Nil
  /\ fetch' = devClock /\ dom' = Nil /\ failed' = FALSE
  /\ xml' = Nil /\ period' = (IF xml = Nil THEN period ELSE Nil)
  /\ iface' = Nil /\ devRates' = Swept(devRates)
  /\ UNCHANGED <<devClock, guest, taps, since, collect>>

(* Mutant: the cached list is kept for as long as the VM runs. *)
FreshForRun == xml # Nil /\ xml.dom = dom

XmlFresh == xml # Nil /\ xml.dom = dom /\ fetch - xml.fetched < XmlRefresh

(* domainXML; the call fails when the VM is gone, and may fail anyway. *)
CachedXML ==
  /\ collect = "xml" /\ XmlFresh /\ collect' = "stats"
  /\ UNCHANGED <<devClock, guest, taps, since, dom, fetch, xml, period, devRates, iface, failed>>

FetchXML(ok) ==
  /\ collect = "xml" /\ ~XmlFresh /\ collect' = "stats" /\ (ok => guest.id = dom)
  /\ xml' = IF ok THEN [dom |-> dom, fetched |-> fetch, tap |-> guest.tap] ELSE xml
  /\ failed' = ~ok
  /\ UNCHANGED <<devClock, guest, taps, since, dom, fetch, period, devRates, iface>>

(* DomainInterfaceStats, which fails for an interface that is gone; Upsert *)
(* and sweep.                                                              *)
InterfaceStats(ok) ==
  LET has == xml # Nil /\ xml.tap # 0
      r == Rate(devRates, "net", guest.rx, fetch)
  IN  /\ collect = "stats" /\ collect' = "idle"
      /\ ok => has /\ guest.id = dom /\ guest.tap # 0
      /\ failed' = (failed \/ (has /\ ~ok /\ guest.id = dom /\ guest.tap # 0))
      /\ devRates' = Swept(IF ok THEN Sampled(devRates, "net", guest.rx, fetch) ELSE devRates)
      /\ iface' = IF ok THEN [tap |-> xml.tap, inc |-> r.inc, dt |-> r.dt, of |-> since] ELSE Nil
      /\ since' = IF ok THEN 0 ELSE since
      /\ UNCHANGED <<devClock, guest, taps, dom, fetch, xml, period>>

DevicesNext ==
  \/ DevPass \/ GuestStop \/ PlugTap \/ UnplugTap \/ Receive
  \/ \E id \in DomIDs : GuestStart(id)
  \/ CollectFails \/ StateFails \/ ListDomains \/ ListOff \/ ListWithout
  \/ CachedXML \/ \E ok \in BOOLEAN : FetchXML(ok) \/ InterfaceStats(ok)

DevicesSpec == DevicesInit /\ [][DevicesNext]_devices
-----------------------------------------------------------------------------
(* "device hotplug is picked up within this window" (xmlRefresh): when a   *)
(* Collect without failed calls that found the VM running or paused ends,  *)
(* the store has the interface the VM has had for XmlRefresh, under its    *)
(* present ifindex, through restarts, reused domain IDs and Collects that  *)
(* failed (domainXML).                                                     *)
HotplugSeen ==
  (collect = "idle" /\ dom # Nil /\ dom = guest.id /\ ~failed /\ fetch - guest.changed >= XmlRefresh)
    => IF guest.tap = 0 THEN iface = Nil ELSE iface # Nil /\ iface.tap = guest.tap

(* A traffic rate is never negative, and never stands for more than was    *)
(* received since the counter was last sampled, though counters start anew *)
(* with the VM and with the interface (rate, sweep, collectRunning).       *)
NoPhantomBytes == iface # Nil => iface.inc \in 0 .. iface.of
=============================================================================
