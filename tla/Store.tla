------------------------------- MODULE Store -------------------------------
(***************************************************************************)
(* store.DomainStore (internal/store/domain.go, host.go): the snapshot and *)
(* the history of every VM, and of the host.  Every method holds s.mu, so  *)
(* each is one step.  A snapshot is written in place between commits; what *)
(* a series records of it is Total: CPUPercent, NetRates and DiskRates add *)
(* up the vCPUs, interfaces and disks, the other series are one field.     *)
(***************************************************************************)
EXTENDS RingBuffer, Functions

CONSTANTS
  IDs,       \* DomainIDs
  Series,    \* the rings of a domainEntry
  Snap,      \* DomainSnapshot, as far as the series see it
  Empty,     \* the snapshot of a new entry
  Total,     \* snapshot -> series -> value
  HostStats, \* what the two series of the host record
  MaxCommits

ASSUME StoreAssumption ==
  /\ Empty \in Snap
  /\ Total \in [Snap -> [Series -> Value]]
  /\ HostStats \subseteq Value /\ HostStats # {}
  /\ MaxCommits \in Nat

VARIABLES
  domains,   \* ID -> domainEntry
  host,      \* host statistics
  hostHist,  \* their ring
  log,       \* history: for each ID in the store, the snapshots committed
  hostLog    \* history: the host statistics committed

vars == <<domains, host, hostHist, log, hostLog>>

Entry == [latest : Snap, rings : [Series -> [buf : Seq(Value), pos : 0 .. Size - 1]]]

(* Type correctness: every VM has a ring per series and a log, and the     *)
(* write position of every ring is inside it.                              *)
TypeOK ==
  /\ DOMAIN domains \subseteq IDs /\ domains \in [DOMAIN domains -> Entry]
  /\ log \in [DOMAIN domains -> Seq(Snap)]
  /\ host \in HostStats /\ hostLog \in Seq(HostStats)
  /\ hostHist \in [buf : Seq(Value), pos : 0 .. Size - 1]

Init ==
  /\ domains = <<>> /\ log = <<>>
  /\ host \in HostStats /\ hostHist = NewRing /\ hostLog = <<>>

NewEntry == [latest |-> Empty, rings |-> [s \in Series |-> NewRing]]

(* Upsert: fn may leave any snapshot d. *)
Upsert(id, d) ==
  LET entry == IF id \in DOMAIN domains THEN domains[id] ELSE NewEntry
      ids == DOMAIN domains \cup {id}
  IN  /\ domains' = [i \in ids |-> IF i = id THEN [entry EXCEPT !.latest = d] ELSE domains[i]]
      /\ log' = [i \in ids |-> IF i \in DOMAIN domains THEN log[i] ELSE <<>>]
      /\ UNCHANGED <<host, hostHist, hostLog>>

Mutate(id, d) ==
  /\ id \in DOMAIN domains
  /\ domains' = [domains EXCEPT ![id].latest = d]
  /\ UNCHANGED <<host, hostHist, log, hostLog>>

Retain(keep) ==
  /\ domains' = Restrict(domains, DOMAIN domains \cap keep)
  /\ log' = Restrict(log, DOMAIN domains \cap keep)
  /\ UNCHANGED <<host, hostHist, hostLog>>

Record(entry) ==
  [entry EXCEPT !.rings = [s \in Series |-> Push(entry.rings[s], Total[entry.latest][s])]]

Commit ==
  /\ Len(hostLog) < MaxCommits
  /\ domains' = [i \in DOMAIN domains |-> Record(domains[i])]
  /\ log' = [i \in DOMAIN domains |-> Append(log[i], domains[i].latest)]
  /\ hostHist' = Push(hostHist, host) /\ hostLog' = Append(hostLog, host)
  /\ UNCHANGED host

SetHost(h) == host' = h /\ UNCHANGED <<domains, hostHist, log, hostLog>>

Next ==
  \/ \E id \in IDs, d \in Snap : Upsert(id, d) \/ Mutate(id, d)
  \/ \E keep \in SUBSET IDs : Retain(keep)
  \/ Commit
  \/ \E h \in HostStats : SetHost(h)

Spec == Init /\ [][Next]_vars
-----------------------------------------------------------------------------
(* History and HostHistory. *)
History(id) == [s \in Series |-> Slice(domains[id].rings[s])]
HostHistory == Slice(hostHist)

Totals(l, s) == [i \in 1 .. Len(l) |-> Total[l[i]][s]]

(* Every series of a VM is what was committed of it since it last came     *)
(* into the store, at most the last Size samples and oldest first: the     *)
(* series stay aligned, and a VM that comes back starts anew (Commit,      *)
(* Retain, Upsert, RingBuffer).                                            *)
HistoryExact ==
  \A id \in DOMAIN domains : \A s \in Series :
    History(id)[s] = LastN(Totals(log[id], s))

(* The same of the host, whose history no VM's coming or going touches.    *)
HostHistoryExact == HostHistory = LastN(hostLog)

(* What readers see of the store is a behaviour of Windows: whatever the   *)
(* write positions of the rings are, every Commit moves all histories by   *)
(* one value at once, and no other operation changes a value that is shown.*)
W == INSTANCE Windows WITH
       shown <- [id \in DOMAIN domains |-> History(id)], hostShown <- HostHistory
Implements == W!Spec
=============================================================================
