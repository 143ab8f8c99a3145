------------------------------ MODULE Detector ------------------------------
(***************************************************************************)
(* The detectors (internal/alert/detect.go): after every committed tick    *)
(* Run turns the store's snapshot into condition samples for               *)
(* Engine.Evaluate and compares it with the previous one to raise events.  *)
(*                                                                         *)
(* A VM's snapshot is its state, whether its pause is an error, its        *)
(* cumulative disk errors (Unknown when libvirt could not tell, or did not *)
(* list the disk) and its migration; the errors of its interfaces are left *)
(* out.  Of the samples that depend on a threshold, one rule stands for    *)
(* all that are taken while the VM runs.  The engine is reduced to the     *)
(* conditions it holds: the ones sampled now, among those that held or may *)
(* be raised.                                                              *)
(***************************************************************************)
EXTENDS Integers, FiniteSets

CONSTANTS
  Guests,
  GuestStates,   \* states a VM can be in
  Jobs,     \* migration states
  MaxErrs   \* bound on the disk errors of a VM

ASSUME DetectorAssumption == MaxErrs \in Nat /\ {"crashed", "paused"} \subseteq GuestStates

VARIABLES
  snaps,    \* the committed snapshots, Gone for a VM that is not listed
  disk,     \* each VM's error counter, and the errors it ever had
  prev,     \* Detector.prev
  primed,   \* Detector.primed
  due,      \* a tick was committed and Run has not seen it
  active,   \* the engine's conditions, [vm, rule]
  told,     \* history: what the first snapshot and the events say of a VM
  reported, \* history: disk errors that events reported
  shot,     \* history: the errors a VM ever had when its snapshot was taken, and
            \* whether it still is the same process
  base      \* history: those and the reported ones when its counter was last new to
            \* the detector, and whether it has been the same process since

detectorVars == <<snaps, disk, prev, primed, due, active, told, reported, shot, base>>

Unknown == -1
Gone == [st |-> "gone", why |-> FALSE, errs |-> Unknown, job |-> "none"]
Errs == Unknown .. MaxErrs
GuestSnap == [st : GuestStates, why : BOOLEAN, errs : Errs, job : Jobs \cup {"none"}] \cup {Gone}
Rules == {"vm.crashed", "vm.paused_error", "threshold"}
Listed(f) == {v \in Guests : f[v] # Gone}

(* Type correctness: snapshots, the detector's previous snapshots and the  *)
(* alerts stay within their domains, and a VM that is not listed has no    *)
(* other fields.                                                           *)
DetectorTypeOK ==
  /\ snaps \in [Guests -> GuestSnap] /\ prev \in [Guests -> GuestSnap]
  /\ disk \in [Guests -> [count : 0 .. MaxErrs, all : 0 .. MaxErrs]]
  /\ reported \in [Guests -> Nat]
  /\ shot \in [Guests -> [all : Nat, same : BOOLEAN]]
  /\ base \in [Guests -> [all : Nat, rep : Nat, same : BOOLEAN]]
  /\ primed \in BOOLEAN /\ due \in BOOLEAN
  /\ active \subseteq Guests \X Rules
  /\ told \in [Guests -> [st : GuestStates \cup {"gone"}, job : Jobs \cup {"none"}]]

DetectorInit ==
  /\ snaps = [v \in Guests |-> Gone] /\ prev = [v \in Guests |-> Gone]
  /\ disk = [v \in Guests |-> [count |-> 0, all |-> 0]] /\ reported = [v \in Guests |-> 0]
  /\ primed = FALSE /\ due = FALSE /\ active = {}
  /\ told = [v \in Guests |-> [st |-> "gone", job |-> "none"]]
  /\ shot = [v \in Guests |-> [all |-> 0, same |-> TRUE]]
  /\ base = [v \in Guests |-> [all |-> 0, rep |-> 0, same |-> FALSE]]
-----------------------------------------------------------------------------
(* External: a disk error; a new process, whose counters start again. *)
DiskError(v) ==
  /\ disk[v].all < MaxErrs
  /\ disk' = [disk EXCEPT ![v] = [count |-> @.count + 1, all |-> @.all + 1]]
  /\ UNCHANGED <<snaps, prev, primed, due, active, told, reported, shot, base>>

Restart(v) ==
  /\ disk[v].count > 0 /\ disk' = [disk EXCEPT ![v].count = 0]
  /\ shot' = [shot EXCEPT ![v] = [all |-> @.all, same |-> FALSE]]
  /\ base' = [base EXCEPT ![v] = [all |-> @.all, rep |-> @.rep, same |-> FALSE]]
  /\ UNCHANGED <<snaps, prev, primed, due, active, told, reported>>

(* A committed tick: the entry of a VM is new, and its error counter is    *)
(* the current one or could not be read.                                   *)
CommitSnapshot(v, s) ==
  /\ ~due /\ due' = TRUE
  /\ s.errs \in {disk[v].count, Unknown}
  /\ snaps' = [snaps EXCEPT ![v] = s]
  /\ shot' = [shot EXCEPT ![v] = [all |-> disk[v].all, same |-> TRUE]]
  /\ UNCHANGED <<disk, prev, primed, active, told, reported, base>>

(* isErrorPause is the snapshot's why. *)
DomainSamples(v) ==
  LET d == snaps[v]
  IN  {r \in Rules :
         \/ r = "vm.crashed" /\ d.st = "crashed"
         \/ r = "vm.paused_error" /\ d.st = "paused" /\ d.why
         \/ r = "threshold" /\ d.st = "running"}

(* Evaluate: a condition that is not sampled is resolved at once; one that *)
(* is sampled may be raised, stay or clear; the lifecycle rules are always *)
(* over their threshold.                                                   *)
Evaluate(sampled, next) ==
  /\ next \subseteq sampled
  /\ {k \in active \cap sampled : k[2] # "threshold"} \subseteq next

(* Mutant: a tick reports one error, however many there were. *)
DiskErrorsOne(p, c) == IF p.errs >= 0 /\ c.errs > p.errs THEN 1 ELSE 0

(* Mutant: an unknown counter counts as one below zero. *)
DiskErrorsUnknown(p, c) == IF c.errs > p.errs THEN c.errs - p.errs ELSE 0

(* domainEvents: whether the state, the disk errors or the migration of    *)
(* the VM are reported.                                                    *)
StateEvent(p, c) == p.st # c.st
DiskErrors(p, c) == IF p.errs >= 0 /\ c.errs > p.errs THEN c.errs - p.errs ELSE 0
JobEvent(p, c) == c.job # "none" /\ p.job # c.job

Appeared(v) == v \in Listed(snaps) \ Listed(prev) /\ primed
(* Mutant: only VMs that ran are missed. *)
DisappearedRunning(v) == v \in Listed(prev) \ Listed(snaps) /\ prev[v].st = "running"

Disappeared(v) == v \in Listed(prev) \ Listed(snaps)
Both(v) == v \in Listed(prev) \cap Listed(snaps)
Known(v) == Both(v) /\ prev[v].errs # Unknown /\ snaps[v].errs # Unknown

(* Run: the samples go to the engine, then the VMs are compared with prev. *)
(* The history starts from the first snapshot, of which no event tells.    *)
Run(next) ==
  /\ due /\ due' = FALSE
  /\ Evaluate({k \in Guests \X Rules :
                 k[1] \in Listed(snaps) /\ k[2] \in DomainSamples(k[1])}, next)
  /\ active' = next
  /\ told' = [v \in Guests |->
       CASE ~primed -> [st |-> snaps[v].st, job |-> "none"]
         [] Appeared(v) -> [st |-> snaps[v].st, job |-> "none"]
         [] Disappeared(v) -> [st |-> "gone", job |-> "none"]
         [] Both(v) -> [st |-> IF StateEvent(prev[v], snaps[v]) THEN snaps[v].st ELSE told[v].st,
                        job |-> IF JobEvent(prev[v], snaps[v]) THEN snaps[v].job ELSE told[v].job]
         [] OTHER -> told[v]]
  /\ reported' = [v \in Guests |-> IF Both(v) THEN reported[v] + DiskErrors(prev[v], snaps[v])
                                   ELSE reported[v]]
  /\ base' = [v \in Guests |-> IF Known(v) THEN base[v]
       ELSE [all |-> shot[v].all, rep |-> reported'[v],
             same |-> snaps[v].errs # Unknown /\ shot[v].same]]
  /\ prev' = snaps /\ primed' = TRUE
  /\ UNCHANGED <<snaps, disk, shot>>

DetectorNext ==
  \/ \E v \in Guests : DiskError(v) \/ Restart(v) \/ \E s \in GuestSnap : CommitSnapshot(v, s)
  \/ \E next \in SUBSET (Guests \X Rules) : Run(next)

DetectorSpec == DetectorInit /\ [][DetectorNext]_detectorVars
-----------------------------------------------------------------------------
(* Whoever knows the first snapshot and follows the events vm.appeared,    *)
(* vm.disappeared and vm.state knows which VMs the store lists, and in     *)
(* which state, after every Run: VMs that come, go, return and change      *)
(* between two ticks included.                                             *)
StoryTrue == primed /\ ~due => \A v \in Guests : told[v].st = snaps[v].st

(* io.vm_disk_errors never reports an error that did not happen, though    *)
(* counters start again with the process and are unknown for a while.      *)
NoPhantomErrors == \A v \in Guests : reported[v] <= disk[v].all

(* And misses none: as long as the counter of a VM is known at every tick  *)
(* and the process is the same, the errors reported are all that happened  *)
(* from the snapshot that began it to the last one (domainEvents, prev).   *)
ErrorsTold ==
  ~due => \A v \in Guests :
    base[v].same => reported[v] - base[v].rep = shot[v].all - base[v].all

(* README.md: vm.migration is raised for "migration                        *)
(* started/finished/failed".  libvirt shows no job once it is over.        *)
MigrationEndTold ==
  primed /\ ~due => \A v \in Guests :
    snaps[v] # Gone /\ told[v].job = "active" => snaps[v].job = "active"
=============================================================================
