---------------------------- MODULE LatencyHist ----------------------------
(***************************************************************************)
(* One latency histogram: CPUs add samples (hist_add in                    *)
(* internal/bpf/src/hyperview.bpf.c), the collector copies it word by word *)
(* while they do, and HistWindow subtracts an older copy to get a sliding  *)
(* window, from which Percentile takes the p99 (internal/probe/hist.go).   *)
(* It is an entry of a map of one of the kinds                             *)
(*   "vm"   blk_vm_hist, which SetTargets deletes with its process         *)
(*   "tid"  runq_hist, which sched_process_exit deletes with its thread;   *)
(*          only the CPU the thread is switched to adds to it              *)
(*   "dev"  blk_dev_hist, which is never deleted                           *)
(* The memory of a deleted entry may be used again at once, so a CPU that  *)
(* still holds it adds to the next entry of the key or to none.            *)
(*                                                                         *)
(* A sample is its slot.  sum_us goes the way of count; max_us is left     *)
(* out.  Percentile is reduced to the slot its result lies in, where       *)
(* Slots, the first slot there is not, is the value 2^HIST_SLOTS.          *)
(***************************************************************************)
EXTENDS Integers, Sequences, SequencesExt, FiniteSets, FiniteSetsExt, Functions

CONSTANTS
  CPUs, Kinds,
  Slots,     \* HIST_SLOTS
  MinAge,    \* histWindow
  Width,     \* counters are unsigned integers of this many values
  MaxAdds,   \* bound on the samples
  MaxLives,  \* bound on how often the entry is deleted
  MaxTicks,  \* bound on the ticks
  MaxTime    \* bound on the clock

ASSUME HistAssumption ==
  /\ Slots \in Nat \ {0} /\ MinAge \in Nat /\ Kinds \subseteq {"vm", "tid", "dev"}
  /\ MaxAdds \in Nat /\ MaxLives \in Nat /\ MaxTicks \in Nat /\ MaxTime \in Nat
  /\ Width \in Nat /\ Width > MaxAdds

VARIABLES
  clock,    \* now of Collect, at the last tick with a copy
  kind,
  on,       \* there is an entry
  hist,     \* its memory: slots and count
  life,     \* history: how often the entry was deleted
  cpu,      \* each CPU's place in hist_add, its sample, and whether the entry it
            \* holds was deleted
  adds,     \* number of samples
  begun, ended,   \* history: additions to the entry that may have begun, and ended
  copy,     \* the copy being made: its words, at which word; its life, lo
  samples,  \* HistWindow: [at, h], and the copy's life and bounds lo, hi
  window,   \* what Window returned, its age, and the bounds for its count
  taken,    \* history: the times of the copies since the key was last unseen
  ticks     \* number of ticks

vars == <<clock, kind, on, hist, life, cpu, adds, begun, ended, copy, samples, window, taken, ticks>>
entry == <<kind, on, hist, life>>
cpus == <<cpu, adds, begun, ended>>
user == <<copy, samples, window, taken, ticks>>

SlotSet == 0 .. Slots - 1
Zero == [slots |-> [i \in SlotSet |-> 0], count |-> 0]
Idle == [at |-> "idle", us |-> 0, late |-> FALSE]
NoCopy == [word |-> -1, h |-> Zero, life |-> 0, lo |-> 0]
NoWindow == [ok |-> FALSE, d |-> Zero, age |-> 0, same |-> TRUE, lo |-> 0, hi |-> 0]
Total(h) == FoldFunction(+, 0, h.slots)

(* Type correctness: counters never exceed what was added, and the 64-bit  *)
(* difference of two copies stays within the word although a deletion may  *)
(* have made it negative.                                                  *)
TypeOK ==
  LET Count == 0 .. MaxAdds
      Hist(N) == [slots : [SlotSet -> N], count : N]
  IN  /\ clock \in 0 .. MaxTime /\ kind \in Kinds /\ on \in BOOLEAN
      /\ life \in 0 .. MaxLives /\ ticks \in 0 .. MaxTicks
      /\ adds \in Count /\ begun \in Count /\ ended \in Count
      /\ hist \in Hist(Count) /\ copy.h \in Hist(Count) /\ window.d \in Hist(0 .. Width - 1)
      /\ cpu \in [CPUs -> [at : {"idle", "insert", "again", "slot", "count"}, us : SlotSet,
                           late : BOOLEAN]]
      /\ copy.word \in -1 .. Slots + 1
      /\ \A i \in DOMAIN samples : samples[i].h \in Hist(Count)

Init ==
  /\ clock = 0 /\ kind \in Kinds /\ on = FALSE /\ hist = Zero /\ life = 0
  /\ cpu = [c \in CPUs |-> Idle] /\ adds = 0 /\ begun = 0 /\ ended = 0
  /\ copy = NoCopy /\ samples = <<>> /\ window = NoWindow /\ taken = <<>> /\ ticks = 0
-----------------------------------------------------------------------------
(* hist_add on CPU c. *)
AllIdle == \A c \in CPUs : cpu[c].at = "idle"
Adding == {c \in CPUs : cpu[c].at \in {"slot", "count"}}
Holds(c, us) == cpu' = [cpu EXCEPT ![c] = [at |-> "slot", us |-> us, late |-> FALSE]] /\ begun' = begun + 1

AddBegin(c, us) ==
  /\ cpu[c].at = "idle" /\ adds < MaxAdds /\ adds' = adds + 1
  /\ kind = "tid" => AllIdle
  /\ \/ on /\ Holds(c, us)
     \/ ~on /\ cpu' = [cpu EXCEPT ![c] = [Idle EXCEPT !.at = "insert", !.us = us]] /\ UNCHANGED begun
  /\ UNCHANGED <<clock, entry, ended, user>>

(* BPF_NOEXIST: an entry made meanwhile stays, and a full map takes none.  *)
(* History: CPUs that hold a deleted entry may still add to the new one.   *)
Insert(c, full) ==
  /\ cpu[c].at = "insert" /\ cpu' = [cpu EXCEPT ![c].at = "again"]
  /\ IF on \/ full THEN UNCHANGED <<on, hist, begun, ended>>
     ELSE on' = TRUE /\ hist' = Zero /\ begun' = Cardinality(Adding) /\ ended' = 0
  /\ UNCHANGED <<clock, kind, life, adds, user>>

(* The second lookup; without an entry the sample is given up. *)
LookupAgain(c) ==
  /\ cpu[c].at = "again"
  /\ IF on THEN Holds(c, cpu[c].us) ELSE cpu' = [cpu EXCEPT ![c] = Idle] /\ UNCHANGED begun
  /\ UNCHANGED <<clock, entry, adds, ended, user>>

(* An addition reaches the entry, or memory that is no longer its own. *)
Reaches(c, lands) == IF cpu[c].late THEN on /\ lands ELSE lands

(* Mutant: a sample of the lowest slot is not put into it. *)
AddSlotPositive(c, lands) ==
  /\ cpu[c].at = "slot" /\ cpu' = [cpu EXCEPT ![c].at = "count"]
  /\ cpu[c].late \/ lands
  /\ hist' = IF Reaches(c, lands) /\ cpu[c].us > 0 THEN [hist EXCEPT !.slots[cpu[c].us] = @ + 1] ELSE hist
  /\ UNCHANGED <<clock, kind, on, life, adds, begun, ended, user>>

(* The atomic additions. *)
AddSlot(c, lands) ==
  /\ cpu[c].at = "slot" /\ cpu' = [cpu EXCEPT ![c].at = "count"]
  /\ cpu[c].late \/ lands
  /\ hist' = IF Reaches(c, lands) THEN [hist EXCEPT !.slots[cpu[c].us] = @ + 1] ELSE hist
  /\ UNCHANGED <<clock, kind, on, life, adds, begun, ended, user>>

AddCount(c, lands) ==
  /\ cpu[c].at = "count" /\ cpu' = [cpu EXCEPT ![c] = Idle]
  /\ cpu[c].late \/ lands
  /\ hist' = IF Reaches(c, lands) THEN [hist EXCEPT !.count = @ + 1] ELSE hist
  /\ ended' = IF cpu[c].late THEN ended ELSE ended + 1
  /\ UNCHANGED <<clock, kind, on, life, adds, begun, user>>

(* Deleting the entry, which leaves its memory as it is. *)
Delete ==
  /\ life < MaxLives /\ life' = life + 1 /\ on' = FALSE /\ begun' = 0 /\ ended' = 0
  /\ cpu' = [c \in CPUs |-> [cpu[c] EXCEPT !.late = @ \/ c \in Adding]]

(* sched_process_exit: the thread runs, so it is not being switched to. *)
ThreadExit ==
  /\ kind = "tid" /\ AllIdle /\ Delete
  /\ UNCHANGED <<clock, kind, hist, adds, user>>
-----------------------------------------------------------------------------
(* RunqHists and its like: the kernel copies the value in ascending words, *)
(* the slots before the count.                                             *)
CopyBegin(now) ==
  /\ copy.word = -1 /\ on /\ ticks < MaxTicks /\ ticks' = ticks + 1
  /\ clock' = now
  /\ copy' = [NoCopy EXCEPT !.word = 0, !.life = life, !.lo = ended]
  /\ UNCHANGED <<entry, cpus, samples, window, taken>>

CopyWord ==
  /\ copy.word \in 0 .. Slots
  /\ copy' = [copy EXCEPT !.word = @ + 1, !.h =
       IF copy.word < Slots THEN [@ EXCEPT !.slots[copy.word] = hist.slots[copy.word]]
       ELSE [@ EXCEPT !.count = hist.count]]
  /\ UNCHANGED <<clock, entry, cpus, samples, window, taken, ticks>>

(* Mutant: the cumulative histogram is returned. *)
SubTotal(h, old) == h

(* Hist.Sub: a lower count means that the entry was deleted in between. *)
Sub(h, old) ==
  IF h.count < old.count THEN h
  ELSE [slots |-> [i \in SlotSet |-> (h.slots[i] - old.slots[i]) % Width],
        count |-> h.count - old.count]

(* Mutant: the first sample is dropped when it is itself old enough. *)
KeptYounger(s, now) ==
  LET young == {i \in DOMAIN s : now - s[i].at < MinAge}
  IN  IF young = {} THEN <<s[Len(s)]>> ELSE SubSeq(s, Min(young), Len(s))

(* The samples that Window keeps: the loop drops the first one while the   *)
(* second is old enough.                                                   *)
Kept(s, now) ==
  LET drop == CHOOSE n \in 0 .. Len(s) - 1 :
                /\ \A i \in 1 .. n : now - s[i + 1].at >= MinAge
                /\ n + 1 < Len(s) => now - s[n + 2].at < MinAge
  IN  SubSeq(s, drop + 1, Len(s))

(* HistWindow.Window on the finished copy; Sweep keeps a key that was seen.*)
(* History: a copy that a deletion overtook is of no life of the entry.    *)
Window ==
  /\ copy.word = Slots + 1
  /\ LET new == [at |-> clock, h |-> copy.h, lo |-> copy.lo, hi |-> begun,
                 life |-> IF copy.life = life THEN life ELSE -1]
         old == IF samples = <<>> THEN <<>> ELSE Kept(samples, clock)
     IN  /\ samples' = Append(old, new)
         /\ window' =
              IF old = <<>> THEN NoWindow
              ELSE [ok |-> TRUE, d |-> Sub(copy.h, old[1].h), age |-> clock - old[1].at,
                    same |-> old[1].life = new.life /\ new.life # -1,
                    lo |-> new.lo - old[1].hi, hi |-> new.hi - old[1].lo]
  /\ taken' = Append(taken, clock) /\ copy' = NoCopy
  /\ UNCHANGED <<clock, ticks, entry, cpus>>

(* Sweep forgets a key that this tick did not see. *)
Sweep == samples' = <<>> /\ taken' = <<>> /\ window' = NoWindow

(* A tick without the key: there is no entry, its process is no target, or *)
(* the iteration ended before it.                                          *)
Unseen ==
  /\ copy.word = -1 /\ ticks < MaxTicks /\ ticks' = ticks + 1
  /\ Sweep
  /\ UNCHANGED <<clock, entry, cpus, copy>>

(* A tick at which the process is a target no more: SetTargets deletes its *)
(* histogram while its last requests complete.                             *)
TargetGone ==
  /\ kind = "vm" /\ copy.word = -1 /\ ticks < MaxTicks /\ ticks' = ticks + 1
  /\ Delete /\ Sweep
  /\ UNCHANGED <<clock, kind, hist, copy, adds>>

(* Percentile(0.99): the first slot at which the rank is reached, or none. *)
Below(h, i) == FoldFunctionOnSet(+, 0, h.slots, 0 .. i)
Percentile(h) ==
  IF h.count = 0 THEN 0
  ELSE Min({i \in SlotSet : h.slots[i] > 0 /\ 100 * Below(h, i) >= 99 * h.count} \cup {Slots})

Next ==
  \/ ThreadExit
  \/ \E c \in CPUs :
       \/ \E us \in SlotSet : AddBegin(c, us)
       \/ \E full \in BOOLEAN : Insert(c, full)
       \/ LookupAgain(c)
       \/ \E lands \in BOOLEAN : AddSlot(c, lands) \/ AddCount(c, lands)
  \/ \E now \in clock .. MaxTime : CopyBegin(now)
  \/ CopyWord \/ Window \/ Unseen \/ TargetGone

Spec == Init /\ [][Next]_vars
-----------------------------------------------------------------------------
(* No sample that found an entry is lost or counted twice, however the CPUs*)
(* interleave: once every hist_add has ended, the slots and the count agree*)
(* with the additions to this entry, up to those that were under way when  *)
(* an entry before it was deleted (hist_add, SetTargets).                  *)
Conserved ==
  on /\ AllIdle => hist.count \in ended .. begun /\ Total(hist) \in ended .. begun

(* A window holds every sample that was added between the two copies and   *)
(* none that was over before the older one began or started after the      *)
(* newer one ended, although both copies may be torn; the entry was not    *)
(* deleted in between (hist_add, readMap, Hist.Sub).                       *)
WindowBounds ==
  window.ok /\ window.same =>
    /\ window.d.count \in window.lo .. window.hi
    /\ Total(window.d) \in window.lo .. window.hi

(* The window reaches back to the newest copy that is at least MinAge old, *)
(* or to the oldest when none is, of all copies since the last tick that   *)
(* did not see the key, whatever earlier calls dropped; a tick without the *)
(* key leaves no baseline (HistWindow.Window, Sweep).                      *)
WindowAge ==
  /\ window.ok = (Len(taken) > 1)
  /\ window.ok =>
       LET ages == [i \in 1 .. Len(taken) - 1 |-> taken[Len(taken)] - taken[i]]
           old == {a \in Range(ages) : a >= MinAge}
       IN  window.age = IF old = {} THEN ages[1] ELSE Min(old)

(* hist.go, Percentile: the estimate lies "inside the log2 bucket that     *)
(* contains it", so never beyond the last slot.                            *)
PercentileInside == Percentile(window.d) < Slots
=============================================================================
