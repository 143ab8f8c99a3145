----------------------------- MODULE RateLimit -----------------------------
(***************************************************************************)
(* rate_limited (internal/bpf/src/hyperview.bpf.c) for one key (tgid,type) *)
(* when several CPUs report events at once.  The program reads the clock,  *)
(* looks the key up and, unless the last event is too recent, writes the   *)
(* time it read: three steps between which other CPUs run.  The difference *)
(* of the two times is unsigned.                                           *)
(***************************************************************************)
EXTENDS Integers, FiniteSets, FiniteSetsExt, Functions

CONSTANTS
  CPUs,
  Gap,        \* EVENT_GAP_NS
  MaxDelay,   \* how long one run of the program may take, far less than Gap
  Width,      \* times are unsigned integers of this many values
  MaxTime     \* bound on the clock

(* One run of the program is short, and the times do not wrap around. *)
RateAssumption ==
  /\ Gap \in Nat \ {0} /\ MaxDelay \in Nat /\ 4 * MaxDelay <= Gap
  /\ MaxTime \in Nat /\ Width \in Nat /\ Width > MaxTime + Gap

VARIABLES
  clock,
  cpu,    \* each CPU's place in the program and the time it read
  last,   \* the key's entry of event_rl, None if there is none
  passed  \* history: how many events passed with each time read

vars == <<clock, cpu, last, passed>>

None == -1
Time == 0 .. MaxTime
Idle == [at |-> "idle", now |-> 0]

(* Type correctness: a stored time stamp is a time read from the clock. *)
TypeOK ==
  /\ clock \in Time /\ last \in Time \cup {None}
  /\ cpu \in [CPUs -> [at : {"idle", "lookup", "update"}, now : Time]]
  /\ passed \in [Time -> Nat]

Init ==
  /\ clock = 0 /\ last = None
  /\ cpu = [c \in CPUs |-> Idle]
  /\ passed = [t \in Time |-> 0]

(* No CPU is stuck in the program for longer than MaxDelay. *)
Pass ==
  /\ clock < MaxTime
  /\ \A c \in CPUs : cpu[c].at # "idle" => clock - cpu[c].now < MaxDelay
  /\ clock' = clock + 1
  /\ UNCHANGED <<cpu, last, passed>>

(* bpf_ktime_get_ns *)
ReadClock(c) ==
  /\ cpu[c].at = "idle"
  /\ cpu' = [cpu EXCEPT ![c] = [at |-> "lookup", now |-> clock]]
  /\ UNCHANGED <<clock, last, passed>>

(* The difference of two unsigned integers. *)
Minus(a, b) == IF b <= a THEN a - b ELSE Width + a - b

(* Mutant: the comparison is the wrong way round. *)
TooSoonAfter(now) == last # None /\ Minus(last, now) < Gap

TooSoon(now) == last # None /\ Minus(now, last) < Gap

(* Mutant: an event that is too soon starts the gap again. *)
LookupTouches(c) ==
  /\ cpu[c].at = "lookup"
  /\ cpu' = [cpu EXCEPT ![c] = IF TooSoon(@.now) THEN Idle ELSE [@ EXCEPT !.at = "update"]]
  /\ last' = IF TooSoon(cpu[c].now) THEN cpu[c].now ELSE last
  /\ UNCHANGED <<clock, passed>>

(* bpf_map_lookup_elem: an event that is too soon is not reported. *)
Lookup(c) ==
  /\ cpu[c].at = "lookup"
  /\ cpu' = [cpu EXCEPT ![c] = IF TooSoon(@.now) THEN Idle ELSE [@ EXCEPT !.at = "update"]]
  /\ UNCHANGED <<clock, last, passed>>

(* bpf_map_update_elem: the event passes. *)
Update(c) ==
  /\ cpu[c].at = "update"
  /\ last' = cpu[c].now
  /\ passed' = [passed EXCEPT ![cpu[c].now] = @ + 1]
  /\ cpu' = [cpu EXCEPT ![c] = Idle]
  /\ UNCHANGED clock

Next == Pass \/ \E c \in CPUs : ReadClock(c) \/ Lookup(c) \/ Update(c)

Spec == Init /\ [][Next]_vars
-----------------------------------------------------------------------------
InWindow(t) == FoldFunctionOnSet(+, 0, passed, t .. Min({t + Gap - 1, MaxTime}))

(* Races can let more than one event of a key through, but not many: any   *)
(* window of one gap holds at most two events per CPU, less one.           *)
FewPerWindow == \A t \in Time : InWindow(t) <= 2 * Cardinality(CPUs) - 1

(* The limiter cannot fall silent: an event that a CPU finds too soon has  *)
(* one that passed less than a gap before it, by the times they read.      *)
LimitedByRecent ==
  [][\A c \in CPUs : cpu[c].at = "lookup" /\ cpu'[c].at = "idle" =>
       \E t \in Time : passed[t] > 0 /\ t <= cpu[c].now /\ cpu[c].now - t < Gap]_vars

(* hyperview.bpf.c: "at most one event per (tgid,type) per 100ms". *)
OnePerGap == \A t \in Time : InWindow(t) <= 1
=============================================================================
