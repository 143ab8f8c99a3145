---------------------------- MODULE RateTracker ----------------------------
(***************************************************************************)
(* collect.rateTracker (internal/collect/rate.go), by which every collector*)
(* turns counters into rates.  A tracker maps the keys it knows to their   *)
(* last samples; the code compares tick numbers to tell whether a sample   *)
(* was taken since the last sweep, here new says so.  A rate is the pair of*)
(* the increase and the time it took.                                      *)
(***************************************************************************)
EXTENDS Integers

NoRate == [inc |-> 0, dt |-> 1]

(* Mutant: the first observation counts from zero. *)
RateFromZero(r, key, v, now) ==
  IF key \notin DOMAIN r THEN [inc |-> v, dt |-> 1]
  ELSE IF v < r[key].v \/ now <= r[key].t THEN NoRate
  ELSE [inc |-> v - r[key].v, dt |-> now - r[key].t]

(* The result of rate; the first observation and counter resets yield 0. *)
Rate(r, key, v, now) ==
  IF key \notin DOMAIN r \/ v < r[key].v \/ now <= r[key].t
  THEN NoRate
  ELSE [inc |-> v - r[key].v, dt |-> now - r[key].t]

(* The tracker after rate. *)
Sampled(r, key, v, now) ==
  [k \in DOMAIN r \cup {key} |-> IF k = key THEN [v |-> v, t |-> now, new |-> TRUE] ELSE r[k]]

Swept(r) == [k \in {x \in DOMAIN r : r[x].new} |-> [r[k] EXCEPT !.new = FALSE]]
=============================================================================
