----------------------------- MODULE RingBuffer -----------------------------
(***************************************************************************)
(* store.RingBuffer (internal/store/ring.go): a fixed-size history of the  *)
(* last Size values.  buf grows up to Size; from then on Push overwrites   *)
(* the oldest value, at pos, which counts from 0 as in the code.           *)
(***************************************************************************)
EXTENDS Integers, Sequences

CONSTANTS Size, Value

ASSUME SizeAssumption == Size \in Nat \ {0}

NewRing == [buf |-> <<>>, pos |-> 0]

(* Mutant: the position does not move when a value is overwritten. *)
PushInPlace(r, v) ==
  IF Len(r.buf) < Size
  THEN [r EXCEPT !.buf = Append(@, v)]
  ELSE [r EXCEPT !.buf[r.pos + 1] = v]

Push(r, v) ==
  IF Len(r.buf) < Size
  THEN [r EXCEPT !.buf = Append(@, v)]
  ELSE [buf |-> [r.buf EXCEPT ![r.pos + 1] = v], pos |-> (r.pos + 1) % Size]

Slice(r) ==
  IF Len(r.buf) < Size
  THEN r.buf
  ELSE [i \in 1 .. Size |-> r.buf[((r.pos + i - 1) % Size) + 1]]

(* What Slice promises: the last values pushed, at most Size, oldest first. *)
LastN(log) ==
  IF Len(log) < Size THEN log ELSE [i \in 1 .. Size |-> log[Len(log) - Size + i]]
=============================================================================
