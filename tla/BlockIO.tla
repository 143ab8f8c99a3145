------------------------------ MODULE BlockIO ------------------------------
(***************************************************************************)
(* block_rq_issue and block_rq_complete (internal/bpf/src): how long the   *)
(* requests of a disk take, and for which monitored process.  blk_start is *)
(* an LRU map that holds, per sector, when a request was issued and by     *)
(* whom.  There may be several requests to a sector at once, a request may *)
(* be issued again (requeued) or completed in parts, and a flush, which has*)
(* no sectors, is never entered but completes like any other.  A completion*)
(* looks the entry up in one step and deletes it in another.               *)
(* The error counter of block_rq_complete is in Counters, its event in     *)
(* RateLimit and EventPath; hist_add is in LatencyHist.                    *)
(***************************************************************************)
EXTENDS Integers

CONSTANTS Reqs, Sectors, Tgids, NoOne, None, MaxTime

VARIABLES
  clock,
  targets,  \* the BPF map targets
  req,      \* the requests in flight
  start,    \* blk_start: sector -> entry
  vmHist    \* keys of blk_vm_hist

vars == <<clock, targets, req, start, vmHist>>

Entry == [ts : Nat, tgid : Tgids \cup {NoOne}]

(* A request: its sector, whether it has data, its last issue as blk_start *)
(* has it, the entry its completion has found, and as history whether it   *)
(* was issued once and alone on its sector, with its entry not evicted, and*)
(* whether no part of it was completed before.                             *)
Request ==
  [sector : Sectors, data : BOOLEAN, issue : Entry, found : Entry \cup {None},
   alone : BOOLEAN, whole : BOOLEAN]

BlockAssumption == None \notin Request /\ None \notin Entry

(* Type correctness. *)
TypeOK ==
  /\ clock \in Nat /\ targets \subseteq Tgids /\ vmHist \subseteq Tgids
  /\ req \in [Reqs -> Request \cup {None}] /\ start \in [Sectors -> Entry \cup {None}]

Init ==
  /\ clock = 0 /\ targets = {} /\ vmHist = {}
  /\ req = [r \in Reqs |-> None] /\ start = [s \in Sectors |-> None]

On(s) == {r \in Reqs : req[r] # None /\ req[r].sector = s}

(* The requests on a sector that has, or gets, more than one. *)
Shared(s) == [r \in Reqs |-> IF r \in On(s) THEN [req[r] EXCEPT !.alone = FALSE] ELSE req[r]]

Pass == clock < MaxTime /\ clock' = clock + 1 /\ UNCHANGED <<targets, req, start, vmHist>>

(* What block_rq_issue writes when process g is on the CPU. *)
BlkStart(g) == [ts |-> clock, tgid |-> IF g \in targets THEN g ELSE NoOne]

Enter(s, e, data) == start' = IF data THEN [start EXCEPT ![s] = e] ELSE start

(* block_rq_issue. *)
Issue(r, s, g, data) ==
  /\ req[r] = None
  /\ req' = [Shared(s) EXCEPT ![r] =
       [sector |-> s, data |-> data, issue |-> BlkStart(g), found |-> None,
        alone |-> On(s) = {}, whole |-> TRUE]]
  /\ Enter(s, BlkStart(g), data)
  /\ UNCHANGED <<clock, targets, vmHist>>

(* block_rq_issue of a request that was put back to its queue. *)
Reissue(r, g) ==
  /\ req[r] # None /\ req[r].found = None
  /\ req' = [req EXCEPT ![r].issue = BlkStart(g), ![r].alone = FALSE]
  /\ Enter(req[r].sector, BlkStart(g), req[r].data)
  /\ UNCHANGED <<clock, targets, vmHist>>

(* The map drops its least recently used entry. *)
Evict(s) ==
  /\ start[s] # None
  /\ start' = [start EXCEPT ![s] = None] /\ req' = Shared(s)
  /\ UNCHANGED <<clock, targets, vmHist>>

(* A completion ends the request, or a part of it: the rest is then on     *)
(* another sector.                                                         *)
Leave(r, rest) ==
  IF rest = None
  THEN req' = [req EXCEPT ![r] = None]
  ELSE /\ rest # req[r].sector
       /\ req' = [Shared(rest) EXCEPT ![r] =
            [req[r] EXCEPT !.sector = rest, !.found = None, !.alone = FALSE, !.whole = FALSE]]

(* block_rq_complete returns when the lookup finds nothing. *)
CompleteUnknown(r, rest) ==
  /\ req[r] # None /\ req[r].found = None /\ start[req[r].sector] = None
  /\ Leave(r, rest)
  /\ UNCHANGED <<clock, targets, start, vmHist>>

CompleteLookup(r) ==
  /\ req[r] # None /\ req[r].found = None /\ start[req[r].sector] # None
  /\ req' = [req EXCEPT ![r].found = start[req[r].sector]]
  /\ UNCHANGED <<clock, targets, start, vmHist>>

HistKeys(e) == IF e.tgid = NoOne THEN {} ELSE {e.tgid}

(* Mutant: the entry stays in the map. *)
CompleteKeeps(r, rest) ==
  /\ req[r] # None /\ req[r].found # None
  /\ vmHist' = vmHist \cup HistKeys(req[r].found)
  /\ Leave(r, rest)
  /\ UNCHANGED <<clock, targets, start>>

(* The entry is deleted, whoever wrote it by now, and the time since the   *)
(* one that was found goes into the histograms.                            *)
Complete(r, rest) ==
  /\ req[r] # None /\ req[r].found # None
  /\ start' = [start EXCEPT ![req[r].sector] = None]
  /\ vmHist' = vmHist \cup HistKeys(req[r].found)
  /\ Leave(r, rest)
  /\ UNCHANGED <<clock, targets>>

(* SetTargets, in any of its steps (see RunQueue), of which the last       *)
(* deletes the histograms of the targets that are gone from the map.       *)
Retarget(ts, gone) ==
  /\ gone \cap ts = {} /\ targets' = ts /\ vmHist' = vmHist \ gone
  /\ UNCHANGED <<clock, req, start>>

Handlers ==
  \/ \E r \in Reqs :
       \/ \E s \in Sectors, g \in Tgids, data \in BOOLEAN : Issue(r, s, g, data)
       \/ \E g \in Tgids : Reissue(r, g)
       \/ \E rest \in Sectors \cup {None} : CompleteUnknown(r, rest) \/ Complete(r, rest)
       \/ CompleteLookup(r)
  \/ \E s \in Sectors : Evict(s)

Next ==
  \/ Pass \/ Handlers
  \/ \E ts, gone \in SUBSET Tgids : Retarget(ts, gone)

Spec == Init /\ [][Next]_vars
-----------------------------------------------------------------------------
(* An entry of blk_start is that of a request still in flight to this      *)
(* sector, so no completion is timed from a request of the past or counted *)
(* for a process that has none; a request that was not completed in parts  *)
(* is never reported to have taken longer than since its issue; and one    *)
(* that was alone on its sector is reported exactly, whatever other CPUs   *)
(* issue and complete between the lookup and the deletion.                 *)
BlockLatencyTrue ==
  /\ \A s \in Sectors : start[s] # None =>
       \E r \in On(s) : req[r].data /\ req[r].issue = start[s]
  /\ \A r \in Reqs : req[r] # None /\ req[r].data =>
       /\ req[r].whole /\ req[r].found # None => req[r].found.ts >= req[r].issue.ts
       /\ req[r].alone =>
            (IF req[r].found = None THEN start[req[r].sector] ELSE req[r].found) = req[r].issue
=============================================================================
