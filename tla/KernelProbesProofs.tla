------------------------- MODULE KernelProbesProofs -------------------------
(***************************************************************************)
(* Proofs about the BPF programs that measure, for any number of threads,  *)
(* CPUs, requests, sectors and processes: run-queue latency (RunQueue),    *)
(* block latency (BlockIO) and the limiter of events (RateLimit), as they  *)
(* run together (KernelProbes); and that loading the programs (ProbeLoad)  *)
(* leaks nothing.                                                          *)
(***************************************************************************)
EXTENDS KernelProbes, TLAPS

CONSTANTS Defs, AllFeatures                      \* of ProbeLoad
VARIABLES pc, at, plan, status, open, held, verdict

P == INSTANCE ProbeLoad
-----------------------------------------------------------------------------
(* Run queues.  The inductive invariant: no start time lies in the future; *)
(* that of a thread on the run queue is not later than the time since when *)
(* it waits, and the same time if its queueing made the entry; and what    *)
(* runq_hist holds was at least the real wait, and is the real wait if all *)
(* its waits were covered.                                                 *)
Stamps == Nat \cup {None}

ThreadRec ==
  [own : Tgids \cup {NoOne}, st : {"gone", "sleeping", "queued", "preempted", "running"},
   dying : BOOLEAN, at : Stamps]

SchedType ==
  /\ clock \in Nat
  /\ thread \in [Tids -> ThreadRec] /\ start \in [Tids -> Stamps]
  /\ hist \in [Tids -> Stamps] /\ truth \in [Tids -> [wait : Stamps, clean : BOOLEAN]]

(* What holds of a thread t. *)
Queued(t) ==
  /\ start[t] <= clock
  /\ thread[t].st \in {"queued", "preempted"} =>
       /\ thread[t].at \in Nat /\ thread[t].at <= clock /\ start[t] <= thread[t].at
       /\ t \in covered => start[t] = thread[t].at

Told(t) == hist[t] >= truth[t].wait /\ (truth[t].clean => hist[t] = truth[t].wait)

SchedInv == SchedType /\ \A t \in Tids : Queued(t) /\ Told(t)

(* The larger of two numbers. *)
LEMMA MaxOfTwo ==
  ASSUME NEW a \in Int, NEW b \in Int
  PROVE  Max({a, b}) = IF a >= b THEN a ELSE b
<1>1. ASSUME NEW x \in {a, b}, \A y \in {a, b} : x >= y
      PROVE  x = IF a >= b THEN a ELSE b
  BY <1>1
<1>2. \E x \in {a, b} : \A y \in {a, b} : x >= y
  OBVIOUS
<1> QED  BY <1>1, <1>2 DEF Max

(* Time passes, and other programs and SetTargets run: what is kept of the *)
(* threads stays true.                                                     *)
LEMMA SchedKeeps ==
  ASSUME SchedInv, clock' \in Nat, clock' >= clock,
         UNCHANGED <<thread, start, hist, covered, truth>>
  PROVE  SchedInv'
<1>1. SchedType'
  BY DEF SchedInv, SchedType
<1>2. \A t \in Tids : start[t] \in Int /\ thread[t].at \in Stamps /\ clock \in Nat
  BY DEF SchedInv, SchedType, Stamps, ThreadRec, None
<1>3. \A t \in Tids : Queued(t)' /\ Told(t)'
  BY <1>2 DEF SchedInv, Queued, Told
<1> QED  BY <1>1, <1>3 DEF SchedInv

(* A thread t is put on the run queue, or its entries change while it is   *)
(* not queued; those of the others do not change.                          *)
LEMMA OneThread ==
  ASSUME SchedInv, NEW t \in Tids, NEW b \in ThreadRec, NEW s \in Stamps, UNCHANGED clock,
         thread' = [thread EXCEPT ![t] = b], start' = [start EXCEPT ![t] = s],
         \A u \in Tids \ {t} : u \in covered' => u \in covered,
         s <= clock,
         b.st \in {"queued", "preempted"} => b.at = clock /\ (t \in covered' => s = clock),
         \/ UNCHANGED <<hist, truth>>
         \/ hist' = [hist EXCEPT ![t] = None] /\ truth' = [truth EXCEPT ![t] = Untold]
  PROVE  SchedInv'
<1>0. Untold \in [wait : Stamps, clean : BOOLEAN] /\ None \in Stamps
  BY DEF Untold, Stamps
<1>1. SchedType'
  BY <1>0 DEF SchedInv, SchedType
<1>2. \A u \in Tids \ {t} : Queued(u)'
  BY DEF SchedInv, SchedType, Queued
<1>3. \A u \in Tids \ {t} : Told(u)'
  BY DEF SchedInv, SchedType, Told
<1>4. Queued(t)'
  BY DEF SchedInv, SchedType, Queued
<1>5. Told(t)'
  BY DEF SchedInv, SchedType, Told, Untold, None
<1> QED  BY <1>1, <1>2, <1>3, <1>4, <1>5 DEF SchedInv

(* A thread starts: an ID used again gets a start time of its own, or      *)
(* keeps an old one, which is not later.                                   *)
LEMMA SpawnInv ==
  ASSUME SchedInv, NEW t \in Tids, NEW g \in Tgids, NEW full \in BOOLEAN, Spawn(t, g, full)
  PROVE  SchedInv'
<1> DEFINE b == [own |-> g, st |-> "queued", dying |-> FALSE, at |-> clock]
           s == IF Enters(t, g, full) THEN clock ELSE start[t]
<1>1. b \in ThreadRec /\ s \in Stamps /\ s <= clock /\ b.st = "queued" /\ b.at = clock
  BY DEF SchedInv, SchedType, Queued, ThreadRec, Stamps
<1>2. thread' = [thread EXCEPT ![t] = b] /\ UNCHANGED <<clock, hist, truth>>
  BY DEF Spawn
<1>3. start' = [start EXCEPT ![t] = s]
  BY Zenon DEF Spawn, SchedInv, SchedType
<1>4. (t \in covered' => s = clock) /\ \A u \in Tids \ {t} : u \in covered' => u \in covered
  BY DEF Spawn
<1> HIDE DEF b, s
<1> QED  BY <1>1, <1>2, <1>3, <1>4, OneThread, Zenon

(* A sleeping thread is queued. *)
LEMMA WakeInv ==
  ASSUME SchedInv, NEW t \in Tids, NEW full \in BOOLEAN, Wake(t, full)
  PROVE  SchedInv'
<1> DEFINE b == [thread[t] EXCEPT !.st = "queued", !.at = clock]
           s == IF Enters(t, thread[t].own, full) THEN clock ELSE start[t]
<1>0. b \in ThreadRec /\ b.st = "queued" /\ b.at = clock
  BY Zenon DEF SchedInv, SchedType, ThreadRec, Stamps
<1>1. s \in Stamps /\ s <= clock
  BY DEF SchedInv, SchedType, Queued, Stamps
<1>2. thread' = [thread EXCEPT ![t] = b] /\ UNCHANGED <<clock, hist, truth>>
  BY Zenon DEF Wake, SchedInv, SchedType
<1>3. start' = [start EXCEPT ![t] = s]
  BY Zenon DEF Wake, RunqEnqueue, SchedInv, SchedType
<1>4. (t \in covered' => s = clock) /\ \A u \in Tids \ {t} : u \in covered' => u \in covered
  BY DEF Wake, Covers
<1> HIDE DEF b, s
<1> QED  BY <1>0, <1>1, <1>2, <1>3, <1>4, OneThread, Zenon

(* A running thread is woken, which moves its start time only. *)
LEMMA WakeRunningInv ==
  ASSUME SchedInv, NEW t \in Tids, NEW full \in BOOLEAN, WakeRunning(t, full)
  PROVE  SchedInv'
<1> DEFINE s == IF Enters(t, thread[t].own, full) THEN clock ELSE start[t]
<1>1. thread[t] \in ThreadRec /\ s \in Stamps /\ s <= clock /\ thread[t].st \notin {"queued", "preempted"}
  BY DEF WakeRunning, SchedInv, SchedType, Queued, Stamps
<1>2. thread' = [thread EXCEPT ![t] = thread[t]] /\ UNCHANGED <<clock, hist, truth, covered>>
  BY DEF WakeRunning, SchedInv, SchedType, kernel
<1>3. start' = [start EXCEPT ![t] = s]
  BY Zenon DEF WakeRunning, RunqEnqueue, SchedInv, SchedType
<1> HIDE DEF s
<1> QED  BY <1>1, <1>2, <1>3, OneThread, Zenon

(* A dying thread loses its entries if its process is a target. *)
LEMMA ProcessExitInv ==
  ASSUME SchedInv, NEW t \in Tids, SchedProcessExit(t)
  PROVE  SchedInv'
<1> DEFINE b == [thread[t] EXCEPT !.dying = TRUE]
           s == IF IsTarget(t) THEN None ELSE start[t]
<1>0. b \in ThreadRec /\ b.st \notin {"queued", "preempted"}
  BY Zenon DEF SchedProcessExit, SchedInv, SchedType, ThreadRec
<1>1. s \in Stamps /\ s <= clock
  BY DEF SchedInv, SchedType, Queued, Stamps, None
<1>2. thread' = [thread EXCEPT ![t] = b] /\ UNCHANGED <<clock, covered>>
  BY DEF SchedProcessExit, SchedInv, SchedType
<1>3. start' = [start EXCEPT ![t] = s]
  BY DEF SchedProcessExit, SchedInv, SchedType
<1>4. \/ UNCHANGED <<hist, truth>>
      \/ hist' = [hist EXCEPT ![t] = None] /\ truth' = [truth EXCEPT ![t] = Untold]
  BY DEF SchedProcessExit
<1> HIDE DEF b, s
<1> QED  BY <1>0, <1>1, <1>2, <1>3, <1>4, OneThread, Zenon

(* sched_switch: the wait that goes into the histogram of next is measured *)
(* from a start time that is not later than its queueing.                  *)
LEMMA SwitchInv ==
  ASSUME SchedInv, NEW c \in CPUs, NEW next \in Tids \cup {None},
         NEW st \in {"gone", "sleeping", "queued", "preempted"},
         NEW full \in BOOLEAN, NEW histFull \in BOOLEAN, SchedSwitch(c, next, st, full, histFull)
  PROVE  SchedInv'
<1> DEFINE prev == cur[c]
           told == next # None /\ IsTarget(next) /\ start[next] # None
           delta == clock - start[next]
           wait == clock - thread[next].at
<1>1. /\ prev # next /\ clock' = clock
      /\ next # None => thread[next].st \in {"queued", "preempted"}
      /\ prev = None => st = "gone"
  BY DEF SchedSwitch
<1>2. thread' = [t \in Tids |->
        IF t = prev THEN Left(t, st)
        ELSE IF t = next THEN [thread[t] EXCEPT !.st = "running"] ELSE thread[t]]
  BY DEF SchedSwitch
<1>3. \A t \in covered' :
        /\ t # next
        /\ IF t = prev THEN st = "queued" /\ Enters(t, thread[t].own, full) ELSE t \in covered
  BY DEF SchedSwitch, Covers, RunqPreempted
<1>4. start' = [t \in Tids |->
        IF st = "queued" /\ t = prev /\ Enters(t, thread[t].own, full) THEN clock
        ELSE IF t = next /\ told THEN None ELSE start[t]]
  BY <1>1 DEF SchedSwitch, RunqPreempted
<1>5. IF told /\ (hist[next] # None \/ ~histFull)
      THEN /\ hist' = [hist EXCEPT ![next] = Max({hist[next], delta})]
           /\ truth' = [truth EXCEPT ![next] =
                [wait |-> Max({truth[next].wait, wait}),
                 clean |-> truth[next].clean /\ next \in covered]]
      ELSE UNCHANGED <<hist, truth>>
  BY DEF SchedSwitch, SchedInv, SchedType
<1>6. \A t \in Tids : Left(t, st) \in ThreadRec /\ Left(t, st).st = st
                      /\ (st # "gone" => Left(t, st).at = clock)
  BY Zenon DEF Left, NoThread, NoOne, None, SchedInv, SchedType, ThreadRec, Stamps
<1>7. \A t \in Tids : [thread[t] EXCEPT !.st = "running"] \in ThreadRec
                      /\ [thread[t] EXCEPT !.st = "running"].st = "running"
  BY DEF SchedInv, SchedType, ThreadRec
<1>8. /\ clock \in Nat /\ thread \in [Tids -> ThreadRec] /\ start \in [Tids -> Stamps]
      /\ \A t \in Tids : Queued(t)
  BY DEF SchedInv, SchedType
<1>9. thread' \in [Tids -> ThreadRec] /\ start' \in [Tids -> Stamps]
  BY <1>2, <1>4, <1>6, <1>7, <1>8 DEF Stamps
<1> HIDE DEF prev
<1>10. ASSUME NEW t \in Tids PROVE Queued(t)'
  <2>1. start'[t] <= clock'
    BY <1>1, <1>4, <1>8 DEF Queued, Stamps, None
  <2>2. CASE t = prev
    <3>1. thread'[t] = Left(t, st)
      BY <1>2, <2>2
    <3>2. start[t] <= clock /\ (start'[t] = clock \/ start'[t] = start[t])
      BY <1>1, <1>4, <1>8, <2>2 DEF Queued
    <3>3. t \in covered' => start'[t] = clock
      BY <1>3, <1>4, <2>2
    <3> QED  BY <1>1, <1>6, <1>8, <2>1, <3>1, <3>2, <3>3 DEF Queued
  <2>3. CASE t = next
    BY <1>1, <1>2, <1>7, <2>1, <2>3 DEF Queued
  <2>4. CASE t # prev /\ t # next
    BY <1>1, <1>2, <1>3, <1>4, <1>8, <2>4 DEF Queued
  <2> QED  BY <2>2, <2>3, <2>4
<1>11. hist' \in [Tids -> Stamps] /\ truth' \in [Tids -> [wait : Stamps, clean : BOOLEAN]]
       /\ \A t \in Tids : Told(t)'
  <2>1. CASE ~(told /\ (hist[next] # None \/ ~histFull))
    BY <1>5, <2>1 DEF SchedInv, SchedType, Told
  <2>2. CASE told /\ (hist[next] # None \/ ~histFull)
    <3>0. next # None /\ next \in Tids /\ start[next] # None
      BY <2>2
    <3>1. delta \in Nat /\ wait \in Nat /\ delta >= wait /\ (next \in covered => delta = wait)
      BY <1>1, <1>8, <3>0 DEF Queued, Stamps
    <3>2. hist[next] \in Stamps /\ truth[next].wait \in Stamps /\ truth[next].clean \in BOOLEAN
          /\ Told(next)
      BY <3>0 DEF SchedInv, SchedType
    <3> HIDE DEF told, delta, wait
    <3>3. Max({hist[next], delta}) = IF hist[next] >= delta THEN hist[next] ELSE delta
      BY <3>1, <3>2, MaxOfTwo DEF Stamps, None
    <3>4. Max({truth[next].wait, wait}) =
            IF truth[next].wait >= wait THEN truth[next].wait ELSE wait
      BY <3>1, <3>2, MaxOfTwo DEF Stamps, None
    <3> DEFINE h == Max({hist[next], delta})
               w == Max({truth[next].wait, wait})
    <3>5. h \in Stamps /\ w \in Stamps /\ h >= w
          /\ (truth[next].clean /\ next \in covered => h = w)
      BY <3>1, <3>2, <3>3, <3>4 DEF Told, Stamps, None
    <3> HIDE DEF h, w
    <3>6. hist' = [hist EXCEPT ![next] = h] /\ truth' = [truth EXCEPT ![next] =
            [wait |-> w, clean |-> truth[next].clean /\ next \in covered]]
      BY <1>5, <2>2 DEF h, w
    <3> QED  BY <3>0, <3>2, <3>5, <3>6, Zenon DEF SchedInv, SchedType, Told
  <2> QED  BY <2>1, <2>2
<1> QED  BY <1>1, <1>8, <1>9, <1>10, <1>11 DEF SchedInv, SchedType

(* Every step of the scheduler's hooks and of SetTargets keeps SchedInv. *)
LEMMA SchedNext ==
  ASSUME SchedInv, Next
  PROVE  SchedInv' /\ clock' \in Nat /\ clock' >= clock /\ (clock' = clock \/ clock' = clock + 1)
<1>0. clock \in Nat
  BY DEF SchedInv, SchedType
<1>1. CASE Pass
  <2>1. clock' = clock + 1 /\ UNCHANGED <<thread, start, hist, covered, truth>>
    BY <1>1 DEF Pass, kernel, maps
  <2> QED  BY <1>0, <2>1, SchedKeeps
<1>2. ASSUME NEW t \in Tids, NEW g \in Tgids, NEW full \in BOOLEAN, Spawn(t, g, full)
      PROVE  SchedInv' /\ clock' = clock
  BY <1>2, SpawnInv, Zenon DEF Spawn
<1>3. ASSUME NEW t \in Tids, NEW full \in BOOLEAN, Wake(t, full) \/ WakeRunning(t, full)
      PROVE  SchedInv' /\ clock' = clock
  BY <1>3, WakeInv, WakeRunningInv DEF Wake, WakeRunning
<1>5. ASSUME NEW t \in Tids, SchedProcessExit(t) PROVE SchedInv' /\ clock' = clock
  BY <1>5, ProcessExitInv DEF SchedProcessExit
<1>4. ASSUME NEW c \in CPUs, NEW next \in Tids \cup {None},
             NEW st \in {"gone", "sleeping", "queued", "preempted"},
             NEW full \in BOOLEAN, NEW histFull \in BOOLEAN,
             SchedSwitch(c, next, st, full, histFull)
      PROVE  SchedInv' /\ clock' = clock
  <2>1. SchedInv'
    BY <1>4, SwitchInv, Zenon
  <2>2. clock' = clock
    BY <1>4 DEF SchedSwitch
  <2> QED  BY <2>1, <2>2
<1>6. ASSUME NEW tgids \in SUBSET Tgids,
             SetTargets(tgids) \/ AddTarget(tgids) \/ DeleteTarget
      PROVE  SchedInv' /\ clock' = clock
  <2>1. UNCHANGED <<clock, thread, start, hist, covered, truth>>
    BY <1>6 DEF SetTargets, AddTarget, DeleteTarget, kernel, maps
  <2> QED  BY <1>0, <2>1, SchedKeeps
<1>7. SchedInv' /\ (clock' = clock \/ clock' = clock + 1)
  BY <1>1, <1>2, <1>3, <1>4, <1>5, <1>6, Zenon DEF Next
<1> QED  BY <1>0, <1>7

-----------------------------------------------------------------------------
(* Block requests. *)
(* What a step can leave of a request: all of it, or all but that it is    *)
(* alone on its sector.                                                    *)
Less(a, b) ==
  /\ b \in B!Request
  /\ b.sector = a.sector /\ b.data = a.data /\ b.issue = a.issue /\ b.found = a.found
  /\ b.whole = a.whole /\ (b.alone => a.alone)

(* Shared takes nothing from a request but that it is alone. *)
LEMMA SharedKeeps ==
  ASSUME B!BlockAssumption, B!TypeOK, NEW s \in Sectors
  PROVE  /\ B!Shared(s) \in [Reqs -> B!Request \cup {Nil}]
         /\ \A r \in Reqs : B!Shared(s)[r] = Nil <=> req[r] = Nil
         /\ \A r \in Reqs : req[r] # Nil =>
              /\ Less(req[r], B!Shared(s)[r])
              /\ req[r].sector = s => ~B!Shared(s)[r].alone
<1>1. \A r \in Reqs : req[r] # Nil => req[r] \in B!Request
  BY DEF B!TypeOK
<1>2. \A a \in B!Request : /\ [a EXCEPT !.alone = FALSE] \in B!Request
                           /\ Less(a, [a EXCEPT !.alone = FALSE])
                           /\ ~[a EXCEPT !.alone = FALSE].alone
                           /\ Less(a, a)
  BY Zenon DEF B!Request, Less
<1>3. Nil \notin B!Request
  BY DEF B!BlockAssumption
<1>4. \A r \in Reqs : B!Shared(s)[r] = IF req[r] # Nil /\ req[r].sector = s
                                       THEN [req[r] EXCEPT !.alone = FALSE] ELSE req[r]
  BY DEF B!Shared, B!On
<1>5. B!Shared(s) = [r \in Reqs |-> B!Shared(s)[r]]
  BY DEF B!Shared
<1>6. \A r \in Reqs : /\ B!Shared(s)[r] \in B!Request \cup {Nil}
                      /\ B!Shared(s)[r] = Nil <=> req[r] = Nil
  BY <1>1, <1>2, <1>3, <1>4, Zenon
<1>7. \A r \in Reqs : req[r] # Nil => /\ Less(req[r], B!Shared(s)[r])
                                      /\ req[r].sector = s => ~B!Shared(s)[r].alone
  BY <1>1, <1>2, <1>4, Zenon
<1> QED  BY <1>5, <1>6, <1>7
-----------------------------------------------------------------------------
(* The invariant of the requests: two that share a sector are both known to*)
(* do so, no issue lies in the future, and the entry of a sector is no     *)
(* older than any whole request that waits for it.                         *)
BlockInv ==
  /\ B!TypeOK /\ B!BlockLatencyTrue
  /\ \A q, r \in Reqs :
       q # r /\ req[q] # Nil /\ req[r] # Nil /\ req[q].sector = req[r].sector => ~req[r].alone
  /\ \A r \in Reqs : req[r] # Nil =>
       /\ req[r].issue.ts <= clock
       /\ req[r].data /\ req[r].whole /\ blkStart[req[r].sector] # Nil =>
            req[r].issue.ts <= blkStart[req[r].sector].ts

(* A step takes from the requests other than r at most that they are alone,*)
(* and leaves the entry that a lone one waits for.                         *)
OthersLess(r) ==
  \A q \in Reqs \ {r} :
    /\ req[q] = Nil => req'[q] = Nil
    /\ req[q] # Nil => req'[q] # Nil /\ Less(req[q], req'[q])

OthersWait(r) ==
  \A q \in Reqs \ {r} : req[q] # Nil /\ req'[q].alone /\ req[q].data =>
    req[q].found # Nil \/ blkStart'[req[q].sector] = blkStart[req[q].sector]

(* The invariant holds of b, which a step puts in the place of request r. *)
RequestFits(r, b) ==
  b # Nil =>
    /\ b.issue.ts <= clock
    /\ \A q \in Reqs \ {r} : req[q] # Nil /\ req[q].sector = b.sector =>
         ~b.alone /\ ~req'[q].alone
    /\ b.data =>
         /\ b.whole /\ b.found # Nil => b.found.ts >= b.issue.ts
         /\ b.whole /\ blkStart'[b.sector] # Nil => b.issue.ts <= blkStart'[b.sector].ts
         /\ b.alone => (IF b.found = Nil THEN blkStart'[b.sector] ELSE b.found) = b.issue

(* A step leaves each entry, deletes it or makes it that of b. *)
EntriesFit(r, b) ==
  \A s \in Sectors : blkStart'[s] # Nil =>
    \/ b # Nil /\ b.sector = s /\ b.data /\ b.issue = blkStart'[s] /\ b.issue.ts = clock
    \/ /\ blkStart'[s] = blkStart[s]
       /\ req[r] # Nil /\ req[r].sector = s /\ req[r].data =>
            b # Nil /\ b.sector = s /\ b.data /\ b.issue = req[r].issue

(* A step that does all this preserves the invariant. *)
LEMMA RequestStep ==
  ASSUME B!BlockAssumption, BlockInv, NEW r \in Reqs, NEW b \in B!Request \cup {Nil},
         clock' = clock, targets' \subseteq Tgids, blkVmHist' \subseteq Tgids,
         req' \in [Reqs -> B!Request \cup {Nil}], blkStart' \in [Sectors -> B!Entry \cup {Nil}],
         req'[r] = b, OthersLess(r), OthersWait(r), RequestFits(r, b), EntriesFit(r, b)
  PROVE  BlockInv'
<1>1. B!TypeOK'
  BY DEF BlockInv, B!TypeOK
<1>2. ASSUME NEW s \in Sectors, blkStart'[s] # Nil
      PROVE  \E q \in Reqs : /\ req'[q] # Nil /\ req'[q].sector = s
                             /\ req'[q].data /\ req'[q].issue = blkStart'[s]
  <2>1. CASE b # Nil /\ b.sector = s /\ b.data /\ b.issue = blkStart'[s]
    BY <2>1
  <2>2. CASE /\ blkStart'[s] = blkStart[s]
             /\ req[r] # Nil /\ req[r].sector = s /\ req[r].data =>
                  b # Nil /\ b.sector = s /\ b.data /\ b.issue = req[r].issue
    <3>1. PICK q \in Reqs : /\ req[q] # Nil /\ req[q].sector = s
                            /\ req[q].data /\ req[q].issue = blkStart[s]
      BY <1>2, <2>2 DEF BlockInv, B!BlockLatencyTrue, B!On
    <3>2. CASE q = r
      BY <2>2, <3>1, <3>2
    <3>3. CASE q # r
      BY <2>2, <3>1, <3>3 DEF Less, OthersLess
    <3> QED  BY <3>2, <3>3
  <2> QED  BY <1>2, <2>1, <2>2 DEF EntriesFit
<1>3. ASSUME NEW q \in Reqs, req'[q] # Nil, req'[q].data
      PROVE  /\ req'[q].whole /\ req'[q].found # Nil => req'[q].found.ts >= req'[q].issue.ts
             /\ req'[q].alone =>
                 (IF req'[q].found = Nil THEN blkStart'[req'[q].sector] ELSE req'[q].found)
                   = req'[q].issue
  <2>1. CASE q = r
    BY <1>3, <2>1 DEF RequestFits
  <2>2. CASE q # r
    <3>1. /\ req[q] # Nil /\ req'[q].sector = req[q].sector /\ req'[q].data = req[q].data
          /\ req'[q].issue = req[q].issue /\ req'[q].found = req[q].found
          /\ req'[q].whole = req[q].whole /\ (req'[q].alone => req[q].alone)
      BY <1>3, <2>2, Zenon DEF OthersLess, Less
    <3>2. /\ req[q].whole /\ req[q].found # Nil => req[q].found.ts >= req[q].issue.ts
          /\ req[q].alone =>
               (IF req[q].found = Nil THEN blkStart[req[q].sector] ELSE req[q].found)
                 = req[q].issue
      BY <1>3, <3>1 DEF BlockInv, B!BlockLatencyTrue
    <3>3. req'[q].alone =>
            req[q].found # Nil \/ blkStart'[req[q].sector] = blkStart[req[q].sector]
      BY <1>3, <2>2, <3>1 DEF OthersWait
    <3> QED  BY <3>1, <3>2, <3>3
  <2> QED  BY <2>1, <2>2
<1>4. ASSUME NEW p \in Reqs, NEW q \in Reqs, p # q, req'[p] # Nil, req'[q] # Nil,
             req'[p].sector = req'[q].sector
      PROVE  ~req'[q].alone
  <2>1. CASE p # r /\ q # r
    BY <1>4, <2>1 DEF BlockInv, Less, OthersLess
  <2>2. CASE p = r \/ q = r
    BY <1>4, <2>2 DEF Less, OthersLess, RequestFits
  <2> QED  BY <2>1, <2>2
<1>5. ASSUME NEW q \in Reqs, req'[q] # Nil
      PROVE  /\ req'[q].issue.ts <= clock
             /\ req'[q].data /\ req'[q].whole /\ blkStart'[req'[q].sector] # Nil =>
                  req'[q].issue.ts <= blkStart'[req'[q].sector].ts
  <2>1. CASE q = r
    BY <1>5, <2>1 DEF RequestFits
  <2>2. CASE q # r
    <3>1. /\ req[q] # Nil /\ req'[q].sector = req[q].sector /\ req'[q].data = req[q].data
          /\ req'[q].issue = req[q].issue /\ req'[q].whole = req[q].whole
      BY <1>5, <2>2 DEF OthersLess, Less
    <3>2. /\ req[q].sector \in Sectors /\ req[q].issue.ts <= clock
          /\ req[q].data /\ req[q].whole /\ blkStart[req[q].sector] # Nil =>
               req[q].issue.ts <= blkStart[req[q].sector].ts
      BY <3>1 DEF BlockInv, B!TypeOK, B!Request
    <3>3. \/ blkStart'[req[q].sector] = Nil
          \/ blkStart'[req[q].sector] = blkStart[req[q].sector]
          \/ blkStart'[req[q].sector].ts = clock
      BY <3>2 DEF EntriesFit
    <3> QED  BY <3>1, <3>2, <3>3
  <2> QED  BY <2>1, <2>2
<1>6. B!BlockLatencyTrue'
  BY <1>2, <1>3 DEF B!BlockLatencyTrue, B!On
<1> QED  BY <1>1, <1>4, <1>5, <1>6 DEF BlockInv
-----------------------------------------------------------------------------
(* A request that stays as it is. *)
LEMMA LessSelf == \A a \in B!Request : Less(a, a)
BY DEF Less

(* What block_rq_issue writes is an entry. *)
LEMMA EntryType ==
  ASSUME B!TypeOK, NEW g \in Tgids
  PROVE  B!BlkStart(g) \in B!Entry /\ B!BlkStart(g).ts = clock
BY DEF B!TypeOK, B!BlkStart, B!Entry

(* What block_rq_issue leaves of blk_start. *)
LEMMA EnterType ==
  ASSUME B!TypeOK, NEW s \in Sectors, NEW e \in B!Entry, NEW d \in BOOLEAN, B!Enter(s, e, d)
  PROVE  /\ blkStart' \in [Sectors -> B!Entry \cup {Nil}]
         /\ d => blkStart'[s] = e
         /\ \A t \in Sectors : blkStart'[t] = blkStart[t] \/ (t = s /\ d)
BY DEF B!TypeOK, B!Enter

(* block_rq_issue of a new request. *)
LEMMA IssueInv ==
  ASSUME B!BlockAssumption, BlockInv, NEW r \in Reqs, NEW s \in Sectors, NEW g \in Tgids,
         NEW data \in BOOLEAN, B!Issue(r, s, g, data)
  PROVE  BlockInv'
<1> DEFINE b == [sector |-> s, data |-> data, issue |-> B!BlkStart(g), found |-> Nil,
                 alone |-> B!On(s) = {}, whole |-> TRUE]
<1>0. B!TypeOK
  BY DEF BlockInv
<1>1. B!BlkStart(g) \in B!Entry /\ B!BlkStart(g).ts = clock
  BY <1>0, EntryType
<1>2. /\ b \in B!Request /\ b.sector = s /\ b.issue = B!BlkStart(g) /\ b.found = Nil
      /\ b.data = data /\ (b.alone <=> B!On(s) = {})
  BY <1>1, Zenon DEF B!Request
<1> HIDE DEF b
<1>3. req[r] = Nil /\ req' = [B!Shared(s) EXCEPT ![r] = b] /\ B!Enter(s, B!BlkStart(g), data)
  BY DEF B!Issue, b
<1>4. UNCHANGED <<clock, targets, blkVmHist>>
  BY DEF B!Issue
<1>5. /\ req' \in [Reqs -> B!Request \cup {Nil}] /\ req'[r] = b
      /\ \A q \in Reqs \ {r} : req'[q] = B!Shared(s)[q]
  BY <1>0, <1>2, <1>3, SharedKeeps
<1>6. \A q \in Reqs \ {r} : /\ req[q] = Nil => req'[q] = Nil
                            /\ req[q] # Nil => req'[q] # Nil /\ Less(req[q], req'[q])
                            /\ req[q] # Nil /\ req[q].sector = s => ~req'[q].alone
  BY <1>0, <1>5, SharedKeeps
<1>7. /\ blkStart' \in [Sectors -> B!Entry \cup {Nil}]
      /\ data => blkStart'[s] = B!BlkStart(g)
      /\ \A t \in Sectors : blkStart'[t] = blkStart[t] \/ (t = s /\ data)
  BY <1>0, <1>1, <1>3, EnterType
<1>8. \A q \in Reqs \ {r} : req[q] # Nil /\ req[q].sector = s => ~b.alone
  BY <1>2 DEF B!On
<1>9. \A q \in Reqs : req[q] # Nil => req[q].sector \in Sectors
  BY <1>0 DEF B!TypeOK, B!Request
<1>10. clock \in Nat /\ Nil \notin B!Entry /\ Nil \notin B!Request
       /\ targets \subseteq Tgids /\ blkVmHist \subseteq Tgids
  BY <1>0 DEF B!TypeOK, B!BlockAssumption
<1>11. OthersLess(r) /\ OthersWait(r)
  BY <1>6, <1>7, <1>9 DEF OthersLess, OthersWait
<1>12. RequestFits(r, b)
  <2>1. b.issue.ts = clock /\ (b.data => blkStart'[b.sector] = b.issue)
    BY <1>1, <1>2, <1>7
  <2>2. \A q \in Reqs \ {r} : req[q] # Nil /\ req[q].sector = b.sector =>
          ~b.alone /\ ~req'[q].alone
    BY <1>2, <1>6, <1>8
  <2> QED  BY <1>2, <1>10, <2>1, <2>2 DEF RequestFits
<1>13. EntriesFit(r, b)
  BY <1>1, <1>2, <1>3, <1>7, <1>10 DEF EntriesFit
<1> QED  BY <1>2, <1>4, <1>5, <1>7, <1>10, <1>11, <1>12, <1>13, RequestStep

(* What the invariant says of one request. *)
LEMMA OneRequest ==
  ASSUME B!BlockAssumption, BlockInv, NEW r \in Reqs, req[r] # Nil
  PROVE  /\ req[r] \in B!Request /\ req[r].sector \in Sectors /\ req[r].data \in BOOLEAN
         /\ req[r].issue \in B!Entry /\ req[r].issue.ts \in Nat /\ req[r].issue.ts <= clock
         /\ clock \in Nat /\ targets \subseteq Tgids /\ blkVmHist \subseteq Tgids
         /\ Nil \notin B!Entry /\ Nil \notin B!Request
BY DEF BlockInv, B!TypeOK, B!Request, B!Entry, B!BlockAssumption

(* Only request r changes. *)
LEMMA OthersStay ==
  ASSUME B!BlockAssumption, BlockInv, NEW r \in Reqs, NEW b \in B!Request \cup {Nil},
         req' = [req EXCEPT ![r] = b]
  PROVE  /\ req' \in [Reqs -> B!Request \cup {Nil}] /\ req'[r] = b
         /\ \A q \in Reqs \ {r} : /\ req'[q] = req[q]
                                  /\ req[q] # Nil => Less(req[q], req'[q])
BY LessSelf DEF BlockInv, B!TypeOK

(* block_rq_issue of a request that was put back to its queue. *)
LEMMA ReissueInv ==
  ASSUME B!BlockAssumption, BlockInv, NEW r \in Reqs, NEW g \in Tgids, B!Reissue(r, g)
  PROVE  BlockInv'
<1> DEFINE b == [req[r] EXCEPT !.issue = B!BlkStart(g), !.alone = FALSE]
<1>0. B!TypeOK /\ req[r] # Nil /\ req[r].found = Nil
  BY DEF BlockInv, B!Reissue
<1>1. B!BlkStart(g) \in B!Entry /\ B!BlkStart(g).ts = clock
  BY <1>0, EntryType
<1>2. /\ b \in B!Request /\ b.sector = req[r].sector /\ b.issue = B!BlkStart(g) /\ b.found = Nil
      /\ b.data = req[r].data /\ ~b.alone
  BY <1>0, <1>1, OneRequest, Zenon DEF B!Request
<1>3. req' = [req EXCEPT ![r] = b]
  BY Zenon DEF B!Reissue
<1> HIDE DEF b
<1>4. /\ blkStart' \in [Sectors -> B!Entry \cup {Nil}]
      /\ req[r].data => blkStart'[req[r].sector] = B!BlkStart(g)
      /\ \A t \in Sectors : blkStart'[t] = blkStart[t] \/ (t = req[r].sector /\ req[r].data)
  BY <1>0, <1>1, OneRequest, EnterType DEF B!Reissue
<1>5. UNCHANGED <<clock, targets, blkVmHist>>
  BY DEF B!Reissue
<1>6. \A q \in Reqs \ {r} : req[q] # Nil /\ req[q].sector = req[r].sector => ~req[q].alone
  BY <1>0 DEF BlockInv
<1>7. \A q \in Reqs : req[q] # Nil => req[q].sector \in Sectors
  BY OneRequest
<1>8. /\ clock \in Nat /\ targets \subseteq Tgids /\ blkVmHist \subseteq Tgids
      /\ Nil \notin B!Entry /\ Nil \notin B!Request
  BY <1>0, OneRequest
<1>9. /\ req' \in [Reqs -> B!Request \cup {Nil}] /\ req'[r] = b
      /\ \A q \in Reqs \ {r} : /\ req'[q] = req[q]
                               /\ req[q] # Nil => Less(req[q], req'[q])
  BY <1>2, <1>3, OthersStay, Zenon
<1>10. \A t \in Sectors : blkStart'[t] # Nil =>
         \/ b.sector = t /\ b.data /\ b.issue = blkStart'[t] /\ b.issue.ts = clock
         \/ blkStart'[t] = blkStart[t] /\ ~(req[r].sector = t /\ req[r].data)
  BY <1>1, <1>2, <1>4
<1>11. \A q \in Reqs \ {r} : req[q] # Nil /\ req'[q].alone =>
         blkStart'[req[q].sector] = blkStart[req[q].sector]
  BY <1>4, <1>6, <1>7, <1>9
<1>12. b.data /\ blkStart'[b.sector] # Nil => b.issue.ts <= blkStart'[b.sector].ts
  BY <1>1, <1>2, <1>4, <1>8
<1>13. b # Nil /\ b.issue.ts <= clock
  BY <1>1, <1>2, <1>8
<1>14. \A q \in Reqs \ {r} : req[q] # Nil /\ req[q].sector = b.sector => ~req'[q].alone
  BY <1>2, <1>6, <1>9
<1>15. OthersLess(r) /\ OthersWait(r)
  BY <1>9, <1>11 DEF OthersLess, OthersWait
<1>16. RequestFits(r, b)
  BY <1>2, <1>12, <1>13, <1>14 DEF RequestFits
<1>17. EntriesFit(r, b)
  BY <1>10, <1>13 DEF EntriesFit
<1> QED  BY <1>2, <1>4, <1>5, <1>8, <1>9, <1>15, <1>16, <1>17, RequestStep

(* The lookup of block_rq_complete remembers the entry it finds. *)
LEMMA LookupInv ==
  ASSUME B!BlockAssumption, BlockInv, NEW r \in Reqs, B!CompleteLookup(r)
  PROVE  BlockInv'
<1> DEFINE b == [req[r] EXCEPT !.found = blkStart[req[r].sector]]
<1>0. B!TypeOK /\ req[r] # Nil /\ req[r].found = Nil /\ blkStart[req[r].sector] # Nil
  BY DEF BlockInv, B!CompleteLookup
<1>1. blkStart[req[r].sector] \in B!Entry
  BY <1>0, OneRequest DEF B!TypeOK
<1>2. /\ b \in B!Request /\ b.sector = req[r].sector /\ b.issue = req[r].issue
      /\ b.found = blkStart[req[r].sector] /\ b.data = req[r].data
      /\ b.alone = req[r].alone /\ b.whole = req[r].whole
  BY <1>0, <1>1, OneRequest DEF B!Request
<1>3. req' = [req EXCEPT ![r] = b] /\ UNCHANGED <<clock, targets, blkStart, blkVmHist>>
  BY DEF B!CompleteLookup
<1> HIDE DEF b
<1>4. \A q \in Reqs \ {r} : req[q] # Nil /\ req[q].sector = req[r].sector =>
        ~req[q].alone /\ ~req[r].alone
  BY <1>0 DEF BlockInv
<1>5. req[r].data => /\ req[r].whole => blkStart[req[r].sector].ts >= req[r].issue.ts
                     /\ req[r].alone => blkStart[req[r].sector] = req[r].issue
  <2>1. blkStart[req[r].sector].ts \in Nat
    BY <1>1 DEF B!Entry
  <2> QED  BY <1>0, <2>1, OneRequest, ZenonT(30) DEF BlockInv, B!BlockLatencyTrue
<1>6. blkStart \in [Sectors -> B!Entry \cup {Nil}]
  BY <1>0 DEF B!TypeOK
<1>7. /\ clock \in Nat /\ targets \subseteq Tgids /\ blkVmHist \subseteq Tgids
      /\ req[r].issue.ts <= clock /\ Nil \notin B!Entry /\ Nil \notin B!Request
  BY <1>0, OneRequest
<1>8. /\ req' \in [Reqs -> B!Request \cup {Nil}] /\ req'[r] = b
      /\ \A q \in Reqs \ {r} : /\ req'[q] = req[q]
                               /\ req[q] # Nil => Less(req[q], req'[q])
  BY <1>2, <1>3, OthersStay, ZenonT(30)
<1>9. blkStart[req[r].sector].ts \in Nat /\ req[r].issue.ts \in Nat
  BY <1>0, <1>1, OneRequest DEF B!Entry
<1>10. OthersLess(r) /\ OthersWait(r)
  BY <1>3, <1>8 DEF OthersLess, OthersWait
<1>11. RequestFits(r, b)
  BY <1>0, <1>2, <1>3, <1>4, <1>5, <1>7, <1>8, <1>9, ZenonT(30) DEF RequestFits
<1>12. EntriesFit(r, b)
  BY <1>2, <1>3, <1>7 DEF EntriesFit
<1> QED  BY <1>2, <1>3, <1>6, <1>7, <1>8, <1>10, <1>11, <1>12, RequestStep, Zenon

(* An entry that the LRU map drops belongs to no request that is alone. *)
LEMMA EvictInv ==
  ASSUME B!BlockAssumption, BlockInv, NEW s \in Sectors, B!Evict(s)
  PROVE  BlockInv'
<1>0. /\ B!TypeOK /\ blkStart[s] # Nil
      /\ blkStart' = [blkStart EXCEPT ![s] = Nil] /\ req' = B!Shared(s)
  BY DEF BlockInv, B!Evict
<1>1. PICK r \in Reqs : req[r] # Nil /\ req[r].sector = s
  BY <1>0 DEF BlockInv, B!BlockLatencyTrue, B!On
<1> DEFINE b == req'[r]
<1>2. /\ req' \in [Reqs -> B!Request \cup {Nil}]
      /\ \A q \in Reqs : /\ req[q] = Nil <=> req'[q] = Nil
                         /\ req[q] # Nil => Less(req[q], req'[q])
                         /\ req[q] # Nil /\ req[q].sector = s => ~req'[q].alone
  BY <1>0, SharedKeeps
<1>3. /\ b \in B!Request /\ b # Nil /\ ~b.alone /\ b.sector = s /\ b.issue = req[r].issue
      /\ b.found = req[r].found /\ b.data = req[r].data /\ b.whole = req[r].whole
  BY <1>1, <1>2 DEF Less
<1>4. blkStart' \in [Sectors -> B!Entry \cup {Nil}] /\ blkStart'[s] = Nil
      /\ \A t \in Sectors \ {s} : blkStart'[t] = blkStart[t]
  BY <1>0 DEF B!TypeOK
<1>5. b.data /\ b.whole /\ b.found # Nil => b.found.ts >= b.issue.ts
  BY <1>1, <1>3, Zenon DEF BlockInv, B!BlockLatencyTrue
<1>6. UNCHANGED <<clock, targets, blkVmHist>>
  BY DEF B!Evict
<1>7. /\ clock \in Nat /\ targets \subseteq Tgids /\ blkVmHist \subseteq Tgids
      /\ req[r].issue.ts <= clock
  BY <1>1, OneRequest
<1>8. \A q \in Reqs : req[q] # Nil => req[q].sector \in Sectors
  BY OneRequest
<1>9. OthersLess(r) /\ OthersWait(r)
  BY <1>2, <1>4, <1>8 DEF OthersLess, OthersWait
<1>10. req'[r] = b
  OBVIOUS
<1> HIDE DEF b
<1>11. RequestFits(r, b)
  BY <1>2, <1>3, <1>4, <1>5, <1>7, ZenonT(30) DEF RequestFits
<1>12. EntriesFit(r, b)
  BY <1>1, <1>3, <1>4 DEF EntriesFit
<1> QED  BY <1>2, <1>3, <1>4, <1>6, <1>7, <1>9, <1>10, <1>11, <1>12, RequestStep, ZenonT(30)

(* The end of a request, or of a part, with its entry deleted. *)
LEMMA LeaveInv ==
  ASSUME B!BlockAssumption, BlockInv, NEW r \in Reqs, req[r] # Nil,
         NEW rest \in Sectors \cup {Nil},
         B!Leave(r, rest), blkStart' = [blkStart EXCEPT ![req[r].sector] = Nil],
         UNCHANGED <<clock, targets>>, blkVmHist' \subseteq Tgids
  PROVE  BlockInv'
<1>0. B!TypeOK
  BY DEF BlockInv
<1>1. /\ blkStart' \in [Sectors -> B!Entry \cup {Nil}] /\ blkStart'[req[r].sector] = Nil
      /\ \A t \in Sectors \ {req[r].sector} : blkStart'[t] = blkStart[t]
  BY <1>0, OneRequest DEF B!TypeOK
<1>2. \A q \in Reqs \ {r} : req[q] # Nil /\ req[q].sector = req[r].sector => ~req[q].alone
  BY DEF BlockInv
<1>3. /\ clock \in Nat /\ targets \subseteq Tgids /\ Nil \notin B!Request
      /\ req[r].issue.ts <= clock
      /\ \A q \in Reqs : req[q] # Nil => req[q].sector \in Sectors
  BY OneRequest
<1>4. CASE rest = Nil
  <2>1. req' = [req EXCEPT ![r] = Nil]
    BY <1>4 DEF B!Leave
  <2>2. /\ req' \in [Reqs -> B!Request \cup {Nil}] /\ req'[r] = Nil
        /\ \A q \in Reqs \ {r} : /\ req'[q] = req[q]
                                 /\ req[q] # Nil => Less(req[q], req'[q])
    BY <2>1, OthersStay, Zenon
  <2>3. \A q \in Reqs \ {r} : req[q] # Nil /\ req'[q].alone =>
          blkStart'[req[q].sector] = blkStart[req[q].sector]
    BY <1>1, <1>2, <1>3, <2>2
  <2>4. \A t \in Sectors : blkStart'[t] # Nil => blkStart'[t] = blkStart[t] /\ t # req[r].sector
    BY <1>1
  <2>5. clock' = clock /\ targets' \subseteq Tgids
    BY <1>3
  <2>6. Nil \in B!Request \cup {Nil}
    OBVIOUS
  <2>7. OthersLess(r) /\ OthersWait(r)
    BY <2>2, <2>3 DEF OthersLess, OthersWait
  <2>8. RequestFits(r, Nil) /\ EntriesFit(r, Nil)
    BY <2>4 DEF RequestFits, EntriesFit
  <2> QED  BY <1>1, <2>2, <2>5, <2>6, <2>7, <2>8, RequestStep, Zenon
<1>5. CASE rest # Nil
  <2> DEFINE b == [req[r] EXCEPT !.sector = rest, !.found = Nil,
                                 !.alone = FALSE, !.whole = FALSE]
  <2>1. rest \in Sectors /\ rest # req[r].sector /\ req' = [B!Shared(rest) EXCEPT ![r] = b]
    BY <1>5 DEF B!Leave
  <2>2. /\ b \in B!Request /\ b.sector = rest /\ b.issue = req[r].issue /\ b.found = Nil
        /\ ~b.alone /\ ~b.whole
    BY <2>1, OneRequest, ZenonT(30) DEF B!Request
  <2> HIDE DEF b
  <2>3. /\ req' \in [Reqs -> B!Request \cup {Nil}] /\ req'[r] = b
        /\ \A q \in Reqs \ {r} : req'[q] = B!Shared(rest)[q]
    BY <1>0, <2>1, <2>2, SharedKeeps
  <2>4. \A q \in Reqs \ {r} : /\ req[q] = Nil => req'[q] = Nil
                              /\ req[q] # Nil => req'[q] # Nil /\ Less(req[q], req'[q])
                              /\ req[q] # Nil /\ req[q].sector = rest => ~req'[q].alone
    BY <1>0, <2>1, <2>3, SharedKeeps
  <2>5. \A q \in Reqs \ {r} : req[q] # Nil /\ req[q].sector = req[r].sector => ~req'[q].alone
    BY <1>2, <2>4 DEF Less
  <2>6. OthersLess(r) /\ OthersWait(r)
    BY <1>1, <1>3, <2>4, <2>5, ZenonT(30) DEF OthersLess, OthersWait
  <2>7. RequestFits(r, b)
    BY <1>3, <2>2, <2>4, ZenonT(30) DEF RequestFits
  <2>8. EntriesFit(r, b)
    BY <1>1 DEF EntriesFit
  <2> QED  BY <1>1, <1>3, <2>2, <2>3, <2>6, <2>7, <2>8, RequestStep, Zenon
<1> QED  BY <1>4, <1>5
-----------------------------------------------------------------------------
(* Every step of the hooks, of the map and of SetTargets keeps BlockInv. *)
LEMMA BlockNext == B!BlockAssumption /\ BlockInv /\ [B!Next]_(B!vars) => BlockInv'
<1> SUFFICES ASSUME B!BlockAssumption, BlockInv, [B!Next]_(B!vars) PROVE BlockInv'
  OBVIOUS
<1>0. B!TypeOK
  BY DEF BlockInv
<1>1. CASE B!Pass
  <2>1. clock \in Nat /\ clock' = clock + 1 /\ UNCHANGED <<targets, req, blkStart, blkVmHist>>
    BY <1>0, <1>1 DEF B!Pass, B!TypeOK
  <2>2. \A r \in Reqs : req[r] # Nil => req[r].issue.ts \in Nat
    BY OneRequest
  <2>3. B!TypeOK' /\ B!BlockLatencyTrue'
    BY <2>1 DEF BlockInv, B!TypeOK, B!BlockLatencyTrue, B!On
  <2> QED  BY <2>1, <2>2, <2>3 DEF BlockInv
<1>2. ASSUME NEW r \in Reqs, NEW rest \in Sectors \cup {Nil}, B!CompleteUnknown(r, rest)
      PROVE  BlockInv'
  <2>1. blkStart' = [blkStart EXCEPT ![req[r].sector] = Nil]
    BY <1>0, <1>2 DEF B!CompleteUnknown, B!TypeOK
  <2> QED  BY <1>0, <1>2, <2>1, LeaveInv, Zenon DEF B!CompleteUnknown, B!TypeOK
<1>3. ASSUME NEW r \in Reqs, NEW rest \in Sectors \cup {Nil}, B!Complete(r, rest)
      PROVE  BlockInv'
  <2>1. req[r] \in B!Request /\ req[r].found \in B!Entry
    BY <1>0, <1>3, OneRequest DEF B!Complete, B!Request
  <2>2. blkVmHist' \subseteq Tgids
    BY <1>0, <1>3, <2>1 DEF B!Complete, B!HistKeys, B!TypeOK, B!Entry
  <2> QED  BY <1>3, <2>2, LeaveInv, Zenon DEF B!Complete
<1>4. ASSUME NEW ts \in SUBSET Tgids, NEW gone \in SUBSET Tgids, B!Retarget(ts, gone)
      PROVE  BlockInv'
  <2>1. /\ targets' \subseteq Tgids /\ blkVmHist' \subseteq Tgids
        /\ UNCHANGED <<clock, req, blkStart>>
    BY <1>0, <1>4 DEF B!Retarget, B!TypeOK
  <2>2. B!TypeOK' /\ B!BlockLatencyTrue'
    BY <2>1, Zenon DEF BlockInv, B!TypeOK, B!BlockLatencyTrue, B!On
  <2> QED  BY <2>1, <2>2 DEF BlockInv
<1>5. CASE UNCHANGED B!vars
  <2>1. B!TypeOK' /\ B!BlockLatencyTrue'
    BY <1>5, Zenon DEF B!vars, BlockInv, B!TypeOK, B!BlockLatencyTrue, B!On
  <2> QED  BY <1>5, <2>1 DEF B!vars, BlockInv
<1> QED  BY <1>1, <1>2, <1>3, <1>4, <1>5, IssueInv, ReissueInv, LookupInv, EvictInv
         DEF B!Next, B!Handlers

-----------------------------------------------------------------------------
(* The limiter. *)
(* The entry of event_rl is the time of an event that passed. *)
LimitInv ==
  /\ L!TypeOK
  /\ rlLast # L!None => rlPassed[rlLast] > 0

(* The unsigned difference of two times is less than a gap only if the     *)
(* first is the later one: a negative difference wraps around to more.     *)
LEMMA Unsigned ==
  ASSUME L!RateAssumption, NEW a \in L!Time, NEW b \in L!Time, L!Minus(a, b) < Gap
  PROVE b <= a /\ a - b < Gap
BY DEF L!RateAssumption, L!Time, L!Minus

(* Every step of rate_limited keeps LimitInv. *)
LEMMA LimitNext ==
  ASSUME L!RateAssumption, LimitInv, [L!Next]_(L!vars)
  PROVE LimitInv'
<1> DEFINE Place == [at : {"idle", "lookup", "update"}, now : L!Time]
<1>1. rlCpu \in [RlCPUs -> Place] /\ rlClock \in L!Time /\ rlLast \in L!Time \cup {L!None}
      /\ rlPassed \in [L!Time -> Nat] /\ (rlLast # L!None => rlPassed[rlLast] > 0)
  BY DEF LimitInv, L!TypeOK
<1>2. L!Idle \in Place
  BY DEF L!Idle, L!Time, L!RateAssumption
<1>3. \A t \in L!Time : [at |-> "lookup", now |-> t] \in Place
  OBVIOUS
<1>4. \A r \in Place : [r EXCEPT !.at = "update"] \in Place
  OBVIOUS
<1>5. \A r \in Place : r.now \in L!Time
  OBVIOUS
<1>6. SUFFICES /\ rlCpu' \in [RlCPUs -> Place] /\ rlClock' \in L!Time
               /\ rlLast' \in L!Time \cup {L!None}
               /\ rlPassed' \in [L!Time -> Nat] /\ (rlLast' # L!None => rlPassed'[rlLast'] > 0)
  BY DEF LimitInv, L!TypeOK
<1> HIDE DEF Place
<1>7. CASE L!Pass
  BY <1>1, <1>7 DEF L!Pass, L!RateAssumption, L!Time
<1>8. ASSUME NEW c \in RlCPUs, L!ReadClock(c)
      PROVE  rlCpu' \in [RlCPUs -> Place] /\ UNCHANGED <<rlClock, rlLast, rlPassed>>
  BY <1>1, <1>3, <1>8 DEF L!ReadClock
<1>9. ASSUME NEW c \in RlCPUs, L!Lookup(c)
      PROVE  rlCpu' \in [RlCPUs -> Place] /\ UNCHANGED <<rlClock, rlLast, rlPassed>>
  BY <1>1, <1>2, <1>4, <1>9 DEF L!Lookup
<1>10. ASSUME NEW c \in RlCPUs, L!Update(c)
       PROVE rlCpu' \in [RlCPUs -> Place] /\ rlClock' \in L!Time /\ rlLast' \in L!Time
             /\ rlPassed' \in [L!Time -> Nat] /\ rlPassed'[rlLast'] > 0
  <2>1. rlCpu' \in [RlCPUs -> Place] /\ rlClock' = rlClock
    BY <1>1, <1>2, <1>10 DEF L!Update
  <2>2. rlLast' \in L!Time /\ rlPassed' = [rlPassed EXCEPT ![rlLast'] = @ + 1]
    BY <1>1, <1>5, <1>10 DEF L!Update
  <2>3. rlPassed' \in [L!Time -> Nat] /\ rlPassed'[rlLast'] = rlPassed[rlLast'] + 1
    BY <1>1, <2>2
  <2> QED BY <1>1, <2>1, <2>2, <2>3
<1>11. CASE UNCHANGED L!vars
  BY <1>1, <1>11 DEF L!vars
<1> QED BY <1>1, <1>7, <1>8, <1>9, <1>10, <1>11 DEF L!Next

(* What rate_limited suppresses follows an event that passed less than a   *)
(* gap earlier.                                                            *)
LEMMA LimiterSuppresses ==
  ASSUME L!RateAssumption
  PROVE L!Spec => L!LimitedByRecent
<1>1. L!Init => LimitInv
  BY DEF L!Init, LimitInv, L!TypeOK, L!Idle, L!None, L!Time, L!RateAssumption
<1>2. LimitInv /\ [L!Next]_(L!vars) => LimitInv'
  BY LimitNext
<1> DEFINE Suppressed ==
      \A c \in RlCPUs : rlCpu[c].at = "lookup" /\ rlCpu'[c].at = "idle" =>
        \E t \in L!Time : rlPassed[t] > 0 /\ t <= rlCpu[c].now /\ rlCpu[c].now - t < Gap
<1>3. LimitInv /\ [L!Next]_(L!vars) => [Suppressed]_(L!vars)
  <2> SUFFICES ASSUME LimitInv, L!Next, NEW c \in RlCPUs,
                      rlCpu[c].at = "lookup", rlCpu'[c].at = "idle"
               PROVE \E t \in L!Time :
                        rlPassed[t] > 0 /\ t <= rlCpu[c].now /\ rlCpu[c].now - t < Gap
    OBVIOUS
  <2>1. L!Lookup(c)
    BY DEF L!Next, L!Pass, L!ReadClock, L!Lookup, L!Update, LimitInv, L!TypeOK, L!Idle
  <2>2. L!TooSoon(rlCpu[c].now)
    BY <2>1 DEF L!Lookup, LimitInv, L!TypeOK
  <2>3. rlLast \in L!Time /\ rlCpu[c].now \in L!Time /\ rlPassed[rlLast] > 0
    BY <2>2 DEF LimitInv, L!TypeOK, L!TooSoon
  <2>4. rlLast <= rlCpu[c].now /\ rlCpu[c].now - rlLast < Gap
    BY <2>2, <2>3, Unsigned DEF L!TooSoon
  <2> QED BY <2>3, <2>4
<1> QED BY <1>1, <1>2, <1>3, PTL DEF L!Spec, L!LimitedByRecent
-----------------------------------------------------------------------------
(* The parts together. *)
ProbesInv == SchedInv /\ BlockInv

(* The steps of the scheduler's part change of what the block part reads   *)
(* only the clock and the targets.                                         *)
LEMMA BlockKeeps ==
  ASSUME BlockInv, clock' \in Nat, clock' >= clock, targets' \subseteq Tgids, UNCHANGED blk
  PROVE  BlockInv'
<1>1. \A r \in Reqs : req[r] # Nil => req[r].issue.ts \in Nat
  BY OneRequest, ProbesAssumption
<1>2. B!TypeOK' /\ B!BlockLatencyTrue' /\ clock \in Nat
  BY Zenon DEF blk, BlockInv, B!TypeOK, B!BlockLatencyTrue, B!On
<1>3. \A r \in Reqs : req[r] # Nil => req[r].issue.ts <= clock'
  BY <1>1, <1>2 DEF BlockInv
<1> QED  BY <1>2, <1>3 DEF blk, BlockInv

(* SetTargets puts only processes into the map. *)
LEMMA TargetsAre ==
  ASSUME targets \subseteq Tgids, Next
  PROVE  targets' \subseteq Tgids
<1>1. ASSUME NEW tgids \in SUBSET Tgids, AddTarget(tgids) \/ DeleteTarget
      PROVE  targets' \subseteq Tgids
  BY <1>1 DEF AddTarget, DeleteTarget
<1>2. ASSUME NEW c \in CPUs, NEW next \in Tids \cup {None},
             NEW st \in {"gone", "sleeping", "queued", "preempted"},
             NEW full \in BOOLEAN, NEW histFull \in BOOLEAN,
             SchedSwitch(c, next, st, full, histFull)
      PROVE  UNCHANGED targets
  BY <1>2 DEF SchedSwitch, user
<1>3. ASSUME NEW t \in Tids, NEW full \in BOOLEAN,
             (\E g \in Tgids : Spawn(t, g, full)) \/ Wake(t, full) \/ WakeRunning(t, full)
      PROVE  UNCHANGED targets
  BY <1>3 DEF Spawn, Wake, WakeRunning, user
<1>4. ASSUME NEW t \in Tids, SchedProcessExit(t) PROVE UNCHANGED targets
  BY <1>4 DEF SchedProcessExit, user
<1>5. ASSUME NEW tgids \in SUBSET Tgids, Pass \/ SetTargets(tgids)
      PROVE  UNCHANGED targets
  BY <1>5 DEF Pass, SetTargets, user
<1> QED  BY <1>1, <1>2, <1>3, <1>4, <1>5, Zenon DEF Next

(* The steps of the block part move of what the scheduler's part reads     *)
(* only the clock, and only on, and the targets.                           *)
LEMMA BlockClock ==
  ASSUME clock \in Nat, B!Next
  PROVE  clock' \in Nat /\ clock' >= clock
<1>1. clock' = clock + 1 \/ clock' = clock
  BY Zenon DEF B!Next, B!Handlers, B!Pass, B!Issue, B!Reissue, B!CompleteUnknown, B!Complete,
         B!CompleteLookup, B!Evict, B!Retarget
<1> QED  BY <1>1

(* Every step of the probes keeps ProbesInv. *)
LEMMA ProbesInvNext ==
  ASSUME ProbesInv, [ProbesNext]_allVars
  PROVE  ProbesInv'
<1>0. /\ SchedInv /\ BlockInv /\ clock \in Nat /\ targets \subseteq Tgids
      /\ B!BlockAssumption
  BY ProbesAssumption, Zenon DEF ProbesInv, SchedInv, SchedType, BlockInv, B!TypeOK
<1>1. CASE Next /\ UNCHANGED blk
  BY <1>0, <1>1, SchedNext, TargetsAre, BlockKeeps DEF ProbesInv
<1>2. CASE B!Next /\ UNCHANGED sched
  <2>1. BlockInv'
    BY <1>0, <1>2, BlockNext
  <2>2. SchedInv'
    BY <1>0, <1>2, BlockClock, SchedKeeps DEF sched
  <2> QED  BY <2>1, <2>2 DEF ProbesInv
<1>3. CASE UNCHANGED <<clock, targets, sched, blk>>
  <2>1. UNCHANGED B!vars
    BY <1>3 DEF B!vars, blk
  <2>2. BlockInv'
    BY <1>0, <2>1, BlockNext
  <2>3. SchedInv'
    BY <1>0, <1>3, SchedKeeps DEF sched
  <2> QED  BY <2>2, <2>3 DEF ProbesInv
<1> QED  BY <1>1, <1>2, <1>3 DEF ProbesNext, allVars, user

LEMMA ProbesAlways == ProbesSpec => []ProbesInv
<1>1. ProbesInit => SchedInv
  BY DEF ProbesInit, Init, SchedInv, SchedType, Queued, Told, NoThread, NoOne, Untold,
         Stamps, ThreadRec, None
<1>2. ProbesInit => BlockInv
  BY DEF ProbesInit, B!Init, BlockInv, B!TypeOK, B!BlockLatencyTrue
<1> QED  BY <1>1, <1>2, ProbesInvNext, PTL DEF ProbesSpec, ProbesInv

(* The latency that runq_hist reports for a thread is never shorter than   *)
(* its longest recorded wait, and is that wait if each of its waits began  *)
(* with an entry in runq_start: for any number of threads and CPUs, though *)
(* thread IDs are used again, running threads are woken, threads are       *)
(* preempted on their way to sleep, maps are full, and targets come and go *)
(* between a wake-up and the switch.                                       *)
THEOREM WaitsTrue == ProbesSpec => []LatencyTrue
<1>1. ProbesInv => LatencyTrue
  BY Zenon DEF ProbesInv, SchedInv, Told, LatencyTrue
<1> QED  BY <1>1, ProbesAlways, PTL

(* The start time that runq_start has for a queued thread is the time      *)
(* since when it waits, if its queueing made an entry there.               *)
THEOREM StartsTrue == ProbesSpec => []StartExact
<1>1. ProbesInv => StartExact
  BY DEF ProbesInv, SchedInv, Queued, StartExact
<1> QED  BY <1>1, ProbesAlways, PTL

(* Block latencies are true for any number of requests in flight, on any   *)
(* number of sectors, though blk_start is keyed by sector only and the     *)
(* lookup and the deletion of block_rq_complete are not atomic.            *)
THEOREM LatencyOfRequest == ProbesSpec => []BlockLatencyTrue
<1>1. ProbesInv => BlockLatencyTrue
  BY DEF ProbesInv, BlockInv, BlockLatencyTrue
<1> QED  BY <1>1, ProbesAlways, PTL

(* An event that rate_limited suppresses follows one that passed less than *)
(* a gap earlier: no interleaving of the CPUs' clock reads, lookups and    *)
(* updates lets the limiter suppress events for no reason.                 *)
THEOREM SuppressedByRecent == ProbesSpec => LimitedByRecent
<1>1. ProbesInit => L!Init
  BY DEF ProbesInit
<1>2. [ProbesNext]_allVars => [L!Next]_(L!vars)
  BY DEF ProbesNext, allVars, limiter, L!vars
<1>3. L!Spec => LimitedByRecent
  BY ProbesAssumption, LimiterSuppresses DEF LimitedByRecent
<1> QED  BY <1>1, <1>2, <1>3, PTL DEF ProbesSpec, L!Spec

-----------------------------------------------------------------------------
(* The loader. *)
(* What the failure paths rely on: every open object is in the Probes, but *)
(* for the program that is about to be attached, and none exists before    *)
(* the shared maps or after a Close.                                       *)
LoadInv ==
  /\ open \subseteq held \cup (IF pc = "attach" THEN {<<"prog", plan[at]>>} ELSE {})
  /\ pc \in {"memlock", "resolve", "error", "closed"} => open = {}

(* Before Load starts nothing is open. *)
LEMMA LoadInvInit == P!Init => LoadInv
BY DEF P!Init, LoadInv

(* Every step of Load and Close keeps the invariant. *)
LEMMA LoadInvNext == LoadInv /\ [P!Next]_(P!vars) => LoadInv'
<1> SUFFICES ASSUME LoadInv, [P!Next]_(P!vars) PROVE LoadInv'
  OBVIOUS
<1>1. CASE P!Memlock
  BY <1>1 DEF LoadInv, P!Memlock
<1>2. CASE P!Resolve
  BY <1>2 DEF LoadInv, P!Resolve
<1>3. CASE P!Maps
  <2>1. open = {}
    BY <1>3 DEF LoadInv, P!Maps
  <2>2. CASE pc' = "load" /\ P!Keep({<<"maps", 0>>})
    BY <2>1, <2>2 DEF LoadInv, P!Keep
  <2>3. CASE pc' = "error" /\ open' = open
    BY <2>1, <2>3 DEF LoadInv
  <2> QED  BY <1>3, <2>2, <2>3 DEF P!Maps
<1>4. CASE P!LoadProgram
  <2>1. CASE open' = open \cup {<<"prog", plan[at]>>} /\ pc' = "attach" /\ at' = at
    BY <1>4, <2>1 DEF LoadInv, P!LoadProgram
  <2>2. CASE open' = open /\ pc' = pc
    BY <1>4, <2>2 DEF LoadInv, P!LoadProgram
  <2> QED  BY <1>4, <2>1, <2>2 DEF P!LoadProgram
<1>5. CASE P!Attach
  <2>1. pc = "attach" /\ pc' = "load" /\ open \subseteq held \cup {<<"prog", plan[at]>>}
    BY <1>5 DEF P!Attach, LoadInv
  <2>2. CASE P!Keep({<<"prog", plan[at]>>, <<"link", plan[at]>>})
    BY <2>1, <2>2 DEF LoadInv, P!Keep
  <2>3. CASE open' = open \ {<<"prog", plan[at]>>} /\ held' = held
    BY <2>1, <2>3 DEF LoadInv
  <2> QED  BY <1>5, <2>2, <2>3 DEF P!Attach
<1>6. CASE P!NoneAttached
  BY <1>6 DEF LoadInv, P!NoneAttached, P!Release
<1>7. CASE P!OpenReader
  <2>1. CASE pc' = "ready" /\ P!Keep({<<"reader", 0>>})
    BY <1>7, <2>1 DEF LoadInv, P!OpenReader, P!Keep
  <2>2. CASE pc' = "error" /\ P!Release
    BY <1>7, <2>2 DEF LoadInv, P!OpenReader, P!Release
  <2> QED  BY <1>7, <2>1, <2>2 DEF P!OpenReader
<1>8. CASE P!Close
  BY <1>8 DEF LoadInv, P!Close, P!Release
<1>9. CASE UNCHANGED P!vars
  BY <1>9 DEF LoadInv, P!vars
<1> QED
  BY <1>1, <1>2, <1>3, <1>4, <1>5, <1>6, <1>7, <1>8, <1>9 DEF P!Next

(* Wherever Load fails, and after Close, the process holds no program, no  *)
(* link, no map and no reader (NothingLeaks), for any probes, features and *)
(* failures: Close finds in p.progs, p.links, p.reader and p.coll all that *)
(* is open.                                                                *)
THEOREM NeverLeaks == P!Spec => []P!NothingLeaks
<1>1. LoadInv => P!NothingLeaks
  BY DEF LoadInv, P!NothingLeaks
<1> QED
  BY LoadInvInit, LoadInvNext, <1>1, PTL DEF P!Spec
=============================================================================
