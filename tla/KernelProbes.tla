---------------------------- MODULE KernelProbes ----------------------------
(***************************************************************************)
(* The BPF programs that measure: run queues (RunQueue), block requests    *)
(* (BlockIO) and the limiter of events (RateLimit).  The programs of       *)
(* different parts write different map entries, and the map that two of    *)
(* them read, targets, they do not write, so that a step of one part       *)
(* commutes with a step of another: it is enough to let the programs of    *)
(* one part run in a behaviour.                                            *)
(***************************************************************************)
EXTENDS RunQueue

CONSTANTS
  Nil, Reqs, Sectors, BlkTime,             \* of BlockIO
  RlCPUs, Gap, MaxDelay, Width, RlTime     \* of RateLimit

VARIABLES
  load,                                    \* the part whose programs run
  req, blkStart, blkVmHist,                \* of BlockIO
  rlClock, rlCpu, rlLast, rlPassed         \* of RateLimit

B == INSTANCE BlockIO WITH start <- blkStart, vmHist <- blkVmHist, None <- Nil, MaxTime <- BlkTime
L == INSTANCE RateLimit WITH clock <- rlClock, cpu <- rlCpu, last <- rlLast, passed <- rlPassed,
       CPUs <- RlCPUs, MaxTime <- RlTime

ASSUME ProbesAssumption == BlkTime \in Nat /\ B!BlockAssumption /\ L!RateAssumption

blk == <<req, blkStart, blkVmHist>>
sched == <<thread, cur, covered, start, hist, truth>>
limiter == <<rlClock, rlCpu, rlLast, rlPassed>>
allVars == <<load, clock, sched, user, blk, limiter>>

ProbesInit == load \in {"sched", "block", "limit"} /\ Init /\ B!Init /\ L!Init

ProbesNext ==
  \/ load = "sched" /\ Next /\ UNCHANGED <<load, blk, limiter>>
  \/ load = "block" /\ B!Next /\ UNCHANGED <<load, sched, known, want, call, limiter>>
  \/ load = "limit" /\ L!Next /\ UNCHANGED <<load, clock, sched, user, blk>>

ProbesSpec == ProbesInit /\ [][ProbesNext]_allVars
-----------------------------------------------------------------------------
(* The latency of a block request is timed from a request in flight to its *)
(* sector, never too long, and exact for one that was alone on it          *)
(* (block_rq_issue, block_rq_complete; see BlockIO).                       *)
BlockLatencyTrue == B!BlockLatencyTrue

(* Races can let more than one event of a key through, but not many: any   *)
(* window of one gap holds at most two events per CPU, less one            *)
(* (rate_limited; see RateLimit).                                          *)
FewPerWindow == L!FewPerWindow

(* The limiter cannot fall silent: an event that a CPU finds too soon has  *)
(* one that passed less than a gap before it (rate_limited; see RateLimit).*)
LimitedByRecent == L!LimitedByRecent

(* hyperview.bpf.c: "at most one event per (tgid,type) per 100ms". *)
OnePerGap == L!OnePerGap
=============================================================================
