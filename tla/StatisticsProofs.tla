-------------------------- MODULE StatisticsProofs --------------------------
(***************************************************************************)
(* Proofs about the figures of a VM (Statistics): the counters of the eBPF *)
(* programs and their rates (Counters), for any number of CPUs, events and *)
(* ticks, and the devices that libvirt lists (LibvirtStats), for any domain*)
(* IDs and any time a list is kept.  The proofs about the threads of vCPUs *)
(* (VcpuThreads) are in CollectorProofs.                                   *)
(***************************************************************************)
EXTENDS Statistics, FiniteSetTheorems, TLAPS
-----------------------------------------------------------------------------
(* Counters. *)

CpuSteps == {"idle", "lookup", "insert", "again", "exit"}

(* A step of one CPU leaves the type of cpu as it is. *)
LEMMA CpuType ==
  ASSUME CountersTypeOK, NEW c \in CPUs
  PROVE  /\ \A at \in CpuSteps : Goes(c, at) => cpu' \in [CPUs -> [at : CpuSteps, late : BOOLEAN]]
         /\ Done(c) => cpu' \in [CPUs -> [at : CpuSteps, late : BOOLEAN]]
         /\ [cpu EXCEPT ![c] = Idle] \in [CPUs -> [at : CpuSteps, late : BOOLEAN]]
<1> DEFINE Cpu == [at : CpuSteps, late : BOOLEAN]
<1>1. cpu \in [CPUs -> Cpu] /\ cpu[c] \in Cpu
  BY DEF CountersTypeOK, CpuSteps
<1>2. Idle \in Cpu
  BY DEF Idle, CpuSteps
<1>3. \A at \in CpuSteps : [cpu[c] EXCEPT !.at = at] \in Cpu
  BY <1>1
<1>4. \A e \in Cpu : [cpu EXCEPT ![c] = e] \in [CPUs -> Cpu]
  BY <1>1
<1> HIDE DEF Cpu
<1>5. \A at \in CpuSteps : Goes(c, at) => cpu' \in [CPUs -> Cpu]
  BY <1>3, <1>4 DEF Goes
<1>6. Done(c) => cpu' \in [CPUs -> Cpu]
  BY <1>2, <1>4 DEF Done
<1> QED  BY <1>2, <1>4, <1>5, <1>6 DEF Cpu

(* What rate returns and leaves behind in a tracker of one key. *)
LEMMA RateType ==
  ASSUME CountersTypeOK, NEW v \in Nat
  PROVE  /\ Rate(rates, kind, v, tick).inc \in Int /\ Rate(rates, kind, v, tick).dt \in Int
         /\ DOMAIN Sampled(rates, kind, v, tick) = {kind}
         /\ Sampled(rates, kind, v, tick)[kind] = [v |-> v, t |-> tick, new |-> TRUE]
<1>1. ASSUME kind \in DOMAIN rates PROVE rates[kind] \in [v : Nat, t : Nat, new : BOOLEAN]
  BY <1>1 DEF CountersTypeOK
<1>2. tick \in Nat /\ DOMAIN rates \cup {kind} = {kind}
  BY DEF CountersTypeOK
<1> QED  BY <1>1, <1>2 DEF Rate, NoRate, Sampled

(* What sweep leaves of a tracker with at most this key. *)
LEMMA SweptType ==
  ASSUME NEW k, NEW r, DOMAIN r \subseteq {k},
         r \in [DOMAIN r -> [v : Nat, t : Nat, new : BOOLEAN]]
  PROVE  /\ DOMAIN Swept(r) \subseteq DOMAIN r
         /\ Swept(r) \in [DOMAIN Swept(r) -> [v : Nat, t : Nat, new : BOOLEAN]]
         /\ \A x \in DOMAIN Swept(r) : Swept(r)[x].v = r[x].v
BY DEF Swept
-----------------------------------------------------------------------------
(* The maps start empty. *)
LEMMA CountersInitType == CountersInit => CountersTypeOK
<1> SUFFICES ASSUME CountersInit PROVE CountersTypeOK
  OBVIOUS
<1>1. cpu \in [CPUs -> [at : {"idle", "lookup", "insert", "again", "exit"}, late : BOOLEAN]]
  BY DEF CountersInit, Idle
<1>2. DOMAIN rates \subseteq {kind} /\ rates \in [DOMAIN rates -> [v : Nat, t : Nat, new : BOOLEAN]]
  BY DEF CountersInit
<1> QED  BY <1>1, <1>2 DEF CountersInit, CountersTypeOK

(* A step of the kernel changes none of the variables of the collector. *)
LEMMA KernelType ==
  ASSUME CountersTypeOK, UNCHANGED user, kind' = kind, tracked' \in BOOLEAN,
         count' \in Nat \cup {None}, hits' \in Nat, counted' \in Nat, passed' \in Nat,
         missed' \in Nat,
         cpu' \in [CPUs -> [at : CpuSteps, late : BOOLEAN]]
  PROVE  CountersTypeOK'
BY DEF CountersTypeOK, user, CpuSteps

(* A deleted entry leaves the types as they are. *)
LEMMA ForgetType ==
  ASSUME CountersTypeOK, Forget
  PROVE  count' = None /\ passed' = 0 /\ missed' = 0 /\ cpu' \in [CPUs -> [at : CpuSteps, late : BOOLEAN]]
<1>1. \A c \in CPUs : cpu[c] \in [at : CpuSteps, late : BOOLEAN]
  BY DEF CountersTypeOK, CpuSteps
<1>2. \A c \in CPUs :
        [cpu[c] EXCEPT !.late = @ \/ cpu[c].at # "idle"] \in [at : CpuSteps, late : BOOLEAN]
  BY <1>1
<1> QED  BY <1>2 DEF Forget

(* The two outcomes of Read: the counter is sampled, or it is not. *)
LEMMA ReadCases ==
  ASSUME CountersAssumption, CountersTypeOK, Read
  PROVE  /\ Counted \in Nat
         /\ \/ shown' = None /\ counted' = counted /\ rates' = Swept(rates)
            \/ /\ counted' = 0
               /\ shown' = [inc |-> Rate(rates, kind, Counted, tick).inc,
                            dt |-> Rate(rates, kind, Counted, tick).dt, of |-> counted]
               /\ rates' = Swept(Sampled(rates, kind, Counted, tick))
<1>1. Counted \in Nat
  BY DEF CountersTypeOK, Counted
<1> QED  BY <1>1 DEF Read, Counted

(* Read samples, sweeps and shows values of the right types. *)
LEMMA ReadType ==
  ASSUME CountersAssumption, CountersTypeOK, Read
  PROVE  /\ CountersTypeOK'
         /\ kind \in DOMAIN rates' =>
              \/ counted' = 0 /\ rates'[kind].v = Counted
              \/ counted' = counted /\ kind \in DOMAIN rates /\ rates'[kind].v = rates[kind].v
<1> DEFINE S == Sampled(rates, kind, Counted, tick)
           Samples == [v : Nat, t : Nat, new : BOOLEAN]
<1>1. Counted \in Nat /\ counted \in Nat /\ tick \in Nat
  BY ReadCases DEF CountersTypeOK
<1>2. DOMAIN S = {kind} /\ S[kind] = [v |-> Counted, t |-> tick, new |-> TRUE]
  BY <1>1, RateType
<1>3. S \in [DOMAIN S -> Samples]
  <2> DEFINE e == [v |-> Counted, t |-> tick, new |-> TRUE]
  <2>1. S = [x \in {kind} |-> S[x]]
    BY <1>2 DEF Sampled
  <2>2. e \in Samples
    BY <1>1
  <2> HIDE DEF e, Samples, S
  <2> QED  BY <1>2, <2>1, <2>2 DEF e
<1> HIDE DEF S
<1>4. /\ DOMAIN Swept(S) \subseteq {kind} /\ Swept(S) \in [DOMAIN Swept(S) -> Samples]
      /\ kind \in DOMAIN Swept(S) => Swept(S)[kind].v = Counted
  <2>1. DOMAIN S \subseteq {kind} /\ S[kind].v = Counted
    BY <1>2
  <2> QED  BY <1>3, <2>1, SweptType
<1>5. /\ DOMAIN Swept(rates) \subseteq DOMAIN rates /\ DOMAIN rates \subseteq {kind}
      /\ Swept(rates) \in [DOMAIN Swept(rates) -> Samples]
      /\ kind \in DOMAIN Swept(rates) => Swept(rates)[kind].v = rates[kind].v
  BY SweptType DEF CountersTypeOK
<1>6. counted' \in Nat /\ shown' \in {None} \cup [inc : Int, dt : Int, of : Nat]
  <2> DEFINE r == Rate(rates, kind, Counted, tick)
  <2>1. r.inc \in Int /\ r.dt \in Int
    BY <1>1, RateType
  <2>2. [inc |-> r.inc, dt |-> r.dt, of |-> counted] \in [inc : Int, dt : Int, of : Nat]
    BY <1>1, <2>1
  <2>3. \/ shown' = None /\ counted' = counted
        \/ shown' = [inc |-> r.inc, dt |-> r.dt, of |-> counted] /\ counted' = 0
    BY ReadCases
  <2> HIDE DEF r
  <2> QED  BY <1>1, <2>2, <2>3
<1>7. DOMAIN rates' \subseteq {kind} /\ rates' \in [DOMAIN rates' -> Samples]
  BY <1>4, <1>5, ReadCases DEF S
<1>8. /\ UNCHANGED <<kind, tracked, count, cpu, hits, passed, missed, known, want, found, tick>>
      /\ call' = "idle"
  BY DEF Read
<1>9. CountersTypeOK'
  BY <1>6, <1>7, <1>8 DEF CountersTypeOK
<1> QED  BY <1>4, <1>5, <1>9, ReadCases DEF S

(* Every step of the programs and of Collect keeps the types. *)
LEMMA CountersNextType == CountersAssumption /\ CountersTypeOK /\ [CountersNext]_counters => CountersTypeOK'
<1> SUFFICES ASSUME CountersAssumption, CountersTypeOK, [CountersNext]_counters PROVE CountersTypeOK'
  OBVIOUS
<1>0. /\ hits + 1 \in Nat /\ counted + 1 \in Nat /\ passed + 1 \in Nat /\ tick + 1 \in Nat
      /\ count \in Nat \cup {None} /\ (count # None => count + 1 \in Nat) /\ counted \in Nat
      /\ hits \in Nat /\ passed \in Nat /\ tracked \in BOOLEAN
      /\ missed \in Nat /\ missed + 1 \in Nat
  BY DEF CountersTypeOK
<1>1. ASSUME NEW c \in CPUs, NEW full \in BOOLEAN,
             \/ Hit(c) \/ Lookup(c) \/ LookupAgain(c)
             \/ KvmExit(c) \/ KvmExitCount(c) \/ Insert(c, full)
      PROVE  CountersTypeOK'
  <2>1. /\ UNCHANGED <<user, kind, tracked>> /\ hits' \in Nat /\ passed' \in Nat
        /\ counted' \in Nat
    BY <1>0, <1>1 DEF Hit, Lookup, Insert, LookupAgain, KvmExit, KvmExitCount, Done
  <2>2. count' \in Nat \cup {None}
    BY <1>0, <1>1 DEF Hit, Lookup, Insert, LookupAgain, KvmExit, KvmExitCount
  <2>3. missed' \in Nat
    BY <1>0, <1>1 DEF Hit, Lookup, Insert, LookupAgain, KvmExit, KvmExitCount, Miss
  <2>4. cpu' \in [CPUs -> [at : CpuSteps, late : BOOLEAN]]
    BY <1>1, CpuType DEF Hit, Lookup, Insert, LookupAgain, KvmExit, KvmExitCount, CpuSteps
  <2> QED  BY <1>0, <2>1, <2>2, <2>3, <2>4, KernelType
<1>2. CASE ThreadExit
  BY <1>0, <1>2, ForgetType, KernelType DEF ThreadExit
<1>3. ASSUME NEW w \in BOOLEAN, Begin(w) PROVE CountersTypeOK'
  BY <1>0, <1>3 DEF Begin, kernel, CountersTypeOK
<1>4. CASE SetTracked
  BY <1>4 DEF SetTracked, CountersTypeOK
<1>5. CASE Scan
  BY <1>5 DEF Scan, kernel, CountersTypeOK
<1>6. CASE Clean
  <2>1. /\ count' \in Nat \cup {None} /\ passed' \in Nat /\ missed' \in Nat
        /\ cpu' \in [CPUs -> [at : {"idle", "lookup", "insert", "again", "exit"}, late : BOOLEAN]]
    BY <1>0, <1>6, ForgetType DEF Clean, CountersTypeOK, CpuSteps
  <2> QED  BY <1>6, <2>1 DEF Clean, CountersTypeOK
<1>7. CASE Read
  BY <1>7, ReadType
<1>8. CASE UNCHANGED counters
  BY <1>8 DEF counters, CountersTypeOK
<1> QED  BY <1>1, <1>2, <1>3, <1>4, <1>5, <1>6, <1>7, <1>8 DEF CountersNext

(* The correctness of types. *)
LEMMA CountersTypeAlways == ASSUME CountersAssumption PROVE CountersSpec => []CountersTypeOK
BY CountersInitType, CountersNextType, PTL DEF CountersSpec
-----------------------------------------------------------------------------
(* The inductive invariant: what was added to the entry since the counter  *)
(* was sampled has been counted since, even if the entry is a new one.     *)
SampleInv ==
  NoPhantom /\ (kind \in DOMAIN rates => Counted <= rates[kind].v + counted)

(* Every step keeps SampleInv: only a program adds to an entry, and each   *)
(* addition is an event; Read starts anew from what it has seen.           *)
LEMMA NextSample ==
  CountersAssumption /\ CountersTypeOK /\ SampleInv /\ [CountersNext]_counters => SampleInv'
<1> SUFFICES ASSUME CountersAssumption, CountersTypeOK, SampleInv, [CountersNext]_counters PROVE SampleInv'
  OBVIOUS
<1>0. /\ counted \in Nat /\ count \in Nat \cup {None} /\ Counted \in Nat
      /\ kind \in DOMAIN rates => rates[kind] \in [v : Nat, t : Nat, new : BOOLEAN]
      /\ None \notin Nat
  BY DEF CountersTypeOK, Counted, CountersAssumption
<1>1. ASSUME UNCHANGED <<kind, rates, shown>>, counted' \in Nat, Counted' \in Nat,
             Counted' - counted' <= Counted - counted \/ Counted' = 0
      PROVE  SampleInv'
  <2>1. NoPhantom'
    BY <1>1 DEF SampleInv, NoPhantom
  <2>2. ASSUME kind \in DOMAIN rates PROVE Counted' <= rates[kind].v + counted'
    <3>1. rates[kind].v \in Nat /\ Counted <= rates[kind].v + counted
      BY <1>0, <2>2 DEF SampleInv
    <3>2. \A v, a, b, c, d \in Nat : a <= v + b /\ (c - d <= a - b \/ c = 0) => c <= v + d
      OBVIOUS
    <3> QED  BY <1>0, <1>1, <3>1, <3>2
  <2> QED  BY <1>1, <2>1, <2>2 DEF SampleInv
<1>2. ASSUME NEW c \in CPUs, NEW full \in BOOLEAN,
             \/ Hit(c) \/ Lookup(c) \/ LookupAgain(c)
             \/ KvmExit(c) \/ KvmExitCount(c) \/ Insert(c, full)
      PROVE  SampleInv'
  <2>1. UNCHANGED <<kind, rates, shown>>
    BY <1>2 DEF Hit, Lookup, Insert, LookupAgain, KvmExit, KvmExitCount, user
  <2>2. /\ counted' \in Nat /\ Counted' \in Nat
        /\ Counted' - counted' <= Counted - counted \/ Counted' = 0
    BY <1>0, <1>2 DEF Hit, Lookup, Insert, LookupAgain, KvmExit, KvmExitCount, Done, Counted
  <2> QED  BY <1>1, <2>1, <2>2
<1>3. CASE ThreadExit \/ Clean
  <2>1. UNCHANGED <<kind, rates, shown, counted>> /\ Counted' \in {0, Counted}
    BY <1>3 DEF ThreadExit, Clean, Forget, user, Counted
  <2>2. counted' \in Nat /\ Counted' \in Nat
        /\ (Counted' - counted' <= Counted - counted \/ Counted' = 0)
    <3>1. CASE Counted' = 0
      BY <1>0, <2>1, <3>1
    <3>2. CASE Counted' = Counted
      BY <1>0, <2>1, <3>2
    <3> QED  BY <2>1, <3>1, <3>2
  <2> QED  BY <1>1, <2>1, <2>2
<1>4. CASE (\E w \in BOOLEAN : Begin(w)) \/ SetTracked \/ Scan
  <2>1. UNCHANGED <<kind, rates, shown, counted, count>>
    BY <1>4 DEF Begin, SetTracked, Scan, kernel
  <2> QED  BY <1>0, <1>1, <2>1 DEF Counted
<1>5. CASE Read
  <2> DEFINE r == Rate(rates, kind, Counted, tick)
  <2>1. kind' = kind /\ Counted' = Counted /\ tick \in Nat
    BY <1>5 DEF Read, Counted, CountersTypeOK
  <2>2. kind \in DOMAIN rates' => Counted <= rates'[kind].v + counted'
    BY <1>0, <1>5, ReadType DEF SampleInv
  <2>3. r.inc \in 0 .. counted
    BY <1>0, <2>1 DEF Rate, NoRate, SampleInv
  <2>4. NoPhantom'
    <3> HIDE DEF r
    <3> QED  BY <1>5, <2>3, ReadCases DEF NoPhantom, r
  <2> QED  BY <2>1, <2>2, <2>4 DEF SampleInv
<1>6. CASE UNCHANGED counters
  BY <1>0, <1>1, <1>6 DEF counters, Counted
<1> QED  BY <1>2, <1>3, <1>4, <1>5, <1>6 DEF CountersNext

(* Rates are true: none is negative or stands for more events than there   *)
(* were since the counter was sampled (rateTracker.rate and sweep, as      *)
(* EBPFCollector.Collect uses them), with any number of CPUs, though       *)
(* entries are deleted and made anew at any time.                          *)
THEOREM RatesNoPhantom == ASSUME CountersAssumption PROVE CountersSpec => []NoPhantom
<1>1. CountersInit => SampleInv
  BY DEF CountersInit, SampleInv, NoPhantom
<1>2. SampleInv => NoPhantom
  BY DEF SampleInv
<1> QED  BY <1>1, <1>2, NextSample, CountersTypeAlways, PTL DEF CountersSpec
-----------------------------------------------------------------------------
Inserting == {c \in OnTheWay : cpu[c].at = "insert"}

(* Where a CPU can be: a CPU is late only while it handles an event, looks *)
(* an entry up for the second time only in vm_counters_get, makes one ahead*)
(* only for a thread, and of the entry of a thread there is one user at a  *)
(* time.                                                                   *)
PathInv ==
  /\ \A c \in CPUs : cpu[c].at = "idle" => ~cpu[c].late
  /\ \A c \in CPUs : cpu[c].at = "again" => kind = "vm"
  /\ \A c \in CPUs : cpu[c].at = "exit" => kind \in PerThread
  /\ kind \in PerThread =>
       /\ call \notin {"scan", "clean"}
       /\ \A c, d \in CPUs : cpu[c].at # "idle" /\ cpu[d].at # "idle" => c = d
       /\ \A c \in CPUs : cpu[c].at = "insert" => count = None

(* The inductive strengthening of FewLost: no event is lost for another    *)
(* reason than the map while there is no entry, and once there is one,     *)
(* only the CPUs that found none before can still lose theirs.             *)
LostInv ==
  passed - missed - Counted - Cardinality(OnTheWay) <=
    IF count = None \/ kind \in PerThread \cup {"vm"} THEN 0
    ELSE Cardinality(CPUs) - 1 - Cardinality(Inserting)

(* The CPUs that can be counted on are finitely many. *)
LEMMA CpusFinite ==
  ASSUME CountersAssumption
  PROVE  /\ IsFiniteSet(OnTheWay) /\ IsFiniteSet(Inserting)
         /\ Cardinality(OnTheWay) \in Nat /\ Cardinality(Inserting) \in Nat
         /\ Cardinality(CPUs) \in Nat
<1>1. OnTheWay \subseteq CPUs /\ Inserting \subseteq CPUs
  BY DEF OnTheWay, Inserting
<1>2. IsFiniteSet(CPUs)
  BY DEF CountersAssumption
<1> QED  BY <1>1, <1>2, FS_Subset, FS_CardinalityType

(* The CPUs on the way after CPU c has gone to e. *)
LEMMA Moves ==
  ASSUME CountersTypeOK, NEW c \in CPUs, NEW e \in [at : CpuSteps, late : BOOLEAN],
         cpu' = [cpu EXCEPT ![c] = e]
  PROVE  /\ OnTheWay' = IF e.at \notin {"idle", "exit"} /\ ~e.late THEN OnTheWay \cup {c} ELSE OnTheWay \ {c}
         /\ Inserting' = IF e.at = "insert" /\ ~e.late THEN Inserting \cup {c} ELSE Inserting \ {c}
<1>1. \A d \in CPUs : cpu'[d] = IF d = c THEN e ELSE cpu[d]
  BY DEF CountersTypeOK
<1>2. e.at \in CpuSteps
  OBVIOUS
<1> QED  BY <1>1, <1>2 DEF OnTheWay, Inserting, CpuSteps

(* The numbers of these CPUs after c has gone from one step to the next, or*)
(* has finished.                                                           *)
LEMMA GoesSize ==
  ASSUME CountersTypeOK, CountersAssumption, NEW c \in CPUs, NEW at \in CpuSteps \ {"idle", "exit"},
         cpu[c].at \notin {"idle", "exit"}, Goes(c, at)
  PROVE  OnTheWay' = OnTheWay
<1> DEFINE e == [cpu[c] EXCEPT !.at = at]
<1>1. cpu[c] \in [at : CpuSteps, late : BOOLEAN]
  BY DEF CountersTypeOK, CpuSteps
<1>2. e \in [at : CpuSteps, late : BOOLEAN] /\ e.at \notin {"idle", "exit"} /\ e.late = cpu[c].late
  BY <1>1
<1>3. cpu' = [cpu EXCEPT ![c] = e]
  BY DEF Goes
<1>4. c \in OnTheWay <=> ~cpu[c].late
  BY <1>1 DEF OnTheWay, CpuSteps
<1> HIDE DEF e
<1>5. OnTheWay' = IF e.at \notin {"idle", "exit"} /\ ~e.late THEN OnTheWay \cup {c} ELSE OnTheWay \ {c}
  BY <1>2, <1>3, Moves
<1>6. CASE e.late
  BY <1>2, <1>4, <1>5, <1>6
<1>7. CASE ~e.late
  BY <1>2, <1>4, <1>5, <1>7
<1> QED  BY <1>6, <1>7

(* A CPU that is done is no longer on its way. *)
LEMMA DoneSize ==
  ASSUME CountersTypeOK, CountersAssumption, NEW c \in CPUs, cpu[c].at # "idle", Done(c)
  PROVE  /\ c \in OnTheWay => Cardinality(OnTheWay') = Cardinality(OnTheWay) - 1
         /\ c \notin OnTheWay => Cardinality(OnTheWay') = Cardinality(OnTheWay)
         /\ c \in Inserting => Cardinality(Inserting') = Cardinality(Inserting) - 1
         /\ c \notin Inserting => Cardinality(Inserting') = Cardinality(Inserting)
         /\ Cardinality(Inserting') <= Cardinality(CPUs) - 1
         /\ c \in Inserting <=> c \in OnTheWay /\ cpu[c].at = "insert"
<1>1. Idle \in [at : CpuSteps, late : BOOLEAN] /\ Idle.at = "idle" /\ cpu' = [cpu EXCEPT ![c] = Idle]
  BY DEF Idle, Done, CpuSteps
<1>2. OnTheWay' = OnTheWay \ {c} /\ Inserting' = Inserting \ {c}
  BY <1>1, Moves
<1>3. IsFiniteSet(OnTheWay) /\ IsFiniteSet(Inserting) /\ IsFiniteSet(CPUs)
  BY CpusFinite DEF CountersAssumption
<1>4. /\ Cardinality(OnTheWay \ {c}) =
           IF c \in OnTheWay THEN Cardinality(OnTheWay) - 1 ELSE Cardinality(OnTheWay)
      /\ Cardinality(Inserting \ {c}) =
           IF c \in Inserting THEN Cardinality(Inserting) - 1 ELSE Cardinality(Inserting)
      /\ Cardinality(CPUs \ {c}) = Cardinality(CPUs) - 1
  BY <1>3, FS_RemoveElement
<1>5. Cardinality(Inserting \ {c}) <= Cardinality(CPUs \ {c})
  <2>1. Inserting \ {c} \subseteq CPUs \ {c} /\ IsFiniteSet(CPUs \ {c})
    BY <1>3, FS_RemoveElement DEF Inserting, OnTheWay
  <2> QED  BY <2>1, FS_Subset
<1> QED  BY <1>2, <1>4, <1>5 DEF Inserting

(* After a deletion all events are new ones. *)
LEMMA ForgetSize ==
  ASSUME CountersTypeOK, PathInv, Forget
  PROVE  OnTheWay' = {}
<1>1. \A c \in CPUs : cpu'[c].at = cpu[c].at /\ (cpu'[c].at # "idle" => cpu'[c].late)
  <2> TAKE c \in CPUs
  <2>1. cpu[c] \in [at : CpuSteps, late : BOOLEAN]
    BY DEF CountersTypeOK, CpuSteps
  <2>2. cpu'[c] = [cpu[c] EXCEPT !.late = @ \/ cpu[c].at # "idle"]
    BY DEF Forget
  <2> QED  BY <2>1, <2>2
<1> QED  BY <1>1 DEF OnTheWay
-----------------------------------------------------------------------------
(* Every step keeps PathInv. *)
LEMMA NextPath == CountersAssumption /\ CountersTypeOK /\ PathInv /\ [CountersNext]_counters => PathInv'
<1> SUFFICES ASSUME CountersAssumption, CountersTypeOK, PathInv, [CountersNext]_counters PROVE PathInv'
  OBVIOUS
<1>0. \A c \in CPUs : cpu[c] \in [at : CpuSteps, late : BOOLEAN]
  BY DEF CountersTypeOK, CpuSteps
<1>1. ASSUME NEW c \in CPUs, NEW e \in [at : CpuSteps, late : BOOLEAN],
             cpu' = [cpu EXCEPT ![c] = e], kind' = kind, call' = call,
             e.at = "idle" => ~e.late,
             e.at = "again" => kind = "vm", e.at = "exit" => kind \in PerThread,
             kind \in PerThread => /\ e.at = "insert" => count' = None
                                   /\ \A d \in CPUs \ {c} : cpu[d].at = "idle"
      PROVE  PathInv'
  <2>1. \A d \in CPUs : cpu'[d] = IF d = c THEN e ELSE cpu[d]
    BY <1>1 DEF CountersTypeOK
  <2>2. (\A d \in CPUs : cpu[d].at = "idle" => ~cpu[d].late)'
    BY <1>1, <2>1 DEF PathInv
  <2>3. (/\ \A d \in CPUs : cpu[d].at = "again" => kind = "vm"
         /\ \A d \in CPUs : cpu[d].at = "exit" => kind \in PerThread)'
    BY <1>1, <2>1 DEF PathInv
  <2>4. (kind \in PerThread =>
           /\ call \notin {"scan", "clean"}
           /\ \A x, d \in CPUs : cpu[x].at # "idle" /\ cpu[d].at # "idle" => x = d
           /\ \A d \in CPUs : cpu[d].at = "insert" => count = None)'
    BY <1>1, <2>1 DEF PathInv
  <2> QED  BY <2>2, <2>3, <2>4 DEF PathInv
<1>2. ASSUME NEW c \in CPUs, Hit(c) PROVE PathInv'
  <2> DEFINE e == [cpu[c] EXCEPT !.at = "lookup"]
  <2>1. e \in [at : CpuSteps, late : BOOLEAN] /\ e.at = "lookup"
    BY <1>0 DEF CpuSteps
  <2>2. cpu' = [cpu EXCEPT ![c] = e] /\ UNCHANGED <<kind, call, count>>
    BY <1>2 DEF Hit, Goes, user
  <2>3. kind \in PerThread => \A d \in CPUs : cpu[d].at = "idle"
    BY <1>2 DEF Hit, AllIdle
  <2> HIDE DEF e
  <2> QED  BY <1>1, <2>1, <2>2, <2>3
<1>3. ASSUME NEW c \in CPUs, cpu[c].at # "idle", UNCHANGED <<kind, call>>,
             cpu' = [cpu EXCEPT ![c] = Idle]
      PROVE  PathInv'
  <2>1. kind \in PerThread => \A d \in CPUs \ {c} : cpu[d].at = "idle"
    BY <1>3 DEF PathInv
  <2>2. Idle.at = "idle" /\ ~Idle.late /\ Idle \in [at : CpuSteps, late : BOOLEAN]
    BY DEF Idle, CpuSteps
  <2> QED  BY <1>1, <1>3, <2>1, <2>2
<1>4. ASSUME NEW c \in CPUs, NEW full \in BOOLEAN, Lookup(c) \/ Insert(c, full) PROVE PathInv'
  <2>0. UNCHANGED <<kind, call>> /\ cpu[c].at # "idle"
    BY <1>4 DEF Lookup, Insert, user
  <2>1. CASE cpu' = [cpu EXCEPT ![c] = Idle]
    BY <1>3, <2>0, <2>1
  <2>2. ASSUME NEW at \in {"insert", "again"}, Goes(c, at),
               at = "again" => kind = "vm", at = "insert" => count' = None
        PROVE  PathInv'
    <3> DEFINE e == [cpu[c] EXCEPT !.at = at]
    <3>1. e \in [at : CpuSteps, late : BOOLEAN] /\ e.at = at
      BY <1>0 DEF CpuSteps
    <3>2. cpu' = [cpu EXCEPT ![c] = e]
      BY <2>2 DEF Goes
    <3>3. kind \in PerThread => \A d \in CPUs \ {c} : cpu[d].at = "idle"
      BY <2>0 DEF PathInv
    <3> HIDE DEF e
    <3> QED  BY <1>1, <2>0, <2>2, <3>1, <3>2, <3>3
  <2> QED  BY <1>4, <2>1, <2>2 DEF Lookup, Insert, Done
<1>5. ASSUME NEW c \in CPUs, LookupAgain(c) \/ KvmExitCount(c) PROVE PathInv'
  BY <1>3, <1>5 DEF LookupAgain, KvmExitCount, Done, user
<1>8. ASSUME NEW c \in CPUs, KvmExit(c) PROVE PathInv'
  <2> DEFINE e == [cpu[c] EXCEPT !.at = "exit"]
  <2>1. e \in [at : CpuSteps, late : BOOLEAN] /\ e.at = "exit"
    BY <1>0 DEF CpuSteps
  <2>2. cpu' = [cpu EXCEPT ![c] = e] /\ UNCHANGED <<kind, call>>
    BY <1>8 DEF KvmExit, Goes, user
  <2>3. \A d \in CPUs : cpu[d].at = "idle"
    BY <1>8 DEF KvmExit, AllIdle
  <2>4. kind \in PerThread
    BY <1>8 DEF KvmExit, PerThread
  <2> HIDE DEF e
  <2> QED  BY <1>1, <2>1, <2>2, <2>3, <2>4
<1>6. CASE ThreadExit \/ Clean
  <2>1. ASSUME Forget, kind' = kind, kind \in PerThread => call' = call PROVE PathInv'
    <3>1. \A c \in CPUs : /\ cpu'[c].at = cpu[c].at
                          /\ cpu'[c].late <=> cpu[c].late \/ cpu[c].at # "idle"
      <4> TAKE c \in CPUs
      <4>1. cpu'[c] = [cpu[c] EXCEPT !.late = @ \/ cpu[c].at # "idle"]
        BY <2>1 DEF Forget
      <4> QED  BY <1>0, <4>1
    <3> QED  BY <2>1, <3>1 DEF PathInv, Forget
  <2>2. CASE ThreadExit
    BY <2>1, <2>2 DEF ThreadExit, user
  <2>3. CASE Clean
    <3>1. kind \notin PerThread /\ kind' = kind
      BY <2>3 DEF PathInv, Clean
    <3>2. Forget \/ UNCHANGED <<count, cpu>>
      BY <2>3 DEF Clean
    <3> QED  BY <2>1, <3>1, <3>2 DEF PathInv
  <2> QED  BY <1>6, <2>2, <2>3
<1>7. CASE (\E w \in BOOLEAN : Begin(w)) \/ SetTracked \/ Scan \/ Read \/ UNCHANGED counters
  <2>1. UNCHANGED <<kind, count, cpu>>
    BY <1>7 DEF Begin, SetTracked, Scan, Read, kernel, counters
  <2>2. kind \in PerThread => call' \notin {"scan", "clean"}
    <3>1. CASE SetTracked
      BY <3>1 DEF SetTracked
    <3>2. CASE ~SetTracked
      BY <1>7, <3>2 DEF Begin, Scan, Read, counters, PathInv
    <3> QED  BY <3>1, <3>2
  <2> QED  BY <2>1, <2>2 DEF PathInv
<1> QED  BY <1>2, <1>4, <1>5, <1>6, <1>7, <1>8 DEF CountersNext

(* Every step keeps LostInv: an event is lost only by a CPU that leaves    *)
(* Inserting without having made the entry.                                *)
LEMMA NextLost ==
  CountersAssumption /\ CountersTypeOK /\ PathInv /\ LostInv /\ [CountersNext]_counters => LostInv'
<1> SUFFICES ASSUME CountersAssumption, CountersTypeOK, PathInv, LostInv, [CountersNext]_counters PROVE LostInv'
  OBVIOUS
<1> DEFINE w == Cardinality(OnTheWay)
           n == Cardinality(Inserting)
           m == Cardinality(CPUs)
<1>0. /\ w \in Nat /\ n \in Nat /\ m \in Nat /\ passed \in Nat /\ missed \in Nat
      /\ Counted \in Nat /\ None \notin Nat /\ count \in Nat \cup {None}
  BY CpusFinite DEF CountersTypeOK, Counted, CountersAssumption
<1> HIDE DEF w, n, m
<1>9. ASSUME NEW c \in CPUs, cpu[c].at \notin {"idle", "exit"}, count = None,
             Done(c), Miss(c), UNCHANGED <<kind, passed, count>>
      PROVE  LostInv'
  <2>1. Cardinality(OnTheWay') = IF cpu[c].late THEN w ELSE w - 1
    BY <1>9, DoneSize DEF w, OnTheWay, CountersTypeOK
  <2>2. passed - missed - w <= 0
    BY <1>0, <1>9 DEF LostInv, Counted, w
  <2>3. missed' = IF cpu[c].late THEN missed ELSE missed + 1
    BY <1>9 DEF Miss
  <2>4. passed - missed' - Cardinality(OnTheWay') <= 0
    BY <1>0, <2>1, <2>2, <2>3
  <2> QED  BY <1>0, <1>9, <2>1, <2>3, <2>4 DEF LostInv, Counted
<1>1. ASSUME NEW c \in CPUs, Hit(c) PROVE LostInv'
  <2> DEFINE e == [cpu[c] EXCEPT !.at = "lookup"]
  <2>1. /\ cpu[c] \in [at : CpuSteps, late : BOOLEAN] /\ cpu[c].at = "idle" /\ ~cpu[c].late
        /\ cpu' = [cpu EXCEPT ![c] = e]
        /\ UNCHANGED <<kind, count, missed>> /\ passed' = passed + 1
    BY <1>1 DEF Hit, Goes, CountersTypeOK, PathInv, CpuSteps
  <2>2. e \in [at : CpuSteps, late : BOOLEAN] /\ e.at = "lookup" /\ ~e.late
    BY <2>1 DEF CpuSteps
  <2> HIDE DEF e
  <2>3. OnTheWay' = OnTheWay \cup {c} /\ Inserting' = Inserting \ {c}
    BY <2>1, <2>2, Moves
  <2>4. c \notin OnTheWay /\ c \notin Inserting
    BY <2>1 DEF OnTheWay, Inserting
  <2>5. Cardinality(OnTheWay') = w + 1 /\ Cardinality(Inserting') = n
    <3>1. Inserting' = Inserting
      BY <2>3, <2>4
    <3>2. Cardinality(OnTheWay \cup {c}) = Cardinality(OnTheWay) + 1
      BY <2>4, CpusFinite, FS_AddElement
    <3> QED  BY <2>3, <3>1, <3>2 DEF w, n
  <2> QED  BY <1>0, <2>1, <2>5 DEF LostInv, Counted, w, n
<1>2. ASSUME NEW c \in CPUs, Lookup(c) PROVE LostInv'
  <2>1. CASE count # None
    <3>1. cpu[c].at = "lookup" /\ Done(c) /\ count' = count + 1
         /\ UNCHANGED <<kind, passed, missed>>
      BY <1>2, <2>1 DEF Lookup
    <3>2. Cardinality(OnTheWay') \in {w, w - 1} /\ Cardinality(Inserting') = n
      BY <3>1, DoneSize DEF w, n
    <3>3. count' # None /\ count' \in Nat /\ count \in Nat
      BY <1>0, <2>1, <3>1
    <3>4. passed - missed - count - w <= IF kind \in PerThread \cup {"vm"} THEN 0 ELSE m - 1 - n
      BY <2>1 DEF LostInv, Counted, w, n, m
    <3>5. passed - missed - (count + 1) - Cardinality(OnTheWay')
            <= IF kind \in PerThread \cup {"vm"} THEN 0 ELSE m - 1 - n
      BY <1>0, <3>2, <3>3, <3>4
    <3> QED  BY <3>1, <3>2, <3>3, <3>5 DEF LostInv, Counted, m
  <2>3. CASE count = None /\ kind = "halt"
    BY <1>2, <1>9, <2>3 DEF Lookup
  <2>2. CASE count = None /\ kind # "halt"
    <3>1. cpu[c].at = "lookup" /\ Goes(c, "insert") /\ UNCHANGED <<kind, passed, count, missed>>
      BY <1>2, <2>2 DEF Lookup
    <3>2. OnTheWay' = OnTheWay
      BY <3>1, GoesSize DEF CpuSteps
    <3> QED  BY <2>2, <3>1, <3>2 DEF LostInv, Counted
  <2> QED  BY <2>1, <2>2, <2>3
<1>3. ASSUME NEW c \in CPUs, NEW full \in BOOLEAN, Insert(c, full) PROVE LostInv'
  <2>0. cpu[c].at = "insert" /\ UNCHANGED <<kind, passed>>
    BY <1>3 DEF Insert
  <2>1. CASE kind = "vm"
    <3>1. Goes(c, "again") /\ Counted' = Counted /\ missed' = missed
      BY <1>0, <1>3, <2>1 DEF Insert, Counted
    <3>2. OnTheWay' = OnTheWay
      BY <2>0, <3>1, GoesSize DEF CpuSteps
    <3> QED  BY <2>0, <2>1, <3>1, <3>2 DEF LostInv
  <2>3. CASE kind # "vm" /\ count = None /\ full
    BY <1>3, <1>9, <2>3 DEF Insert
  <2>2. CASE kind # "vm" /\ ~(count = None /\ full)
    <3>1. Done(c) /\ count' = (IF count = None THEN 1 ELSE count) /\ missed' = missed
      BY <1>3, <2>2 DEF Insert
    <3>2. CASE count = None
      <4>1. /\ Cardinality(OnTheWay') \in {w, w - 1}
            /\ Cardinality(Inserting') <= m - 1
        BY <2>0, <3>1, DoneSize DEF w, m
      <4>2. Cardinality(Inserting') \in Nat
        <5>1. Cardinality(Inserting') \in {n, n - 1} /\ (c \in Inserting => n # 0)
          BY <2>0, <3>1, DoneSize, CpusFinite, FS_EmptySet DEF n
        <5>2. c \notin Inserting => Cardinality(Inserting') = n
          BY <2>0, <3>1, DoneSize DEF n
        <5> QED  BY <1>0, <5>1, <5>2
      <4>3. passed - missed <= w
        BY <1>0, <3>2 DEF LostInv, Counted, w
      <4>4. Counted' = 1 /\ count' # None
        BY <1>0, <3>1, <3>2 DEF Counted
      <4> QED  BY <1>0, <2>0, <2>2, <3>1, <4>1, <4>2, <4>3, <4>4 DEF LostInv, m
    <3>3. CASE count # None
      <4>1. kind \notin PerThread
        BY <2>0, <3>3 DEF PathInv
      <4>2. \/ Cardinality(OnTheWay') = w /\ Cardinality(Inserting') = n
            \/ Cardinality(OnTheWay') = w - 1 /\ Cardinality(Inserting') = n - 1
        BY <2>0, <3>1, DoneSize DEF w, n
      <4> QED  BY <1>0, <2>0, <2>2, <3>1, <3>3, <4>1, <4>2 DEF LostInv, Counted, w, n, m
    <3> QED  BY <3>2, <3>3
  <2> QED  BY <2>1, <2>2, <2>3
<1>4. ASSUME NEW c \in CPUs, LookupAgain(c) PROVE LostInv'
  <2>1. cpu[c].at = "again" /\ Done(c) /\ UNCHANGED <<kind, passed>> /\ kind = "vm"
    BY <1>4 DEF LookupAgain, PathInv
  <2>2. CASE count # None
    <3>1. Cardinality(OnTheWay') \in {w, w - 1}
      BY <2>1, DoneSize DEF w
    <3>2. count' = count + 1 /\ missed' = missed
      BY <1>4, <2>2 DEF LookupAgain
    <3> QED  BY <1>0, <2>1, <2>2, <3>1, <3>2 DEF LostInv, Counted, w
  <2>3. CASE count = None
    BY <1>4, <1>9, <2>1, <2>3 DEF LookupAgain
  <2> QED  BY <2>2, <2>3
<1>10. ASSUME NEW c \in CPUs, KvmExit(c) \/ KvmExitCount(c) PROVE LostInv'
  <2>2. c \notin OnTheWay /\ c \notin Inserting
    BY <1>10 DEF KvmExit, KvmExitCount, AllIdle, OnTheWay, Inserting
  <2>3. ASSUME NEW e \in [at : CpuSteps, late : BOOLEAN], e.at \in {"idle", "exit"},
               cpu' = [cpu EXCEPT ![c] = e]
        PROVE  OnTheWay' = OnTheWay /\ Inserting' = Inserting
    <3>1. OnTheWay' = OnTheWay \ {c} /\ Inserting' = Inserting \ {c}
      BY <2>3, Moves
    <3> QED  BY <2>2, <3>1
  <2>4. OnTheWay' = OnTheWay /\ Inserting' = Inserting
    <3>1. CASE KvmExit(c)
      <4> DEFINE e == [cpu[c] EXCEPT !.at = "exit"]
      <4>1. cpu[c] \in [at : CpuSteps, late : BOOLEAN]
        BY DEF CountersTypeOK, CpuSteps
      <4>2. e \in [at : CpuSteps, late : BOOLEAN] /\ e.at = "exit"
        BY <4>1 DEF CpuSteps
      <4>3. cpu' = [cpu EXCEPT ![c] = e]
        BY <3>1 DEF KvmExit, Goes
      <4> HIDE DEF e
      <4> QED  BY <2>3, <4>2, <4>3
    <3>2. CASE KvmExitCount(c)
      <4>1. Idle \in [at : CpuSteps, late : BOOLEAN] /\ Idle.at = "idle"
        BY DEF Idle, CpuSteps
      <4> QED  BY <2>3, <3>2, <4>1 DEF KvmExitCount
    <3> QED  BY <1>10, <3>1, <3>2
  <2>5. UNCHANGED <<kind, passed, missed>> /\ Counted' = Counted
    BY <1>0, <1>10 DEF KvmExit, KvmExitCount, Counted
  <2>6. (count' = None <=> count = None) \/ kind \in PerThread
    BY <1>0, <1>10 DEF KvmExit, KvmExitCount, PathInv
  <2> QED  BY <2>4, <2>5, <2>6 DEF LostInv
<1>5. ASSUME Forget PROVE LostInv'
  <2>1. Cardinality(OnTheWay') = 0
    BY <1>5, ForgetSize, FS_EmptySet
  <2> QED  BY <1>5, <2>1 DEF LostInv, Forget, Counted
<1>6. ASSUME UNCHANGED <<cpu, count, passed, missed, kind>> PROVE LostInv'
  <2>1. OnTheWay' = OnTheWay /\ Inserting' = Inserting /\ Counted' = Counted
    BY <1>6 DEF OnTheWay, Inserting, Counted
  <2> QED  BY <1>6, <2>1 DEF LostInv
<1>7. CASE ThreadExit \/ Clean
  BY <1>5, <1>6, <1>7 DEF ThreadExit, Clean
<1>8. CASE (\E b \in BOOLEAN : Begin(b)) \/ SetTracked \/ Scan \/ Read \/ UNCHANGED counters
  BY <1>6, <1>8 DEF Begin, SetTracked, Scan, Read, kernel, counters
<1> QED  BY <1>1, <1>2, <1>3, <1>4, <1>7, <1>8, <1>10 DEF CountersNext

(* Few events are lost, besides those that a full map has no entry for and *)
(* the halts before a thread's first exit: of one life of an entry at most *)
(* one for each other CPU, all of them when the entry was made, and none   *)
(* where vm_counters_get makes the entry before it is counted in or one    *)
(* thread writes it (count_drop, count_key, vm_counters_get, kvm_exit,     *)
(* kvm_vcpu_wakeup), with any number of CPUs.                              *)
THEOREM LossBounded == ASSUME CountersAssumption PROVE CountersSpec => []FewLost
<1>1. CountersInit => PathInv /\ LostInv
  <2> SUFFICES ASSUME CountersInit PROVE PathInv /\ LostInv
    OBVIOUS
  <2>1. \A c \in CPUs : cpu[c].at = "idle" /\ ~cpu[c].late
    BY DEF CountersInit, Idle
  <2>2. PathInv
    BY <2>1 DEF CountersInit, PathInv
  <2>3. OnTheWay = {}
    BY <2>1 DEF OnTheWay
  <2>4. Cardinality(OnTheWay) = 0
    BY <2>3, FS_EmptySet
  <2> QED  BY <2>2, <2>4 DEF CountersInit, LostInv, Counted
<1>2. CountersTypeOK /\ LostInv => FewLost
  <2> SUFFICES ASSUME CountersTypeOK, LostInv PROVE FewLost
    OBVIOUS
  <2>1. /\ Cardinality(OnTheWay) \in Nat /\ Cardinality(Inserting) \in Nat
        /\ Cardinality(CPUs) \in Nat \ {0} /\ Counted \in Nat /\ passed \in Nat /\ missed \in Nat
    BY CpusFinite, FS_EmptySet DEF CountersAssumption, CountersTypeOK, Counted
  <2> QED  BY <2>1 DEF LostInv, FewLost
<1> QED  BY <1>1, <1>2, NextPath, NextLost, CountersTypeAlways, PTL DEF CountersSpec
-----------------------------------------------------------------------------
(* Devices. *)

(* The inductive invariant.  A cached device list is that of the VM as it  *)
(* is, unless the devices changed after it was read; without failed calls  *)
(* a list is at hand when the counters are read; and the counter of the    *)
(* interface has not gone up by more than what was received since.         *)
Xml == [dom : DomIDs, fetched : Nat, tap : Nat]
Sample == [v : Nat, t : Nat, new : BOOLEAN]

DevType ==
  /\ devClock \in Nat /\ fetch \in Nat /\ fetch <= devClock /\ taps \in Nat /\ since \in Nat
  /\ guest \in [id : DomIDs \cup {Nil}, tap : Nat, rx : Nat, changed : Nat] /\ guest.changed <= devClock
  /\ dom \in DomIDs \cup {Nil} /\ failed \in BOOLEAN
  /\ collect # "idle" => dom # Nil

XmlInv ==
  /\ xml \in {Nil} \cup Xml
  /\ xml # Nil => /\ xml.fetched <= fetch
                  /\ guest.changed >= xml.fetched \/ (xml.tap = guest.tap /\ xml.dom = guest.id)
  /\ collect = "xml" => ~failed
  /\ collect = "stats" /\ ~failed => xml # Nil /\ xml.dom = dom /\ fetch - xml.fetched < XmlRefresh

RateInv ==
  /\ \A k \in DOMAIN devRates : k = "net" /\ devRates[k] \in Sample /\ guest.rx - devRates[k].v <= since

DevInv == DevType /\ XmlInv /\ RateInv /\ HotplugSeen /\ NoPhantomBytes

(* What sweep leaves was there before. *)
LEMMA SweptKeeps ==
  ASSUME NEW r, NEW x \in Nat, NEW n \in Nat,
         \A k \in DOMAIN r : k = "net" /\ r[k] \in Sample /\ x - r[k].v <= n
  PROVE  \A k \in DOMAIN Swept(r) : k = "net" /\ Swept(r)[k] \in Sample /\ x - Swept(r)[k].v <= n
<1> SUFFICES ASSUME NEW k \in DOMAIN Swept(r)
             PROVE  k = "net" /\ Swept(r)[k] \in Sample /\ x - Swept(r)[k].v <= n
  OBVIOUS
<1>1. k \in DOMAIN r /\ Swept(r)[k] = [r[k] EXCEPT !.new = FALSE]
  BY DEF Swept
<1>2. r[k] \in Sample /\ k = "net" /\ x - r[k].v <= n
  BY <1>1
<1>3. [r[k] EXCEPT !.new = FALSE] \in Sample /\ [r[k] EXCEPT !.new = FALSE].v = r[k].v
  BY <1>2 DEF Sample
<1> QED  BY <1>1, <1>2, <1>3

(* A tap that comes or goes. *)
LEMMA Replugged ==
  ASSUME NEW g \in [id : DomIDs \cup {Nil}, tap : Nat, rx : Nat, changed : Nat],
         NEW t \in Nat, NEW c \in Nat
  PROVE  LET h == [g EXCEPT !.tap = t, !.rx = 0, !.changed = c] IN
         h \in [id : DomIDs \cup {Nil}, tap : Nat, rx : Nat, changed : Nat]
         /\ h.rx = 0 /\ h.changed = c
<1> DEFINE Guest == [id : DomIDs \cup {Nil}, tap : Nat, rx : Nat, changed : Nat]
<1>1. PICK e : e = [g EXCEPT !.tap = t]
  OBVIOUS
<1>2. e \in Guest
  BY <1>1
<1>3. [g EXCEPT !.tap = t, !.rx = 0, !.changed = c] = [e EXCEPT !.rx = 0, !.changed = c]
  BY <1>1
<1>4. /\ [e EXCEPT !.rx = 0, !.changed = c] \in Guest
      /\ [e EXCEPT !.rx = 0, !.changed = c].rx = 0
      /\ [e EXCEPT !.rx = 0, !.changed = c].changed = c
  BY <1>2
<1> QED  BY <1>3, <1>4

(* Time passes, or nothing happens to the devices. *)
TimePasses ==
  devClock' \in Nat /\ devClock' >= devClock /\ UNCHANGED <<guest, taps, since, collector>>

(* The VM and time. *)
LEMMA GuestKeeps ==
  ASSUME DevicesAssumption, DevInv,
         TimePasses \/ DevPass \/ GuestStop \/ PlugTap \/ UnplugTap \/ Receive \/ \E id \in DomIDs : GuestStart(id)
  PROVE  DevInv'
<1>1. /\ UNCHANGED collector /\ devClock' \in Nat /\ devClock' >= devClock /\ taps' \in Nat
      /\ guest' \in [id : DomIDs \cup {Nil}, tap : Nat, rx : Nat, changed : Nat]
      /\ guest'.changed <= devClock'
      /\ \/ since' = since /\ guest'.rx = 0 /\ guest'.changed = devClock
         \/ since' = since /\ guest' = guest
         \/ since' = since + 1 /\ guest'.rx = guest.rx + 1 /\ guest'.changed = guest.changed
            /\ guest'.tap = guest.tap /\ guest'.id = guest.id
  <2>0. /\ devClock \in Nat /\ taps \in Nat /\ guest.changed <= devClock
        /\ guest \in [id : DomIDs \cup {Nil}, tap : Nat, rx : Nat, changed : Nat]
    BY DEF DevInv, DevType
  <2>1. CASE TimePasses \/ DevPass
    BY <2>0, <2>1 DEF TimePasses, DevPass
  <2>2. CASE GuestStop
    BY <2>0, <2>2 DEF GuestStop
  <2>3. CASE PlugTap
    <3>1. /\ guest' = [guest EXCEPT !.tap = taps + 1, !.rx = 0, !.changed = devClock] /\ taps' = taps + 1
          /\ UNCHANGED <<devClock, since, collector>> /\ taps + 1 \in Nat
      BY <2>0, <2>3 DEF PlugTap
    <3>2. /\ guest' \in [id : DomIDs \cup {Nil}, tap : Nat, rx : Nat, changed : Nat]
          /\ guest'.rx = 0 /\ guest'.changed = devClock
      BY <2>0, <3>1, Replugged
    <3> QED  BY <2>0, <3>1, <3>2
  <2>4. CASE UnplugTap
    <3>1. /\ guest' = [guest EXCEPT !.tap = 0, !.rx = 0, !.changed = devClock]
          /\ UNCHANGED <<devClock, taps, since, collector>>
      BY <2>4 DEF UnplugTap
    <3>2. /\ guest' \in [id : DomIDs \cup {Nil}, tap : Nat, rx : Nat, changed : Nat]
          /\ guest'.rx = 0 /\ guest'.changed = devClock
      BY <2>0, <3>1, Replugged
    <3> QED  BY <2>0, <3>1, <3>2
  <2>5. CASE Receive
    BY <2>0, <2>5 DEF Receive
  <2>6. CASE \E id \in DomIDs : GuestStart(id)
    BY <2>0, <2>6 DEF GuestStart
  <2> QED  BY <2>1, <2>2, <2>3, <2>4, <2>5, <2>6
<1>2. UNCHANGED <<collect, dom, fetch, xml, period, devRates, iface, failed>>
  BY <1>1 DEF collector
<1>3. /\ devClock \in Nat /\ fetch \in Nat /\ fetch <= devClock /\ since \in Nat /\ guest.rx \in Nat
      /\ guest.changed \in Nat /\ guest.changed <= devClock
  BY DEF DevInv, DevType
<1>4. DevType'
  BY <1>1, <1>2, <1>3 DEF DevInv, DevType
<1>5. XmlInv'
  BY <1>1, <1>2, <1>3 DEF DevInv, XmlInv, Xml
<1>6. RateInv'
  <2> SUFFICES ASSUME NEW k \in DOMAIN devRates
               PROVE  k = "net" /\ devRates[k] \in Sample /\ guest'.rx - devRates[k].v <= since'
    BY <1>2 DEF RateInv, Sample
  <2>1. k = "net" /\ devRates[k] \in Sample /\ devRates[k].v \in Nat /\ guest.rx - devRates[k].v <= since
    BY DEF DevInv, RateInv, Sample
  <2> QED  BY <1>1, <1>3, <2>1
<1>7. HotplugSeen'
  <2>1. CASE guest'.changed = devClock
    <3>1. ~(fetch - guest'.changed >= XmlRefresh)
      BY <1>3, <2>1 DEF DevicesAssumption
    <3> QED  BY <1>2, <3>1 DEF HotplugSeen
  <2>2. CASE UNCHANGED <<guest.changed, guest.tap, guest.id>>
    BY <1>2, <2>2 DEF DevInv, HotplugSeen
  <2> QED  BY <1>1, <2>1, <2>2
<1>8. NoPhantomBytes'
  BY <1>2 DEF DevInv, NoPhantomBytes
<1> QED  BY <1>4, <1>5, <1>6, <1>7, <1>8 DEF DevInv

(* A Collect begins. *)
LEMMA BeginKeeps ==
  ASSUME DevicesAssumption, DevInv, CollectFails \/ StateFails \/ ListDomains \/ ListOff \/ ListWithout
  PROVE  DevInv'
<1>1. /\ devClock \in Nat /\ fetch \in Nat /\ fetch <= devClock /\ taps \in Nat /\ since \in Nat
      /\ guest \in [id : DomIDs \cup {Nil}, tap : Nat, rx : Nat, changed : Nat] /\ guest.rx \in Nat
      /\ collect = "idle" /\ dom \in DomIDs \cup {Nil}
  BY DEF DevInv, DevType, CollectFails, StateFails, ListDomains, ListOff, ListWithout
<1>2. /\ UNCHANGED <<devClock, guest, taps, since>> /\ fetch' = devClock /\ fetch' >= fetch
      /\ xml' \in {xml, Nil} /\ devRates' \in {devRates, Swept(devRates)} /\ iface' \in {iface, Nil}
      /\ failed' \in BOOLEAN /\ dom' \in DomIDs \cup {Nil}
      /\ \/ collect' = "idle" /\ (failed' \/ dom' = Nil)
         \/ collect' = "xml" /\ ~failed' /\ dom' # Nil
  BY <1>1 DEF CollectFails, StateFails, ListDomains, ListOff, ListWithout
<1>3. DevType'
  BY <1>1, <1>2 DEF DevInv, DevType
<1>4. XmlInv'
  BY <1>1, <1>2 DEF DevInv, XmlInv, Xml
<1>5. RateInv'
  <2>1. \A k \in DOMAIN devRates' : k = "net" /\ devRates'[k] \in Sample /\ guest.rx - devRates'[k].v <= since
    BY <1>1, <1>2, SweptKeeps DEF DevInv, RateInv
  <2> QED  BY <1>2, <2>1 DEF RateInv, Sample
<1>6. HotplugSeen'
  BY <1>2 DEF HotplugSeen
<1>7. NoPhantomBytes'
  BY <1>2 DEF DevInv, NoPhantomBytes
<1> QED  BY <1>3, <1>4, <1>5, <1>6, <1>7 DEF DevInv

(* domainXML. *)
LEMMA XmlKeeps ==
  ASSUME DevicesAssumption, DevInv, CachedXML \/ \E ok \in BOOLEAN : FetchXML(ok)
  PROVE  DevInv'
<1>1. /\ devClock \in Nat /\ fetch \in Nat /\ fetch <= devClock /\ guest.tap \in Nat
      /\ collect = "xml" /\ dom \in DomIDs /\ guest.changed \in Nat /\ ~failed
  BY DEF DevInv, DevType, XmlInv, CachedXML, FetchXML
<1>2. UNCHANGED <<devClock, guest, taps, since, dom, fetch, devRates, iface>> /\ collect' = "stats"
  BY DEF CachedXML, FetchXML
<1>3. failed' \in BOOLEAN
  <2>1. CASE CachedXML
    BY <2>1 DEF CachedXML, DevInv, DevType
  <2>2. CASE \E ok \in BOOLEAN : FetchXML(ok)
    BY <2>2, Zenon DEF FetchXML
  <2> QED  BY <2>1, <2>2
<1>4. DevType'
  BY <1>1, <1>2, <1>3 DEF DevInv, DevType
<1>5. XmlInv'
  <2>1. CASE CachedXML
    BY <1>1, <1>2, <2>1 DEF CachedXML, XmlFresh, DevInv, XmlInv, Xml
  <2>2. CASE FetchXML(TRUE)
    <3>1. xml' = [dom |-> dom, fetched |-> fetch, tap |-> guest.tap] /\ guest.id = dom
      BY <2>2 DEF FetchXML
    <3>2. xml' \in Xml /\ xml' # Nil
      BY <1>1, <3>1 DEF Xml, DevicesAssumption
    <3>3. xml'.fetched = fetch /\ xml'.tap = guest.tap /\ xml'.dom = dom
      BY <3>1
    <3>4. fetch - fetch < XmlRefresh /\ fetch <= fetch
      BY <1>1 DEF DevicesAssumption
    <3> QED  BY <1>2, <3>1, <3>2, <3>3, <3>4 DEF XmlInv, Xml
  <2>3. CASE FetchXML(FALSE)
    <3>1. xml' = xml /\ failed'
      BY <2>3 DEF FetchXML
    <3> QED  BY <1>2, <3>1 DEF DevInv, XmlInv, Xml
  <2> QED  BY <2>1, <2>2, <2>3
<1>6. RateInv' /\ HotplugSeen' /\ NoPhantomBytes'
  BY <1>2 DEF DevInv, RateInv, HotplugSeen, NoPhantomBytes, Sample
<1> QED  BY <1>4, <1>5, <1>6 DEF DevInv

(* DomainInterfaceStats. *)
LEMMA StatsKeeps ==
  ASSUME DevicesAssumption, DevInv, NEW ok \in BOOLEAN, InterfaceStats(ok)
  PROVE  DevInv'
<1>1. /\ devClock \in Nat /\ fetch \in Nat /\ fetch <= devClock /\ guest.tap \in Nat /\ guest.rx \in Nat
      /\ since \in Nat /\ guest.changed \in Nat /\ dom \in DomIDs /\ failed \in BOOLEAN
      /\ XmlRefresh \in Nat
  BY DEF DevInv, DevType, InterfaceStats, DevicesAssumption
<1> DEFINE r == Rate(devRates, "net", guest.rx, fetch)
<1>2. /\ UNCHANGED <<devClock, guest, taps, dom, fetch, xml>> /\ collect' = "idle" /\ collect = "stats"
      /\ ok => xml # Nil /\ xml.tap # 0 /\ guest.id = dom /\ guest.tap # 0
      /\ since' = IF ok THEN 0 ELSE since
      /\ iface' = IF ok THEN [tap |-> xml.tap, inc |-> r.inc, dt |-> r.dt, of |-> since] ELSE Nil
      /\ devRates' = Swept(IF ok THEN Sampled(devRates, "net", guest.rx, fetch) ELSE devRates)
  BY DEF InterfaceStats
<1>3. failed' = (failed \/ (xml # Nil /\ xml.tap # 0 /\ ~ok /\ guest.id = dom /\ guest.tap # 0))
  BY DEF InterfaceStats
<1>r. r.inc \in 0 .. since /\ r.inc \in Int /\ r.dt \in Int
  <2>1. "net" \in DOMAIN devRates =>
          devRates["net"].v \in Nat /\ devRates["net"].t \in Nat /\ guest.rx - devRates["net"].v <= since
    BY DEF DevInv, RateInv, Sample
  <2> QED  BY <1>1, <2>1 DEF Rate, NoRate
<1>4. DevType'
  BY <1>1, <1>2, <1>3 DEF DevInv, DevType
<1>5. XmlInv'
  BY <1>2 DEF DevInv, XmlInv, Xml
<1>6. RateInv'
  <2> DEFINE s == IF ok THEN Sampled(devRates, "net", guest.rx, fetch) ELSE devRates
  <2>1. \A k \in DOMAIN s : k = "net" /\ s[k] \in Sample /\ guest.rx - s[k].v <= since'
    <3>1. CASE ok
      <4>1. PICK e : e = [v |-> guest.rx, t |-> fetch, new |-> TRUE]
        OBVIOUS
      <4>2. ASSUME NEW k \in DOMAIN s PROVE k = "net" /\ s[k] = e
        BY <3>1, <4>1, <4>2 DEF Sampled, DevInv, RateInv
      <4>3. e \in Sample /\ e.v = guest.rx
        BY <1>1, <4>1 DEF Sample
      <4> HIDE DEF s
      <4>4. since' = 0
        BY <1>2, <3>1
      <4> QED  BY <1>1, <4>2, <4>3, <4>4
    <3>2. CASE ~ok
      BY <1>2, <3>2 DEF DevInv, RateInv
    <3> QED  BY <3>1, <3>2
  <2>2. devRates' = Swept(s) /\ since' \in Nat
    BY <1>1, <1>2
  <2> HIDE DEF s
  <2>3. \A k \in DOMAIN Swept(s) : k = "net" /\ Swept(s)[k] \in Sample /\ guest.rx - Swept(s)[k].v <= since'
    <3>1. PICK n \in Nat : n = since'
      BY <2>2
    <3>2. PICK x \in Nat : x = guest.rx
      BY <1>1
    <3>3. PICK q : q = s
      OBVIOUS
    <3> QED  BY <2>1, <3>1, <3>2, <3>3, SweptKeeps
  <2> QED  BY <1>2, <2>2, <2>3 DEF RateInv, Sample
<1>7. HotplugSeen'
  <2> SUFFICES ASSUME dom = guest.id, ~failed', fetch - guest.changed >= XmlRefresh
               PROVE  IF guest.tap = 0 THEN iface' = Nil ELSE iface' # Nil /\ iface'.tap = guest.tap
    BY <1>2 DEF HotplugSeen
  <2>1. ~failed /\ xml # Nil /\ xml.dom = dom /\ fetch - xml.fetched < XmlRefresh /\ xml \in Xml
    BY <1>2, <1>3 DEF DevInv, XmlInv
  <2>2. xml.fetched \in Nat /\ xml.tap \in Nat
    BY <2>1 DEF Xml
  <2>3. xml.tap = guest.tap
    BY <1>1, <2>1, <2>2 DEF DevInv, XmlInv
  <2>4. CASE guest.tap = 0
    BY <1>2, <2>4
  <2>5. CASE guest.tap # 0
    <3>1. ok
      BY <1>3, <2>1, <2>3, <2>5
    <3> HIDE DEF r
    <3>2. iface' = [tap |-> xml.tap, inc |-> r.inc, dt |-> r.dt, of |-> since]
      BY <1>2, <3>1
    <3>3. iface' \in [tap : Nat, inc : Int, dt : Int, of : Nat] /\ iface'.tap = xml.tap
      BY <1>1, <1>r, <2>2, <3>2
    <3> QED  BY <2>3, <2>5, <3>3 DEF DevicesAssumption
  <2> QED  BY <2>4, <2>5
<1>8. NoPhantomBytes'
  <2> HIDE DEF r
  <2> QED  BY <1>2, <1>r DEF NoPhantomBytes
<1> QED  BY <1>4, <1>5, <1>6, <1>7, <1>8 DEF DevInv

(* Nothing is cached at the start. *)
LEMMA DevicesStart == ASSUME DevicesAssumption PROVE DevicesInit => DevInv
<1> SUFFICES ASSUME DevicesInit PROVE DevInv
  OBVIOUS
<1>1. devRates = <<>>
  BY Zenon DEF DevicesInit
<1>2. DOMAIN devRates = {}
  BY <1>1
<1>3. /\ devClock = 0 /\ fetch = 0 /\ taps = 0 /\ since = 0 /\ collect = "idle" /\ dom = Nil
      /\ xml = Nil /\ iface = Nil /\ failed = FALSE
  BY Zenon DEF DevicesInit
<1>4. DevType
  <2>1. /\ guest \in [id : DomIDs \cup {Nil}, tap : Nat, rx : Nat, changed : Nat]
        /\ guest.changed = 0
    BY DEF DevicesInit
  <2>2. failed \in BOOLEAN
    BY <1>3, Zenon
  <2>3. /\ devClock = 0 /\ fetch = 0 /\ taps = 0 /\ since = 0 /\ collect = "idle" /\ dom = Nil
    BY <1>3
  <2> QED  BY <2>1, <2>2, <2>3 DEF DevType
<1>5. XmlInv /\ HotplugSeen /\ NoPhantomBytes
  BY <1>3 DEF XmlInv, HotplugSeen, NoPhantomBytes
<1>6. RateInv
  BY <1>2 DEF RateInv
<1> QED  BY <1>4, <1>5, <1>6 DEF DevInv

(* Every step keeps the invariant. *)
LEMMA DevicesKeep ==
  ASSUME DevicesAssumption, DevInv, DevicesNext \/ TimePasses
  PROVE  DevInv'
<1>1. CASE TimePasses
  BY <1>1, GuestKeeps
<1>2. CASE DevPass \/ GuestStop \/ PlugTap \/ UnplugTap \/ Receive \/ \E id \in DomIDs : GuestStart(id)
  BY <1>2, GuestKeeps
<1>3. CASE CollectFails \/ StateFails \/ ListDomains \/ ListOff \/ ListWithout
  BY <1>3, BeginKeeps
<1>4. CASE CachedXML \/ \E ok \in BOOLEAN : FetchXML(ok)
  BY <1>4, XmlKeeps
<1>5. CASE \E ok \in BOOLEAN : InterfaceStats(ok)
  BY <1>5, StatsKeeps
<1> QED  BY <1>1, <1>2, <1>3, <1>4, <1>5 DEF DevicesNext
-----------------------------------------------------------------------------
(* The parts together: each follows its own specification, whatever the    *)
(* others do.                                                              *)
LEMMA PartsFollow == Spec => CountersSpec /\ DevicesSpec /\ ThreadsSpec
<1>1. Init => CountersInit /\ DevicesInit /\ ThreadsInit
  BY DEF Init
<1>2. [Next]_vars => [CountersNext]_counters
  BY DEF Next, vars
<1>3. [Next]_vars => [DevicesNext]_devices
  BY DEF Next, vars
<1>4. [Next]_vars => [ThreadsNext]_vcpuThreads
  BY DEF Next, vars
<1> QED  BY <1>1, <1>2, <1>3, <1>4, PTL DEF Spec, CountersSpec, DevicesSpec, ThreadsSpec

(* The invariant of the devices. *)
THEOREM DevicesAlways == DevicesSpec => []DevInv
<1>1. DevicesInit => DevInv
  BY DevicesStart, StatisticsAssumption
<1>2. DevInv /\ [DevicesNext]_devices => DevInv'
  <2> SUFFICES ASSUME DevInv, [DevicesNext]_devices PROVE DevInv'
    OBVIOUS
  <2>1. DevicesNext \/ TimePasses
    BY DEF devices, collector, TimePasses, DevInv, DevType
  <2> QED  BY <2>1, DevicesKeep, StatisticsAssumption
<1> QED  BY <1>1, <1>2, PTL DEF DevicesSpec

(* RatesTrue: a rate is never negative and never more than what happened   *)
(* since its counter was last sampled, for the counters of the programs    *)
(* (EBPFCollector.Collect) and for those of libvirt (collectRunning).      *)
THEOREM RatesAlwaysTrue == Spec => []RatesTrue
<1>1. DevInv /\ NoPhantom => RatesTrue
  BY DEF DevInv, RatesTrue
<1>2. CountersSpec => []NoPhantom
  BY RatesNoPhantom, StatisticsAssumption
<1> QED  BY <1>1, <1>2, PartsFollow, DevicesAlways, PTL

(* FewLost: besides the events that found the map full or came before the  *)
(* thread's entry, at most one event is lost for each other CPU and life of*)
(* the entry (count_drop, count_key, vm_counters_get, kvm_vcpu_wakeup).    *)
THEOREM FewAreLost == Spec => []FewLost
<1>1. CountersSpec => []FewLost
  BY LossBounded, StatisticsAssumption
<1> QED  BY <1>1, PartsFollow, PTL

(* HotplugSeen: a Collect without failed calls shows the interface the VM  *)
(* has had for XmlRefresh (domainXML).                                     *)
THEOREM HotplugAlwaysSeen == Spec => []HotplugSeen
<1>1. DevInv => HotplugSeen
  BY DEF DevInv
<1> QED  BY <1>1, PartsFollow, DevicesAlways, PTL
=============================================================================
