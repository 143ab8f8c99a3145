---------------------------- MODULE CollectorProofs ----------------------------
(***************************************************************************)
(* Proofs about what the collectors keep: the store (Store), for any VMs,  *)
(* series and history length; the answers of the QMP poller (QmpPoller),   *)
(* for any VMs, run states and interval; and the threads of vCPUs          *)
(* (VcpuThreads), for any processes, threads and vCPUs and for any time a  *)
(* list is kept.                                                           *)
(***************************************************************************)
EXTENDS Store, QmpPoller, VcpuThreads, TLAPS
-----------------------------------------------------------------------------
(* The store.  Its histories are windows of what was committed.  First the *)
(* ring: Push and Slice implement a window of the last Size values: if a   *)
(* ring represents a log, the ring after Push(v) represents the log with v *)
(* appended, and Slice returns the last values of the log.  Then the store:*)
(* the inductive invariant says that every ring represents the log of its  *)
(* series, and the lemmas about the ring carry it through Commit.          *)

Turn(n) == IF n < Size THEN n ELSE n - Size

Ring == [buf : Seq(Value), pos : 0 .. Size - 1]

Represents(r, past) ==
  /\ r \in Ring /\ past \in Seq(Value)
  /\ Len(past) < Size => r.buf = past /\ r.pos = 0
  /\ Len(past) >= Size =>
       /\ Len(r.buf) = Size
       /\ \A i \in 1 .. Size : r.buf[Turn(r.pos + i - 1) + 1] = past[Len(past) - Size + i]

(* The remainder by which the code wraps an index is one subtraction.      *)
LEMMA Wraps ==
  ASSUME NEW n \in 0 .. 2 * Size - 1
  PROVE  n % Size = Turn(n) /\ Turn(n) \in 0 .. Size - 1
<1>1. Size \in Nat /\ Size > 0
  BY SizeAssumption
<1>2. CASE n < Size
  BY <1>1, <1>2 DEF Turn
<1>3. CASE n >= Size
  BY <1>1, <1>3 DEF Turn
<1>. QED  BY <1>1, <1>2, <1>3

(* Where the i-th oldest value lies after the position has moved by one:   *)
(* where the next oldest lay before, and the newest at the old position.   *)
LEMMA TurnNext ==
  ASSUME NEW q \in 0 .. Size - 1, NEW i \in 1 .. Size
  PROVE  /\ i = Size => Turn(Turn(q + 1) + i - 1) = q
         /\ i < Size => /\ Turn(Turn(q + 1) + i - 1) = Turn(q + (i + 1) - 1)
                        /\ Turn(Turn(q + 1) + i - 1) \in 0 .. Size - 1
                        /\ Turn(Turn(q + 1) + i - 1) # q
<1>1. Size \in Nat /\ Size > 0
  BY SizeAssumption
<1>2. CASE q + 1 < Size
  BY <1>1, <1>2 DEF Turn
<1>3. CASE q + 1 = Size
  BY <1>1, <1>3 DEF Turn
<1>. QED  BY <1>1, <1>2, <1>3

(* A new ring represents the empty log. *)
LEMMA NewRepresents == Represents(NewRing, <<>>)
<1>1. Size \in Nat /\ Size > 0
  BY SizeAssumption
<1>2. <<>> \in Seq(Value) /\ Len(<<>>) = 0
  OBVIOUS
<1>. QED  BY <1>1, <1>2 DEF Represents, Ring, NewRing

(* Pushing a value onto a ring appends it to the log the ring represents,  *)
(* before the buffer is full, when it becomes full and when the oldest     *)
(* value is overwritten.                                                   *)
LEMMA PushRepresents ==
  ASSUME NEW r, NEW past, Represents(r, past), NEW v \in Value
  PROVE  Represents(Push(r, v), Append(past, v))
<1>1. Size \in Nat /\ Size > 0
  BY SizeAssumption
<1>2. r \in Ring /\ past \in Seq(Value) /\ r.buf \in Seq(Value) /\ r.pos \in 0 .. Size - 1
  BY DEF Represents, Ring
<1> DEFINE n == Len(past)
           new == Append(past, v)
<1>3. n \in Nat /\ new \in Seq(Value) /\ Len(new) = n + 1 /\ new[n + 1] = v
      /\ \A i \in 1 .. n : new[i] = past[i]
  BY <1>2
<1>4. CASE n < Size
  <2>1. r.buf = past /\ r.pos = 0
    BY <1>4 DEF Represents
  <2>2. Push(r, v) = [r EXCEPT !.buf = new]
    BY <1>4, <2>1 DEF Push
  <2>3. Push(r, v).buf = new /\ Push(r, v).pos = 0 /\ Push(r, v) \in Ring
    BY <1>2, <1>3, <2>1, <2>2, Zenon DEF Ring
  <2> HIDE DEF new
  <2>4. CASE n + 1 < Size
    BY <1>1, <1>3, <2>3, <2>4 DEF Represents, new
  <2>5. CASE n + 1 = Size
    <3>1. \A i \in 1 .. Size : Turn(0 + i - 1) + 1 = i /\ Len(new) - Size + i = i
      BY <1>1, <1>3, <2>5 DEF Turn
    <3>. QED  BY <1>1, <1>3, <2>3, <2>5, <3>1, ZenonT(30) DEF Represents, new
  <2>. QED  BY <1>1, <1>3, <1>4, <2>4, <2>5
<1>5. CASE n >= Size
  <2> DEFINE p == Push(r, v)
  <2>1. /\ Len(r.buf) = Size
        /\ \A i \in 1 .. Size : r.buf[Turn(r.pos + i - 1) + 1] = past[n - Size + i]
    BY <1>5 DEF Represents
  <2>2. p = [buf |-> [r.buf EXCEPT ![r.pos + 1] = v], pos |-> (r.pos + 1) % Size]
    BY <1>1, <2>1 DEF Push
  <2>3. (r.pos + 1) % Size = Turn(r.pos + 1) /\ Turn(r.pos + 1) \in 0 .. Size - 1
    <3>1. r.pos + 1 \in 0 .. 2 * Size - 1
      BY <1>1, <1>2
    <3>. QED  BY <3>1, Wraps
  <2>4. /\ p.buf \in Seq(Value) /\ Len(p.buf) = Size /\ p.pos = Turn(r.pos + 1)
        /\ \A j \in 1 .. Size : p.buf[j] = IF j = r.pos + 1 THEN v ELSE r.buf[j]
    <3>1. r.pos + 1 \in 1 .. Len(r.buf)
      BY <1>1, <1>2, <2>1
    <3>2. p.buf = [r.buf EXCEPT ![r.pos + 1] = v] /\ p.pos = Turn(r.pos + 1)
      BY <2>2, <2>3
    <3> HIDE DEF p
    <3>3. p.buf \in Seq(Value) /\ Len(p.buf) = Len(r.buf)
      BY <1>2, <3>1, <3>2
    <3>4. \A j \in 1 .. Len(r.buf) : p.buf[j] = IF j = r.pos + 1 THEN v ELSE r.buf[j]
      BY <1>2, <3>1, <3>2
    <3>. QED  BY <2>1, <3>2, <3>3, <3>4
  <2>5. p \in Ring
    BY <2>2, <2>3, <2>4 DEF Ring
  <2> HIDE DEF p, new
  <2>6. ASSUME NEW i \in 1 .. Size
        PROVE  p.buf[Turn(p.pos + i - 1) + 1] = new[n + 1 - Size + i]
    <3> DEFINE j == Turn(p.pos + i - 1)
    <3>0. j = Turn(Turn(r.pos + 1) + i - 1)
      BY <2>4
    <3> HIDE DEF j
    <3>1. CASE i = Size
      <4>1. j = r.pos
        BY <1>2, <3>0, <3>1, TurnNext
      <4>2. p.buf[j + 1] = v
        <5>1. r.pos + 1 \in 1 .. Size
          BY <1>1, <1>2
        <5>. QED  BY <2>4, <4>1, <5>1
      <4>3. n + 1 - Size + i = n + 1
        BY <1>1, <1>3, <3>1
      <4>. QED  BY <1>3, <4>2, <4>3 DEF j
    <3>2. CASE i < Size
      <4>1. j = Turn(r.pos + (i + 1) - 1) /\ j \in 0 .. Size - 1 /\ j # r.pos
        BY <1>2, <3>0, <3>2, TurnNext
      <4>2. i + 1 \in 1 .. Size
        BY <1>1, <3>2
      <4>3. p.buf[j + 1] = r.buf[j + 1]
        <5>1. j + 1 \in 1 .. Size /\ j + 1 # r.pos + 1
          BY <1>1, <1>2, <4>1
        <5>. QED  BY <2>4, <5>1
      <4>4. r.buf[j + 1] = past[n - Size + (i + 1)]
        BY <2>1, <4>1, <4>2
      <4>5. n - Size + (i + 1) = n + 1 - Size + i /\ n + 1 - Size + i \in 1 .. n
        BY <1>1, <1>3, <1>5, <3>2
      <4>. QED  BY <1>3, <4>3, <4>4, <4>5 DEF j
    <3>. QED  BY <1>1, <3>1, <3>2
  <2>7. ~(Len(new) < Size) /\ Len(new) = n + 1
    BY <1>1, <1>3, <1>5
  <2>8. Represents(p, new)
    BY <1>3, <2>4, <2>5, <2>6, <2>7 DEF Represents
  <2>. QED  BY <2>8 DEF p, new
<1>. QED  BY <1>1, <1>3, <1>4, <1>5

(* Slice returns the last values pushed, at most Size, oldest first. *)
LEMMA SliceExact ==
  ASSUME NEW r, NEW past, Represents(r, past)
  PROVE  Slice(r) = LastN(past)
<1>1. Size \in Nat /\ Size > 0
  BY SizeAssumption
<1>2. past \in Seq(Value) /\ Len(past) \in Nat /\ r.pos \in 0 .. Size - 1
  BY DEF Represents, Ring
<1>3. CASE Len(past) < Size
  BY <1>3 DEF Represents, Slice, LastN
<1>4. CASE Len(past) >= Size
  <2>1. Len(r.buf) = Size
    BY <1>4 DEF Represents
  <2>2. ASSUME NEW i \in 1 .. Size
        PROVE  r.buf[((r.pos + i - 1) % Size) + 1] = past[Len(past) - Size + i]
    <3>1. r.pos + i - 1 \in 0 .. 2 * Size - 1
      BY <1>1, <1>2
    <3>2. (r.pos + i - 1) % Size = Turn(r.pos + i - 1)
      BY <3>1, Wraps
    <3>. QED  BY <1>4, <3>2 DEF Represents
  <2>3. Slice(r) = [i \in 1 .. Size |-> r.buf[((r.pos + i - 1) % Size) + 1]]
    BY <1>1, <2>1 DEF Slice
  <2>4. LastN(past) = [i \in 1 .. Size |-> past[Len(past) - Size + i]]
    BY <1>1, <1>2, <1>4 DEF LastN
  <2>. QED  BY <2>2, <2>3, <2>4
<1>. QED  BY <1>1, <1>2, <1>3, <1>4
-----------------------------------------------------------------------------
(* The store. *)

Kept ==
  /\ \A id \in DOMAIN domains : \A s \in Series :
       Represents(domains[id].rings[s], Totals(log[id], s))
  /\ Represents(hostHist, hostLog)

IInv == TypeOK /\ Kept

(* The store starts empty, with the rings of the host empty. *)
LEMMA InitIInv == Init => IInv
<1> SUFFICES ASSUME Init PROVE IInv
  OBVIOUS
<1>1. DOMAIN domains = {} /\ log \in [DOMAIN domains -> Seq(Snap)]
  BY DEF Init
<1>2. domains \in [DOMAIN domains -> Entry]
  BY <1>1 DEF Init
<1>3. Represents(hostHist, hostLog)
  BY NewRepresents DEF Init
<1>4. hostHist \in [buf : Seq(Value), pos : 0 .. Size - 1] /\ hostLog \in Seq(HostStats)
  BY <1>3 DEF Represents, Ring, Init
<1>. QED  BY <1>1, <1>2, <1>3, <1>4 DEF IInv, TypeOK, Kept, Init

(* A series of a longer log is the series of the log, one value longer. *)
LEMMA TotalsAppend ==
  ASSUME NEW l \in Seq(Snap), NEW d \in Snap, NEW s \in Series
  PROVE  Totals(Append(l, d), s) = Append(Totals(l, s), Total[d][s])
<1> DEFINE a == Append(l, d)
           t == Totals(l, s)
<1>1. Len(l) \in Nat /\ a \in Seq(Snap) /\ Len(a) = Len(l) + 1 /\ a[Len(l) + 1] = d
      /\ \A i \in 1 .. Len(l) : a[i] = l[i]
  OBVIOUS
<1>2. \A x \in Snap : Total[x][s] \in Value
  BY StoreAssumption
<1>3. t \in Seq(Value) /\ Len(t) = Len(l) /\ \A i \in 1 .. Len(l) : t[i] = Total[l[i]][s]
  <2>1. \A i \in 1 .. Len(l) : Total[l[i]][s] \in Value
    BY <1>2
  <2>. QED  BY <1>1, <2>1 DEF Totals
<1>4. Append(t, Total[d][s]) = [i \in 1 .. Len(l) + 1 |-> IF i <= Len(l) THEN t[i] ELSE Total[d][s]]
  <2>1. Append(t, Total[d][s]) \in Seq(Value) /\ Len(Append(t, Total[d][s])) = Len(l) + 1
    BY <1>2, <1>3
  <2>. QED  BY <1>1, <1>2, <1>3, <2>1
<1>5. Totals(a, s) = [i \in 1 .. Len(l) + 1 |-> Total[a[i]][s]]
  BY <1>1 DEF Totals
<1> HIDE DEF a, t
<1>6. \A i \in 1 .. Len(l) + 1 : Total[a[i]][s] = IF i <= Len(l) THEN t[i] ELSE Total[d][s]
  <2> SUFFICES ASSUME NEW i \in 1 .. Len(l) + 1
               PROVE  Total[a[i]][s] = IF i <= Len(l) THEN t[i] ELSE Total[d][s]
    OBVIOUS
  <2>1. CASE i <= Len(l)
    BY <1>1, <1>3, <2>1
  <2>2. CASE i = Len(l) + 1
    BY <1>1, <2>2
  <2>. QED  BY <1>1, <2>1, <2>2
<1>. QED  BY <1>4, <1>5, <1>6 DEF a, t

(* Recording a sample keeps every ring a window of its series. *)
LEMMA RecordRepresents ==
  ASSUME NEW entry \in Entry, NEW l \in Seq(Snap),
         \A s \in Series : Represents(entry.rings[s], Totals(l, s))
  PROVE  /\ Record(entry) \in Entry
         /\ \A s \in Series :
              Represents(Record(entry).rings[s], Totals(Append(l, entry.latest), s))
<1> DEFINE new == [s \in Series |-> Push(entry.rings[s], Total[entry.latest][s])]
<1>1. entry.latest \in Snap /\ Record(entry) = [entry EXCEPT !.rings = new]
  BY DEF Entry, Record
<1>2. ASSUME NEW s \in Series
      PROVE  Represents(new[s], Totals(Append(l, entry.latest), s))
  <2>1. Total[entry.latest][s] \in Value
    BY <1>1, StoreAssumption
  <2>2. Represents(Push(entry.rings[s], Total[entry.latest][s]),
                   Append(Totals(l, s), Total[entry.latest][s]))
    BY <2>1, PushRepresents
  <2>. QED  BY <1>1, <2>2, TotalsAppend, Zenon
<1>3. new \in [Series -> Ring]
  BY <1>2 DEF Represents
<1>4. Record(entry).rings = new /\ Record(entry) \in Entry
  BY <1>1, <1>3, Zenon DEF Entry, Ring
<1>. QED  BY <1>2, <1>4

(* A new entry has empty rings, which represent an empty log. *)
LEMMA NewEntryRepresents ==
  /\ NewEntry \in Entry
  /\ \A s \in Series : Represents(NewEntry.rings[s], Totals(<<>>, s))
<1>1. NewRing \in Ring /\ Represents(NewRing, <<>>)
  BY NewRepresents DEF Represents
<1>2. \A s \in Series : Totals(<<>>, s) = <<>>
  BY DEF Totals
<1>3. NewEntry \in Entry
  BY <1>1, StoreAssumption DEF NewEntry, Entry, Ring
<1>. QED  BY <1>1, <1>2, <1>3 DEF NewEntry

(* Upsert changes one snapshot, and starts the rings of a VM it adds. *)
LEMMA UpsertIInv ==
  ASSUME IInv, NEW id \in IDs, NEW d \in Snap, Upsert(id, d)
  PROVE  IInv'
<1> DEFINE entry == IF id \in DOMAIN domains THEN domains[id] ELSE NewEntry
           ids == DOMAIN domains \cup {id}
<1>1. /\ domains' = [i \in ids |-> IF i = id THEN [entry EXCEPT !.latest = d] ELSE domains[i]]
      /\ log' = [i \in ids |-> IF i \in DOMAIN domains THEN log[i] ELSE <<>>]
      /\ host' = host /\ hostHist' = hostHist /\ hostLog' = hostLog
  BY DEF Upsert
<1>2. entry \in Entry
  BY NewEntryRepresents DEF IInv, TypeOK
<1>3. \A s \in Series : Represents(entry.rings[s], Totals(log'[id], s))
  BY <1>1, NewEntryRepresents DEF IInv, Kept
<1>4. [entry EXCEPT !.latest = d] \in Entry /\ [entry EXCEPT !.latest = d].rings = entry.rings
  BY <1>2, Zenon DEF Entry
<1>5. DOMAIN domains' = ids /\ domains'[id] \in Entry /\ domains'[id].rings = entry.rings
      /\ \A i \in DOMAIN domains \ {id} : domains'[i] = domains[i] /\ log'[i] = log[i]
  BY <1>1, <1>4, Zenon
<1>6. TypeOK'
  <2>1. domains' \in [DOMAIN domains' -> Entry] /\ DOMAIN domains' \subseteq IDs
    BY <1>1, <1>5 DEF IInv, TypeOK
  <2>2. log' \in [DOMAIN domains' -> Seq(Snap)]
    BY <1>1, <1>5 DEF IInv, TypeOK
  <2>. QED  BY <1>1, <2>1, <2>2, Zenon DEF IInv, TypeOK
<1> HIDE DEF entry, ids
<1>7. Kept'
  <2>1. ASSUME NEW i \in DOMAIN domains', NEW s \in Series
        PROVE  Represents(domains'[i].rings[s], Totals(log'[i], s))
    <3>1. CASE i = id
      BY <1>3, <1>5, <3>1
    <3>2. CASE i # id
      BY <1>5, <3>2 DEF IInv, Kept, ids
    <3>. QED  BY <3>1, <3>2
  <2>2. Represents(hostHist', hostLog')
    BY <1>1 DEF IInv, Kept
  <2>. QED  BY <2>1, <2>2 DEF Kept, Totals
<1>. QED  BY <1>6, <1>7 DEF IInv

(* Mutate changes one snapshot and no ring. *)
LEMMA MutateIInv ==
  ASSUME IInv, NEW id \in IDs, NEW d \in Snap, Mutate(id, d)
  PROVE  IInv'
<1>1. /\ id \in DOMAIN domains /\ domains' = [domains EXCEPT ![id].latest = d]
      /\ log' = log /\ host' = host /\ hostHist' = hostHist /\ hostLog' = hostLog
  BY DEF Mutate
<1>2. domains \in [DOMAIN domains -> Entry]
  BY DEF IInv, TypeOK
<1>3. DOMAIN domains' = DOMAIN domains
      /\ \A i \in DOMAIN domains : domains'[i] \in Entry /\ domains'[i].rings = domains[i].rings
  BY <1>1, <1>2 DEF Entry
<1>4. TypeOK'
  BY <1>1, <1>3, Zenon DEF IInv, TypeOK
<1>5. Kept'
  BY <1>1, <1>3 DEF IInv, Kept, Totals
<1>. QED  BY <1>4, <1>5 DEF IInv

(* Retain drops rings and logs together. *)
LEMMA RetainIInv ==
  ASSUME IInv, NEW keep \in SUBSET IDs, Retain(keep)
  PROVE  IInv'
<1> DEFINE ids == DOMAIN domains \cap keep
<1>1. /\ domains' = [i \in ids |-> domains[i]] /\ log' = [i \in ids |-> log[i]]
      /\ host' = host /\ hostHist' = hostHist /\ hostLog' = hostLog
  BY DEF Retain, Restrict
<1>2. TypeOK'
  BY <1>1 DEF IInv, TypeOK
<1>3. Kept'
  BY <1>1 DEF IInv, Kept, Totals
<1>. QED  BY <1>2, <1>3 DEF IInv

(* Commit records one sample of every VM and of the host. *)
LEMMA CommitIInv ==
  ASSUME IInv, Commit
  PROVE  IInv'
<1>1. /\ domains' = [i \in DOMAIN domains |-> Record(domains[i])]
      /\ log' = [i \in DOMAIN domains |-> Append(log[i], domains[i].latest)]
      /\ hostHist' = Push(hostHist, host) /\ hostLog' = Append(hostLog, host) /\ host' = host
  BY DEF Commit
<1>2. host \in HostStats /\ host \in Value /\ hostLog \in Seq(HostStats)
  BY StoreAssumption DEF IInv, TypeOK
<1>3. Represents(hostHist', hostLog')
  BY <1>1, <1>2, PushRepresents DEF IInv, Kept
<1>4. ASSUME NEW i \in DOMAIN domains
      PROVE  /\ domains'[i] \in Entry /\ log'[i] \in Seq(Snap)
             /\ \A s \in Series : Represents(domains'[i].rings[s], Totals(log'[i], s))
  <2>1. domains[i] \in Entry /\ log[i] \in Seq(Snap) /\ domains[i].latest \in Snap
    BY DEF IInv, TypeOK, Entry
  <2>2. \A s \in Series : Represents(domains[i].rings[s], Totals(log[i], s))
    BY DEF IInv, Kept
  <2>. QED  BY <1>1, <2>1, <2>2, RecordRepresents
<1>5. TypeOK'
  <2>1. hostHist' \in [buf : Seq(Value), pos : 0 .. Size - 1] /\ hostLog' \in Seq(HostStats)
    BY <1>1, <1>2, <1>3 DEF Represents, Ring
  <2>. QED  BY <1>1, <1>2, <1>4, <2>1 DEF IInv, TypeOK
<1>6. Kept'
  BY <1>1, <1>3, <1>4 DEF Kept, Totals
<1>. QED  BY <1>5, <1>6 DEF IInv

(* Every step keeps the inductive invariant. *)
LEMMA NextIInv == IInv /\ [Next]_vars => IInv'
<1> SUFFICES ASSUME IInv, [Next]_vars PROVE IInv'
  OBVIOUS
<1>1. ASSUME NEW id \in IDs, NEW d \in Snap, Upsert(id, d) PROVE IInv'
  BY <1>1, UpsertIInv
<1>2. ASSUME NEW id \in IDs, NEW d \in Snap, Mutate(id, d) PROVE IInv'
  BY <1>2, MutateIInv
<1>3. ASSUME NEW keep \in SUBSET IDs, Retain(keep) PROVE IInv'
  BY <1>3, RetainIInv
<1>4. CASE Commit
  BY <1>4, CommitIInv
<1>5. ASSUME NEW h \in HostStats, SetHost(h) PROVE IInv'
  BY <1>5 DEF SetHost, IInv, TypeOK, Kept, Totals
<1>6. CASE UNCHANGED vars
  BY <1>6 DEF vars, IInv, TypeOK, Kept, Totals
<1>. QED  BY <1>1, <1>2, <1>3, <1>4, <1>5, <1>6 DEF Next

(* The inductive invariant gives the properties. *)
LEMMA IInvExact == IInv => HistoryExact /\ HostHistoryExact
<1> SUFFICES ASSUME IInv PROVE HistoryExact /\ HostHistoryExact
  OBVIOUS
<1>1. ASSUME NEW id \in DOMAIN domains, NEW s \in Series
      PROVE  History(id)[s] = LastN(Totals(log[id], s))
  BY SliceExact DEF History, IInv, Kept
<1>2. HostHistoryExact
  BY SliceExact DEF HostHistoryExact, HostHistory, IInv, Kept
<1>. QED  BY <1>1, <1>2 DEF HistoryExact

(* Every reachable state of the store is well typed. *)
THEOREM StoreTypeCorrect == Spec => []TypeOK
<1>1. IInv => TypeOK
  BY DEF IInv
<1>. QED  BY InitIInv, NextIInv, <1>1, PTL DEF Spec

(* The history of a VM is the window of its last Size committed samples,   *)
(* for any number of VMs, series and commits.                              *)
THEOREM HistoryCorrect == Spec => []HistoryExact
<1>1. IInv => HistoryExact
  BY IInvExact
<1>. QED  BY InitIInv, NextIInv, <1>1, PTL DEF Spec

(* So is the history of the host. *)
THEOREM HostHistoryCorrect == Spec => []HostHistoryExact
<1>1. IInv => HostHistoryExact
  BY IInvExact
<1>. QED  BY InitIInv, NextIInv, <1>1, PTL DEF Spec
-----------------------------------------------------------------------------
(* Appending to a log shifts its window by one value. *)
LEMMA ShiftLastN ==
  ASSUME NEW l \in Seq(Value), NEW v \in Value
  PROVE  W!Shift(LastN(l), v) = LastN(Append(l, v))
<1> DEFINE n == Len(l)
           a == Append(l, v)
           w == LastN(l)
<1>1. Size \in Nat /\ Size > 0 /\ n \in Nat
  BY SizeAssumption
<1>2. a \in Seq(Value) /\ Len(a) = n + 1 /\ a[n + 1] = v /\ \A i \in 1 .. n : a[i] = l[i]
  OBVIOUS
<1>3. CASE n < Size
  <2>1. w = l /\ W!Shift(w, v) = a
    BY <1>3 DEF LastN, W!Shift
  <2>2. CASE n + 1 < Size
    BY <1>1, <1>2, <2>1, <2>2, Zenon DEF LastN
  <2>3. CASE n + 1 = Size
    <3> HIDE DEF a, w
    <3>1. LastN(a) = [i \in 1 .. Size |-> a[Len(a) - Size + i]] /\ Len(a) = Size
      BY <1>1, <1>2, <2>3 DEF LastN
    <3>2. \A i \in 1 .. Size : Len(a) - Size + i = i
      BY <1>1, <3>1
    <3>3. LastN(a) = [i \in 1 .. Size |-> a[i]]
      BY <3>1, <3>2
    <3>4. a = [i \in 1 .. Size |-> a[i]]
      BY <1>2, <3>1
    <3>. QED  BY <2>1, <3>3, <3>4, Zenon DEF a, w
  <2>. QED  BY <1>1, <1>3, <2>2, <2>3
<1>4. CASE n >= Size
  <2>1. ~(Len(l) < Size) /\ ~(Len(a) < Size)
    BY <1>1, <1>2, <1>4
  <2>2. w = [i \in 1 .. Size |-> l[Len(l) - Size + i]]
    BY <2>1 DEF LastN
  <2>3. LastN(a) = [i \in 1 .. Size |-> a[Len(a) - Size + i]]
    BY <2>1, Zenon DEF LastN
  <2> HIDE DEF w, a
  <2>4. \A i \in 1 .. Size : l[Len(l) - Size + i] \in Value
    BY <1>1, <1>4
  <2>5. w \in Seq(Value) /\ Len(w) = Size
    BY <1>1, <2>2, <2>4
  <2>6. W!Shift(w, v) = Append(Tail(w), v)
    BY <1>1, <2>5 DEF W!Shift
  <2>7. Append(Tail(w), v) \in Seq(Value) /\ Len(Append(Tail(w), v)) = Size
    BY <1>1, <2>5
  <2>8. ASSUME NEW i \in 1 .. Size PROVE Append(Tail(w), v)[i] = a[Len(a) - Size + i]
    <3>1. CASE i = Size
      <4>1. Append(Tail(w), v)[i] = v
        BY <1>1, <2>5, <3>1
      <4>2. Len(a) - Size + i = n + 1
        BY <1>1, <1>2, <3>1
      <4>. QED  BY <1>2, <4>1, <4>2, Zenon
    <3>2. CASE i < Size
      <4>1. Append(Tail(w), v)[i] = w[i + 1] /\ i + 1 \in 1 .. Size
        BY <1>1, <2>5, <3>2
      <4>2. w[i + 1] = l[Len(l) - Size + (i + 1)]
        BY <2>2, <4>1
      <4>3. Len(a) - Size + i = Len(l) - Size + (i + 1) /\ Len(l) - Size + (i + 1) \in 1 .. n
        <5>1. Len(l) = n /\ Len(a) = n + 1 /\ n \in Nat /\ Size \in Nat /\ i \in Nat
          BY <1>1, <1>2
        <5>. QED  BY <5>1, <1>4, <3>2
      <4>. QED  BY <1>2, <4>1, <4>2, <4>3, Zenon
    <3>3. i = Size \/ i < Size
      BY <1>1
    <3>. QED  BY <3>1, <3>2, <3>3, Zenon
  <2> DEFINE u == Append(Tail(w), v)
  <2>9. u = [i \in 1 .. Size |-> u[i]]
    <3>1. u \in Seq(Value) /\ Len(u) = Size
      BY <2>7
    <3> HIDE DEF u
    <3>. QED  BY <3>1
  <2>10. u = LastN(a)
    BY <2>3, <2>8, <2>9, Zenon
  <2>. QED  BY <2>6, <2>10 DEF w, a
<1>. QED  BY <1>1, <1>3, <1>4

(* Recording a value in a ring shifts what its readers see. *)
LEMMA PushShifts ==
  ASSUME NEW r, NEW l, Represents(r, l), NEW v \in Value
  PROVE  Slice(Push(r, v)) = W!Shift(Slice(r), v)
<1>1. l \in Seq(Value) /\ Slice(r) = LastN(l)
  BY SliceExact DEF Represents
<1>2. Slice(Push(r, v)) = LastN(Append(l, v))
  BY PushRepresents, SliceExact
<1>. QED  BY <1>1, <1>2, ShiftLastN

(* Commit advances every window, with the totals of the snapshots. *)
LEMMA CommitAdvances ==
  ASSUME IInv, Commit
  PROVE  W!Next
<1> DEFINE views == [id \in DOMAIN domains |-> History(id)]
           values == [id \in DOMAIN domains |-> Total[domains[id].latest]]
<1>1. /\ domains' = [i \in DOMAIN domains |-> Record(domains[i])]
      /\ hostHist' = Push(hostHist, host)
  BY DEF Commit
<1>2. host \in Value /\ domains \in [DOMAIN domains -> Entry]
  BY StoreAssumption DEF IInv, TypeOK
<1>3. HostHistory' = W!Shift(HostHistory, host)
  BY <1>1, <1>2, PushShifts DEF IInv, Kept, HostHistory
<1>4. ASSUME NEW id \in DOMAIN domains
      PROVE  /\ values[id] \in [Series -> Value]
             /\ History(id)' = [s \in Series |-> W!Shift(History(id)[s], values[id][s])]
  <2>1. domains[id] \in Entry /\ values[id] \in [Series -> Value]
    BY <1>2, StoreAssumption DEF Entry
  <2>2. domains'[id].rings = [s \in Series |-> Push(domains[id].rings[s], values[id][s])]
    BY <1>1, <2>1 DEF Record, Entry
  <2>3. ASSUME NEW s \in Series
        PROVE  Slice(domains'[id].rings[s]) = W!Shift(Slice(domains[id].rings[s]), values[id][s])
    BY <2>1, <2>2, PushShifts DEF IInv, Kept
  <2>. QED  BY <2>1, <2>3 DEF History
<1>5. values \in [DOMAIN views -> [Series -> Value]]
  BY <1>4
<1>6. views' = [id \in DOMAIN views |-> [s \in Series |-> W!Shift(views[id][s], values[id][s])]]
  BY <1>1, <1>4
<1>7. W!Advance(values, host)
  BY <1>3, <1>6 DEF W!Advance
<1>. QED  BY <1>2, <1>5, <1>7 DEF W!Next

(* Every step of the store is a step of the windows, or changes nothing    *)
(* that is shown.                                                          *)
LEMMA StepRefines == IInv /\ [Next]_vars => [W!Next]_(W!vars)
<1> SUFFICES ASSUME IInv, [Next]_vars PROVE W!Next \/ UNCHANGED W!vars
  OBVIOUS
<1>1. ASSUME NEW id \in IDs, NEW d \in Snap, Upsert(id, d) PROVE W!Next \/ UNCHANGED W!vars
  <2>1. hostHist' = hostHist /\ DOMAIN domains' = DOMAIN domains \cup {id}
        /\ \A i \in DOMAIN domains \ {id} : domains'[i] = domains[i]
    BY <1>1 DEF Upsert
  <2>2. CASE id \in DOMAIN domains
    <3>1. domains[id] \in Entry
      BY <2>2 DEF IInv, TypeOK
    <3>2. \A i \in DOMAIN domains : domains'[i].rings = domains[i].rings
      BY <1>1, <2>1, <2>2, <3>1 DEF Upsert, Entry
    <3>. QED  BY <2>1, <2>2, <3>2 DEF W!vars, History, HostHistory
  <2>3. CASE id \notin DOMAIN domains
    <3>1. domains'[id].rings = [s \in Series |-> NewRing]
      BY <1>1, <2>3 DEF Upsert, NewEntry
    <3>2. Slice(NewRing) = <<>>
      BY SizeAssumption DEF Slice, NewRing
    <3>3. W!List(id)
      BY <2>1, <2>3, <3>1, <3>2 DEF W!List, History, HostHistory
    <3>. QED  BY <3>3 DEF W!Next
  <2>. QED  BY <2>2, <2>3
<1>2. ASSUME NEW id \in IDs, NEW d \in Snap, Mutate(id, d) PROVE UNCHANGED W!vars
  <2>1. domains \in [DOMAIN domains -> Entry] /\ hostHist' = hostHist
        /\ domains' = [domains EXCEPT ![id].latest = d]
    BY <1>2 DEF Mutate, IInv, TypeOK
  <2>2. DOMAIN domains' = DOMAIN domains
        /\ \A i \in DOMAIN domains : domains'[i].rings = domains[i].rings
    BY <2>1 DEF Entry
  <2>. QED  BY <2>1, <2>2 DEF W!vars, History, HostHistory
<1>3. ASSUME NEW keep \in SUBSET IDs, Retain(keep) PROVE W!Next
  <2>1. domains' = [i \in DOMAIN domains \cap keep |-> domains[i]] /\ hostHist' = hostHist
    BY <1>3 DEF Retain, Restrict
  <2>2. DOMAIN domains \cap keep = DOMAIN domains \ (IDs \ keep)
    BY DEF IInv, TypeOK
  <2>3. W!Forget(IDs \ keep)
    BY <2>1, <2>2 DEF W!Forget, W!Restrict, Restrict, History, HostHistory
  <2>. QED  BY <2>3 DEF W!Next
<1>4. CASE Commit
  BY <1>4, CommitAdvances
<1>5. ASSUME NEW h \in HostStats, SetHost(h) PROVE UNCHANGED W!vars
  BY <1>5 DEF SetHost, W!vars, History, HostHistory
<1>6. CASE UNCHANGED vars
  BY <1>6 DEF vars, W!vars, History, HostHistory
<1>. QED  BY <1>1, <1>2, <1>3, <1>4, <1>5, <1>6 DEF Next

(* The store implements the windows it promises to its readers, for any    *)
(* sets of VMs, series and snapshots, any history length and any number of *)
(* commits.                                                                *)
THEOREM StoreImplementsWindows == Spec => Implements
<1>1. Init => W!Init
  <2> SUFFICES ASSUME Init PROVE W!Init
    OBVIOUS
  <2>1. DOMAIN domains = {} /\ HostHistory = <<>>
    BY SizeAssumption DEF Init, HostHistory, Slice, NewRing
  <2>. QED  BY <2>1 DEF W!Init
<1>. QED  BY InitIInv, NextIInv, StepRefines, <1>1, PTL DEF Spec, Implements, W!Spec
-----------------------------------------------------------------------------
(* The QMP poller. *)

Poll == [vm : Monitored, at : Stamp, st : {"running", "paused", "crashed", "shutdown", "pmsuspended"}]

(* A running poll has its answer after the one it will replace. *)
AnswerInv ==
  /\ qmpClock \in QmpTime /\ results \in [Monitored -> Answer] /\ polls \subseteq Poll
  /\ \A v \in Monitored : results[v].at <= qmpClock
  /\ \A p \in polls : p.at # None => results[p.vm].at <= p.at /\ p.at <= qmpClock

(* qmpState knows only the states of the dashboard. *)
LEMMA StateType ==
  ASSUME NEW s
  PROVE QmpState(s) \in {"running", "paused", "crashed", "shutdown", "pmsuspended"}
BY DEF QmpState

(* New polls, of VMs that have none, keep OnePoll. *)
LEMMA StartsOne ==
  ASSUME OnePoll, NEW start, start \cap polling = {},
         polling' = polling \cup start,
         polls' = polls \cup {NewPoll(v) : v \in start}
  PROVE OnePoll'
<1>1. \A p \in polls' : p \in polls \/ \E v \in start : p = NewPoll(v) /\ p.vm = v
  BY DEF NewPoll
<1>2. \A p \in polls : p.vm \notin start
  BY DEF OnePoll
<1>3. \A p, q \in polls' : p.vm = q.vm => p = q
  BY <1>1, <1>2 DEF OnePoll
<1>4. {p.vm : p \in polls'} = {p.vm : p \in polls} \cup start
  <2>1. \A v \in start : NewPoll(v) \in polls' /\ NewPoll(v).vm = v
    BY DEF NewPoll
  <2> QED BY <1>1, <2>1
<1> QED BY <1>3, <1>4 DEF OnePoll

(* A poll that ends takes its VM out of qc.polling. *)
LEMMA EndsOne ==
  ASSUME OnePoll, NEW p \in polls, polls' = polls \ {p}, polling' = polling \ {p.vm}
  PROVE OnePoll'
BY DEF OnePoll

(* Each step of a poll, of a tick or of the environment keeps OnePoll. *)
LEMMA NextOne ==
  ASSUME OnePoll, [QmpNext]_qmpVars
  PROVE OnePoll'
<1>1. CASE UNCHANGED <<polls, polling>>
  BY <1>1 DEF OnePoll
<1>2. ASSUME NEW p \in polls, PollAnswer(p) PROVE OnePoll'
  <2> DEFINE q == [vm |-> p.vm, at |-> qmpClock, st |-> QmpState(real[p.vm])]
  <2>1. polls' = (polls \ {p}) \cup {q} /\ polling' = polling /\ q.vm = p.vm
    BY <1>2 DEF PollAnswer
  <2> HIDE DEF q
  <2> QED BY <2>1 DEF OnePoll
<1>3. ASSUME NEW p \in polls, PollDone(p) \/ PollFail(p) PROVE OnePoll'
  BY <1>3, EndsOne DEF PollDone, PollFail
<1>4. CASE CollectFirst
  BY <1>4, StartsOne, Zenon DEF CollectFirst
<1>5. CASE CollectApply
  BY <1>5, StartsOne, Zenon DEF CollectApply
<1> QED
  BY <1>1, <1>2, <1>3, <1>4, <1>5
  DEF QmpNext, Tick, qmpVars, Appear, Vanish, RunStateChange, QmpPass, ScanUpsert, QmpCommit

(* One poll goroutine per VM: qc.polling is checked and set under qc.mu,   *)
(* so neither slow monitors nor VMs that leave and return make Collect     *)
(* start a second one, for any number of VMs.                              *)
THEOREM OnePollAlways == QmpSpec => []OnePoll
<1>1. QmpInit => OnePoll
  BY DEF QmpInit, OnePoll
<1> QED BY <1>1, NextOne, PTL DEF QmpSpec
-----------------------------------------------------------------------------
(* Polls that have no answer yet do not matter to AnswerInv. *)
LEMMA StartsAnswer ==
  ASSUME AnswerInv, QmpAssumption, NEW start \in SUBSET Monitored, qmpClock' = qmpClock,
         polls' = polls \cup {NewPoll(v) : v \in start},
         NEW gone, results' = [v \in Monitored |-> IF v \in gone THEN NoAnswer ELSE results[v]]
  PROVE AnswerInv'
<1> USE DEF None, Stamp, QmpTime, QmpAssumption
<1>1. \A v \in start : NewPoll(v) \in Poll /\ NewPoll(v).at = None
  BY DEF NewPoll, Poll
<1>2. NoAnswer \in Answer /\ NoAnswer.at = None
  BY DEF NoAnswer, Answer
<1>3. \A v \in Monitored : results[v] \in Answer /\ results[v].at \in Stamp
  BY DEF AnswerInv, Answer
<1>4. results' \in [Monitored -> Answer]
  BY <1>2, <1>3
<1>5. \A v \in Monitored : results'[v].at <= results[v].at
  BY <1>2, <1>3
<1>6. \A v \in Monitored : results'[v].at \in Stamp
  BY <1>4 DEF Answer
<1>7. polls' \subseteq Poll
  BY <1>1 DEF AnswerInv
<1>8. \A v \in Monitored : results'[v].at <= qmpClock
  BY <1>3, <1>5, <1>6 DEF AnswerInv
<1>9. \A p \in polls : p.vm \in Monitored /\ p.at \in Stamp
  BY DEF AnswerInv, Poll
<1>10. \A p \in polls : p.at # None => results'[p.vm].at <= p.at /\ p.at <= qmpClock
  BY <1>3, <1>5, <1>6, <1>9 DEF AnswerInv
<1>11. \A p \in polls' : p.at # None => p \in polls
  BY <1>1
<1> QED BY <1>4, <1>7, <1>8, <1>10, <1>11 DEF AnswerInv

(* query dates its answer now, after every result that is stored. *)
LEMMA PollAnswerInv ==
  ASSUME AnswerInv, QmpAssumption, NEW p \in polls, PollAnswer(p)
  PROVE AnswerInv'
<1> DEFINE q == [vm |-> p.vm, at |-> qmpClock, st |-> QmpState(real[p.vm])]
<1>1. q \in Poll /\ q.at = qmpClock /\ q.vm = p.vm /\ p.vm \in Monitored
  BY StateType DEF AnswerInv, Poll, Stamp
<1>2. polls' = (polls \ {p}) \cup {q} /\ UNCHANGED <<qmpClock, results>>
  BY DEF PollAnswer
<1> HIDE DEF q
<1>3. qmpClock <= qmpClock
  BY DEF AnswerInv, QmpTime, QmpAssumption
<1> QED BY <1>1, <1>2, <1>3 DEF AnswerInv

(* poll stores an answer that is later than the one it replaces. *)
LEMMA PollDoneInv ==
  ASSUME AnswerInv, OnePoll, QmpAssumption, NEW p \in polls, PollDone(p)
  PROVE AnswerInv' /\ results[p.vm].at <= p.at
<1> DEFINE a == [at |-> p.at, st |-> p.st]
<1>1. p \in Poll /\ p.at # None
  BY DEF AnswerInv, PollDone
<1>2. a \in Answer /\ a.at = p.at /\ p.vm \in Monitored
  BY <1>1 DEF Answer, Poll
<1>3. results[p.vm].at <= p.at /\ p.at <= qmpClock
  BY <1>1 DEF AnswerInv
<1>4. polls' = polls \ {p} /\ qmpClock' = qmpClock /\ results' = [results EXCEPT ![p.vm] = a]
  BY DEF PollDone
<1> HIDE DEF a
<1>5. \A q \in polls' : q \in polls /\ q.vm # p.vm
  BY <1>4 DEF OnePoll
<1>6. results' \in [Monitored -> Answer]
  BY <1>2, <1>4 DEF AnswerInv
<1>7. \A v \in Monitored : results'[v] = IF v = p.vm THEN a ELSE results[v]
  BY <1>2, <1>4 DEF AnswerInv
<1>8. \A v \in Monitored : results'[v].at <= qmpClock
  BY <1>2, <1>3, <1>7 DEF AnswerInv
<1>9. \A q \in polls' : q.vm \in Monitored /\ results'[q.vm] = results[q.vm]
  BY <1>5, <1>7 DEF AnswerInv, Poll
<1> QED BY <1>3, <1>4, <1>5, <1>6, <1>8, <1>9 DEF AnswerInv

(* Collect works on VMs that the index lists. *)
TickInv ==
  /\ present \subseteq Monitored
  /\ qmpTick \in [phase : {"idle", "collect", "wait", "commit"}, now : QmpTime,
               targets : SUBSET Monitored, first : SUBSET Monitored]

(* No step makes Collect work on anything else. *)
LEMMA NextTick ==
  ASSUME TickInv, AnswerInv, [QmpNext]_qmpVars
  PROVE TickInv'
<1>1. CASE UNCHANGED <<present, qmpTick>>
  BY <1>1 DEF TickInv
<1>2. ASSUME NEW v \in Monitored, Appear(v) \/ Vanish(v) PROVE TickInv'
  BY <1>2 DEF TickInv, Appear, Vanish
<1>3. CASE ScanUpsert
  BY <1>3, Zenon DEF TickInv, ScanUpsert
<1>4. CASE CollectFirst
  BY <1>4, Zenon DEF TickInv, AnswerInv, CollectFirst
<1>5. CASE CollectApply \/ QmpCommit
  BY <1>5, Zenon DEF TickInv, CollectApply, QmpCommit
<1> QED
  BY <1>1, <1>2, <1>3, <1>4, <1>5, Zenon
  DEF QmpNext, Tick, qmpVars, RunStateChange, QmpPass, PollAnswer, PollDone, PollFail

(* Every step keeps AnswerInv, and what it does to a result is to forget   *)
(* it or to replace it by a later one.                                     *)
LEMMA NextAnswer ==
  ASSUME QmpAssumption, OnePoll, AnswerInv, TickInv, [QmpNext]_qmpVars
  PROVE /\ AnswerInv'
        /\ \A v \in Monitored : results'[v] # results[v] =>
             results'[v].at = None \/ results'[v].at >= results[v].at
<1> DEFINE Later == \A v \in Monitored : results'[v] # results[v] =>
                     results'[v].at = None \/ results'[v].at >= results[v].at
<1>1. CASE UNCHANGED <<qmpClock, results, polls>>
  BY <1>1 DEF AnswerInv
<1>2. CASE QmpPass
  <2>1. qmpClock' = qmpClock + 1 /\ qmpClock' \in QmpTime /\ UNCHANGED <<results, polls>>
    BY <1>2 DEF QmpPass, QmpTime, AnswerInv, QmpAssumption
  <2>2. \A v \in Monitored : results[v].at \in Int
    BY DEF AnswerInv, Answer, Stamp, QmpTime, None, QmpAssumption
  <2>3. \A p \in polls : p.at \in Int
    BY DEF AnswerInv, Poll, Stamp, QmpTime, None, QmpAssumption
  <2>4. \A x \in Int : x <= qmpClock => x <= qmpClock + 1
    BY DEF AnswerInv, QmpTime, QmpAssumption
  <2> QED BY <2>1, <2>2, <2>3, <2>4 DEF AnswerInv
<1>3. ASSUME NEW p \in polls, PollAnswer(p) PROVE AnswerInv' /\ Later
  BY <1>3, PollAnswerInv DEF PollAnswer
<1>4. ASSUME NEW p \in polls, PollDone(p) PROVE AnswerInv' /\ Later
  <2>1. AnswerInv' /\ results[p.vm].at <= p.at
    BY <1>4, PollDoneInv
  <2>2. p.vm \in Monitored /\ p.at \in Int /\ results[p.vm].at \in Int
    BY DEF AnswerInv, Answer, Poll, Stamp, QmpTime, None, QmpAssumption
  <2>3. \A v \in Monitored : results'[v] = IF v = p.vm THEN [at |-> p.at, st |-> p.st] ELSE results[v]
    BY <1>4 DEF PollDone, AnswerInv
  <2> QED BY <2>1, <2>2, <2>3
<1>5. ASSUME NEW p \in polls, PollFail(p) PROVE AnswerInv' /\ Later
  BY <1>5 DEF PollFail, AnswerInv
<1>6. CASE CollectFirst
  <2> DEFINE none == {}
  <2>1. results' = [v \in Monitored |-> IF v \in none THEN NoAnswer ELSE results[v]]
    BY <1>6 DEF CollectFirst, AnswerInv
  <2> DEFINE first == qmpTick.targets \ (tried \cup polling)
  <2>2. first \in SUBSET Monitored
    BY DEF TickInv
  <2>3. polls' = polls \cup {NewPoll(v) : v \in first} /\ qmpClock' = qmpClock /\ results' = results
    BY <1>6 DEF CollectFirst
  <2> HIDE DEF first, none
  <2>4. AnswerInv'
    BY <2>1, <2>2, <2>3, StartsAnswer
  <2> QED BY <2>3, <2>4
<1>7. CASE CollectApply
  <2> DEFINE start == {v \in qmpTick.targets : Due(v) /\ v \notin polling}
             gone == {v \in tried : v \notin qmpTick.targets /\ v \notin polling}
  <2>1. start \in SUBSET Monitored
    BY DEF TickInv
  <2>2. polls' = polls \cup {NewPoll(v) : v \in start} /\ qmpClock' = qmpClock
        /\ results' = [v \in Monitored |-> IF v \in gone THEN NoAnswer ELSE results[v]]
    BY <1>7 DEF CollectApply
  <2> HIDE DEF start, gone
  <2>3. AnswerInv'
    BY <2>1, <2>2, StartsAnswer
  <2>4. Later
    BY <2>2 DEF NoAnswer
  <2> QED BY <2>3, <2>4
<1> QED
  BY <1>1, <1>2, <1>3, <1>4, <1>5, <1>6, <1>7
  DEF QmpNext, Tick, qmpVars, Appear, Vanish, RunStateChange, ScanUpsert, QmpCommit

(* An answer on its way is later than the last time its VM was forgotten,  *)
(* because Collect forgets no VM that is being polled.                     *)
ForgotInv ==
  /\ forgot \in [Monitored -> Stamp] /\ \A v \in Monitored : forgot[v] <= qmpClock
  /\ \A p \in polls : p.at # None => forgot[p.vm] <= p.at

(* Every step keeps ForgotInv, and stores no result from before its VM was *)
(* forgotten.                                                              *)
LEMMA NextForgot ==
  ASSUME QmpAssumption, OnePoll, AnswerInv, ForgotInv, [QmpNext]_qmpVars
  PROVE /\ ForgotInv'
        /\ \A v \in Monitored : results'[v] # results[v] =>
             results'[v].at = None \/ results'[v].at >= forgot[v]
<1> DEFINE Since == \A v \in Monitored : results'[v] # results[v] =>
                     results'[v].at = None \/ results'[v].at >= forgot[v]
<1>t. /\ qmpClock \in Int /\ qmpClock \in Stamp
      /\ \A v \in Monitored : forgot[v] \in Int /\ forgot[v] <= qmpClock
      /\ \A p \in polls : p.vm \in Monitored /\ p.at \in Int
  BY DEF AnswerInv, ForgotInv, Poll, Stamp, QmpTime, None, QmpAssumption
<1>1. CASE UNCHANGED <<qmpClock, results, polls, forgot>>
  BY <1>1 DEF ForgotInv
<1>2. CASE QmpPass
  <2>1. qmpClock' = qmpClock + 1 /\ UNCHANGED <<results, polls, forgot>>
    BY <1>2 DEF QmpPass
  <2> QED BY <1>t, <2>1 DEF ForgotInv
<1>3. ASSUME NEW p \in polls, PollAnswer(p) PROVE ForgotInv' /\ Since
  <2> DEFINE q == [vm |-> p.vm, at |-> qmpClock, st |-> QmpState(real[p.vm])]
  <2>1. polls' = (polls \ {p}) \cup {q} /\ q.at = qmpClock /\ q.vm = p.vm
        /\ UNCHANGED <<qmpClock, results, forgot>>
    BY <1>3 DEF PollAnswer
  <2> HIDE DEF q
  <2> QED BY <1>t, <2>1 DEF ForgotInv
<1>4. ASSUME NEW p \in polls, PollDone(p) PROVE ForgotInv' /\ Since
  <2>1. polls' = polls \ {p} /\ UNCHANGED <<qmpClock, forgot>> /\ p.at # None
    BY <1>4 DEF PollDone
  <2>2. \A v \in Monitored : results'[v] = IF v = p.vm THEN [at |-> p.at, st |-> p.st] ELSE results[v]
    BY <1>4 DEF PollDone, AnswerInv
  <2>3. forgot[p.vm] <= p.at
    BY <2>1 DEF ForgotInv
  <2> QED BY <1>t, <2>1, <2>2, <2>3 DEF ForgotInv
<1>5. ASSUME NEW p \in polls, PollFail(p) PROVE ForgotInv' /\ Since
  BY <1>5 DEF PollFail, ForgotInv
<1>6. CASE CollectFirst
  <2>1. /\ UNCHANGED <<qmpClock, results, forgot>>
        /\ \A p \in polls' : p.at # None => p \in polls
    BY <1>6 DEF CollectFirst, NewPoll
  <2> QED BY <2>1 DEF ForgotInv
<1>7. CASE CollectApply
  <2> DEFINE gone == {v \in tried : v \notin qmpTick.targets /\ v \notin polling}
  <2>1. /\ qmpClock' = qmpClock
        /\ results' = [v \in Monitored |-> IF v \in gone THEN NoAnswer ELSE results[v]]
        /\ forgot' = [v \in Monitored |-> IF v \in gone THEN qmpClock ELSE forgot[v]]
    BY <1>7 DEF CollectApply
  <2>2. \A p \in polls' : p.at # None => p \in polls
    BY <1>7 DEF CollectApply, NewPoll
  <2>3. \A p \in polls : p.vm \notin gone
    BY DEF OnePoll
  <2> HIDE DEF gone
  <2>4. Since
    BY <2>1 DEF NoAnswer
  <2>5. forgot' \in [Monitored -> Stamp] /\ \A v \in Monitored : forgot'[v] <= qmpClock'
    BY <1>t, <2>1 DEF ForgotInv
  <2>6. \A p \in polls' : p.at # None => forgot'[p.vm] <= p.at
    BY <1>t, <2>1, <2>2, <2>3 DEF ForgotInv
  <2> QED BY <2>4, <2>5, <2>6 DEF ForgotInv
<1> QED
  BY <1>1, <1>2, <1>3, <1>4, <1>5, <1>6, <1>7
  DEF QmpNext, Tick, qmpVars, Appear, Vanish, RunStateChange, ScanUpsert, QmpCommit

(* A result that Collect shows is only ever replaced by a later answer of  *)
(* the same VM, and a VM that was forgotten gets none from before that:    *)
(* goroutines that end out of order, timeouts and VMs that are forgotten   *)
(* and return bring no older answer back.                                  *)
THEOREM AnswersNeverRegress == QmpSpec => AnswersAdvance
<1> DEFINE QmpInv == OnePoll /\ AnswerInv /\ TickInv /\ ForgotInv
           Later == \A v \in Monitored : results'[v] # results[v] =>
             \/ results'[v].at = None
             \/ results'[v].at >= results[v].at /\ results'[v].at >= forgot[v]
<1>1. QmpInit => QmpInv
  <2> SUFFICES ASSUME QmpInit PROVE QmpInv
    OBVIOUS
  <2>1. NoAnswer \in Answer /\ NoAnswer.at = None
    BY DEF NoAnswer, Answer, Stamp
  <2>2. None <= 0 /\ 0 \in QmpTime
    BY QmpAssumption DEF None, QmpTime
  <2> QED BY <2>1, <2>2 DEF QmpInit, OnePoll, AnswerInv, TickInv, ForgotInv, Stamp
<1>2. QmpInv /\ [QmpNext]_qmpVars => QmpInv' /\ Later
  BY NextOne, NextAnswer, NextTick, NextForgot, QmpAssumption
<1>3. QmpInv /\ [QmpNext]_qmpVars => QmpInv' /\ [Later]_qmpVars
  BY <1>2
<1> QED BY <1>1, <1>3, PTL DEF QmpSpec, AnswersAdvance
-----------------------------------------------------------------------------
(* The threads of vCPUs. *)

(* Ordered(S) lists elements of S. *)
LEMMA OrderedType == ASSUME NEW S PROVE \A p \in DOMAIN Ordered(S) : Ordered(S)[p] \in S
<1> SUFFICES ASSUME NEW p \in DOMAIN Ordered(S) PROVE Ordered(S)[p] \in S
  OBVIOUS
<1>1. \E i \in S : Rank(S, i) = p
  BY DEF Ordered
<1>2. Ordered(S)[p] = CHOOSE i \in S : Rank(S, i) = p
  BY DEF Ordered
<1> QED  BY <1>1, <1>2
-----------------------------------------------------------------------------
(* The inductive invariant.  A cached thread is still the one of its vCPU, *)
(* or was so after the list was read; a thread in the store is or was the  *)
(* one of its vCPU; a latency next to another thread is of one that moved; *)
(* and the PID in the store is that of the run it is about.                *)
VmInv ==
  /\ thrClock \in Nat /\ changes \in Nat /\ run \in Nat /\ run <= changes /\ hist \subseteq Tids
  /\ vm = [pid |-> vm.pid, run |-> vm.run, tids |-> vm.tids]
  /\ vm.pid \in Pids \cup {0} /\ vm.run \in Nat /\ vm.run <= changes
  /\ DOMAIN vm.tids \subseteq Indexes /\ \A i \in DOMAIN vm.tids : vm.tids[i] \in Tids
  /\ until \in [Pids \X Indexes \X Tids -> Int]
  /\ vm.pid # 0 /\ run = vm.run => pid = vm.pid

Holds(p, i, t) == vm.pid = p /\ i \in DOMAIN vm.tids /\ vm.tids[i] = t

ListOK(p, l) ==
  /\ p \in Pids /\ l.fetched \in Nat /\ l.fetched <= thrClock
  /\ DOMAIN l.tids \subseteq Indexes /\ \A i \in DOMAIN l.tids :
       l.tids[i] \in Tids /\ (Holds(p, i, l.tids[i]) \/ until[<<p, i, l.tids[i]>>] >= l.fetched)

ListInv == \A p \in DOMAIN threads : ListOK(p, threads[p])

Vcpu == [index : Indexes, tid : Tids \cup {0}, lat : Tids \cup {0}]

OwnOK(p, v) ==
  /\ v.tid # 0 => Had(p, v.index, v.tid)
  /\ v.lat \in {0, v.tid} \/ Moved(p, v.lat)

VcpuInv == \A i \in DOMAIN vcpus :
  pid \in Pids /\ vcpus[i] \in Vcpu /\ (source = "scan" => OwnOK(pid, vcpus[i]))

ThreadsInv == VmInv /\ ListInv /\ VcpuInv

(* What a thread was, it has been; so what was kept of one stays right.    *)
LEMMA OwnKept ==
  ASSUME VcpuInv, UNCHANGED <<pid, vcpus, source>>,
         \A p \in Pids, i \in Indexes, t \in Tids : Had(p, i, t) => Had(p, i, t)'
  PROVE  VcpuInv'
<1>1. SUFFICES ASSUME NEW i \in DOMAIN vcpus, source = "scan" PROVE OwnOK(pid, vcpus[i])'
  BY DEF VcpuInv, Vcpu
<1>2. /\ pid \in Pids /\ vcpus[i].tid \in Tids \cup {0} /\ vcpus[i].lat \in Tids \cup {0}
      /\ vcpus[i].index \in Indexes /\ OwnOK(pid, vcpus[i])
  BY <1>1 DEF VcpuInv, Vcpu
<1>3. ASSUME NEW t \in Tids, Moved(pid, t) PROVE Moved(pid, t)'
  BY <1>2, <1>3 DEF Moved
<1>4. (vcpus[i].tid # 0 => Had(pid, vcpus[i].index, vcpus[i].tid))'
  BY <1>2 DEF OwnOK
<1>5. (vcpus[i].lat \in {0, vcpus[i].tid} \/ Moved(pid, vcpus[i].lat))'
  BY <1>2, <1>3 DEF OwnOK
<1> QED  BY <1>4, <1>5 DEF OwnOK

(* The VM changes. *)
LEMMA BecomesKeeps ==
  ASSUME ThreadsInv, NEW v, Becomes(v), v = [pid |-> v.pid, run |-> v.run, tids |-> v.tids],
         v.pid \in Pids \cup {0}, v.run \in Nat, v.run <= changes + 1,
         DOMAIN v.tids \subseteq Indexes, \A i \in DOMAIN v.tids : v.tids[i] \in Tids,
         v.pid # 0 /\ run = v.run => pid = v.pid
  PROVE  ThreadsInv'
<1>1. /\ thrClock \in Nat /\ changes \in Nat /\ run \in Nat /\ run <= changes
      /\ until \in [Pids \X Indexes \X Tids -> Int]
  BY DEF ThreadsInv, VmInv
<1>2. /\ vm' = v /\ changes' = changes + 1 /\ hist' = hist \cap Threads(v)
      /\ UNCHANGED <<thrClock, source, pid, run, vcpus, threads>>
  BY DEF Becomes
<1>3. \A p \in Pids, i \in Indexes, t \in Tids :
        until'[<<p, i, t>>] = IF Holds(p, i, t) THEN thrClock ELSE until[<<p, i, t>>]
  BY <1>1 DEF Becomes, Holds
<1>4. until' \in [Pids \X Indexes \X Tids -> Int]
  BY <1>1 DEF Becomes
<1>5. VmInv'
  BY <1>1, <1>2, <1>4 DEF ThreadsInv, VmInv, Threads
<1>6. ListInv'
  <2> SUFFICES ASSUME NEW p \in DOMAIN threads PROVE ListOK(p, threads[p])'
    BY <1>2 DEF ListInv
  <2>1. ListOK(p, threads[p])
    BY DEF ThreadsInv, ListInv
  <2>2. ASSUME NEW i \in DOMAIN threads[p].tids
        PROVE  until'[<<p, i, threads[p].tids[i]>>] >= threads[p].fetched
    <3>1. /\ p \in Pids /\ i \in Indexes /\ threads[p].tids[i] \in Tids
          /\ threads[p].fetched \in Nat /\ threads[p].fetched <= thrClock
          /\ \/ Holds(p, i, threads[p].tids[i])
             \/ until[<<p, i, threads[p].tids[i]>>] >= threads[p].fetched
      BY <2>1, <2>2 DEF ListOK
    <3> QED  BY <1>1, <1>3, <3>1
  <2> QED  BY <1>2, <2>1, <2>2 DEF ListOK
<1>7. ASSUME NEW p \in Pids, NEW i \in Indexes, NEW t \in Tids, Had(p, i, t) PROVE Had(p, i, t)'
  BY <1>1, <1>3, <1>7 DEF Had, Holds
<1>8. VcpuInv'
  BY <1>2, <1>7, OwnKept DEF ThreadsInv
<1> QED  BY <1>5, <1>6, <1>8 DEF ThreadsInv

(* Time passes, or nothing happens to the VM. *)
Elapses ==
  /\ thrClock' \in Nat /\ thrClock' >= thrClock
  /\ UNCHANGED <<source, vm, changes, hist, step, now, pid, run, vcpus, threads, until>>

(* The host: starts, stops, plugged vCPUs, time and measurements. *)
LEMMA HostKeeps ==
  ASSUME ThreadsAssumption, ThreadsInv,
         Elapses \/ ThrPass \/ VmStart \/ VmStop \/ Hotplug \/ Unplug \/ Measure
  PROVE  ThreadsInv'
<1>1. /\ thrClock \in Nat /\ changes \in Nat /\ run \in Nat /\ run <= changes
      /\ vm = [pid |-> vm.pid, run |-> vm.run, tids |-> vm.tids]
      /\ vm.pid \in Pids \cup {0} /\ vm.run \in Nat /\ vm.run <= changes
      /\ DOMAIN vm.tids \subseteq Indexes /\ \A i \in DOMAIN vm.tids : vm.tids[i] \in Tids
      /\ vm.pid # 0 /\ run = vm.run => pid = vm.pid
  BY DEF ThreadsInv, VmInv
<1>2. CASE Elapses \/ ThrPass \/ Measure
  <2>1. /\ UNCHANGED <<source, vm, changes, pid, run, vcpus, threads, until>>
        /\ thrClock' \in Nat /\ thrClock' >= thrClock /\ hist' \subseteq Tids
    BY <1>1, <1>2 DEF Elapses, ThrPass, Measure, Threads, ThreadsInv, VmInv
  <2>2. VmInv'
    BY <2>1 DEF ThreadsInv, VmInv
  <2>3. ListInv'
    BY <1>1, <2>1 DEF ThreadsInv, ListInv, ListOK, Holds
  <2>4. VcpuInv'
    BY <2>1, OwnKept DEF ThreadsInv, Had
  <2> QED  BY <2>2, <2>3, <2>4 DEF ThreadsInv
<1>3. CASE VmStart
  <2>1. PICK p \in Pids, n \in 1 .. Cardinality(Indexes), t \in [Indexes -> Tids] :
          Becomes([pid |-> p, run |-> changes + 1, tids |-> [i \in 0 .. n - 1 |-> t[i]]])
    BY <1>3 DEF VmStart
  <2>2. 0 .. n - 1 \subseteq Indexes
    <3>1. Indexes = 0 .. Cardinality(Indexes) - 1 /\ Cardinality(Indexes) \in Nat
      BY DEF ThreadsAssumption
    <3> QED  BY <3>1
  <2> DEFINE f == [i \in 0 .. n - 1 |-> t[i]]
             v == [pid |-> p, run |-> changes + 1, tids |-> f]
  <2>3. DOMAIN f \subseteq Indexes /\ \A i \in DOMAIN f : f[i] \in Tids
    BY <2>2
  <2> HIDE DEF f
  <2>4. /\ v = [pid |-> v.pid, run |-> v.run, tids |-> v.tids] /\ v.pid \in Pids \cup {0}
        /\ v.run \in Nat /\ v.run <= changes + 1 /\ v.run # run /\ v.tids = f
    BY <1>1
  <2>5. Becomes(v)
    BY <2>1 DEF f
  <2> HIDE DEF v
  <2> QED  BY <2>3, <2>4, <2>5, BecomesKeeps
<1>4. CASE VmStop
  <2>1. Becomes(Off)
    BY <1>4 DEF VmStop
  <2>2. /\ Off = [pid |-> Off.pid, run |-> Off.run, tids |-> Off.tids] /\ Off.pid = 0
        /\ Off.run = 0 /\ Off.tids = <<>>
    BY DEF Off
  <2> QED  BY <1>1, <2>1, <2>2, BecomesKeeps
<1>5. CASE Hotplug
  <2>1. PICK i \in Indexes \ DOMAIN vm.tids, t \in Tids \ Threads(vm) :
          Becomes([vm EXCEPT !.tids = [j \in DOMAIN @ \cup {i} |-> IF j = i THEN t ELSE @[j]]])
    BY <1>5 DEF Hotplug
  <2> DEFINE f == [j \in DOMAIN vm.tids \cup {i} |-> IF j = i THEN t ELSE vm.tids[j]]
             v == [vm EXCEPT !.tids = f]
  <2>2. DOMAIN f \subseteq Indexes /\ \A j \in DOMAIN f : f[j] \in Tids
    BY <1>1
  <2>3. Becomes(v)
    BY <2>1
  <2> HIDE DEF f
  <2>4. v = [pid |-> vm.pid, run |-> vm.run, tids |-> f]
    BY <1>1
  <2> HIDE DEF v
  <2> QED  BY <1>1, <2>2, <2>3, <2>4, BecomesKeeps
<1>6. CASE Unplug
  <2>1. PICK i \in DOMAIN vm.tids :
          Becomes([vm EXCEPT !.tids = [j \in DOMAIN @ \ {i} |-> @[j]]])
    BY <1>6 DEF Unplug
  <2> DEFINE f == [j \in DOMAIN vm.tids \ {i} |-> vm.tids[j]]
             v == [vm EXCEPT !.tids = f]
  <2>2. DOMAIN f \subseteq Indexes /\ \A j \in DOMAIN f : f[j] \in Tids
    BY <1>1
  <2>3. Becomes(v)
    BY <2>1
  <2> HIDE DEF f
  <2>4. v = [pid |-> vm.pid, run |-> vm.run, tids |-> f]
    BY <1>1
  <2> HIDE DEF v
  <2> QED  BY <1>1, <2>2, <2>3, <2>4, BecomesKeeps
<1> QED  BY <1>2, <1>3, <1>4, <1>5, <1>6

(* The collectors change nothing of the VM. *)
LEMMA VmKept ==
  ASSUME ThreadsInv, UNCHANGED env, UNCHANGED <<pid, run>> \/ (pid' = vm.pid /\ run' = vm.run)
  PROVE  VmInv'
BY DEF ThreadsInv, VmInv, env

LEMMA ListKept ==
  ASSUME UNCHANGED env, NEW p, NEW l, ListOK(p, l)
  PROVE  ListOK(p, l)'
BY DEF ListOK, Holds, env

(* Discover. *)
LEMMA DiscoverKeeps ==
  ASSUME ThreadsAssumption, ThreadsInv, Discover
  PROVE  ThreadsInv'
<1>1. /\ UNCHANGED env /\ threads' = threads /\ pid' = vm.pid /\ run' = vm.run
      /\ source' = source /\ vm' = vm /\ until' = until
  BY DEF Discover, env
<1>2. VmInv'
  BY <1>1, VmKept
<1>3. ListInv'
  BY <1>1, ListKept DEF ThreadsInv, ListInv
<1>4. /\ vm.pid \in Pids \cup {0} /\ DOMAIN vm.tids \in SUBSET Indexes
      /\ vm.pid # 0 /\ run = vm.run => pid = vm.pid
  BY DEF ThreadsInv, VmInv
<1>5. VcpuInv'
  <2>1. CASE vm.pid = 0
    <3>1. vcpus' = <<>>
      BY <2>1 DEF Discover
    <3> QED  BY <3>1 DEF VcpuInv
  <2>2. CASE vm.pid # 0 /\ source = "libvirt"
    <3> DEFINE own == Ordered(DOMAIN vm.tids)
    <3>1. vcpus' = MergeLibvirt(own, vcpus)
      BY <2>2 DEF Discover
    <3>2. \A i \in DOMAIN own : own[i] \in Indexes
      BY <1>4, OrderedType
    <3> HIDE DEF own
    <3>3. ASSUME NEW i \in DOMAIN own PROVE MergeLibvirt(own, vcpus)[i] \in Vcpu
      <4>1. CASE i \in DOMAIN vcpus
        <5>1. vcpus[i] \in Vcpu
          BY <4>1 DEF ThreadsInv, VcpuInv
        <5>2. [vcpus[i] EXCEPT !.index = own[i]] \in Vcpu
          BY <3>2, <5>1 DEF Vcpu
        <5> QED  BY <4>1, <5>2 DEF MergeLibvirt
      <4>2. CASE i \notin DOMAIN vcpus
        BY <3>2, <4>2 DEF MergeLibvirt, Vcpu
      <4> QED  BY <4>1, <4>2
    <3>4. DOMAIN vcpus' = DOMAIN own
      BY <3>1 DEF MergeLibvirt
    <3>5. pid' \in Pids /\ source' # "scan" /\ \A i \in DOMAIN vcpus' : vcpus'[i] \in Vcpu
      BY <1>1, <1>4, <2>2, <3>1, <3>3, <3>4
    <3> QED  BY <3>5 DEF VcpuInv, Vcpu
  <2>3. CASE vm.pid # 0 /\ source # "libvirt" /\ vm.run = run
    <3>1. vcpus' = vcpus /\ pid' = pid
      BY <1>1, <1>4, <2>3 DEF Discover
    <3> QED  BY <1>1, <3>1, OwnKept DEF ThreadsInv, Had
  <2>4. CASE vm.pid # 0 /\ source # "libvirt" /\ vm.run # run
    <3>1. vcpus' = <<>>
      BY <2>4 DEF Discover
    <3> QED  BY <3>1 DEF VcpuInv
  <2> QED  BY <2>1, <2>2, <2>3, <2>4
<1> QED  BY <1>2, <1>3, <1>5 DEF ThreadsInv

(* A list that is read or cached. *)
LEMMA ListFound ==
  ASSUME ThreadsAssumption, ThreadsInv, Live, NEW ok \in BOOLEAN
  PROVE  /\ ListOK(pid, VcpuThreads(ok))
         /\ \A i \in DOMAIN VcpuThreads(ok).tids : LET t == VcpuThreads(ok).tids[i] IN
              Holds(pid, i, t) \/ thrClock - until[<<pid, i, t>>] < ThreadRefresh
<1>1. /\ thrClock \in Nat /\ pid \in Pids /\ vm.pid = pid /\ ThreadRefresh \in Nat
      /\ DOMAIN vm.tids \subseteq Indexes /\ \A i \in DOMAIN vm.tids : vm.tids[i] \in Tids
      /\ until \in [Pids \X Indexes \X Tids -> Int]
  BY DEF ThreadsAssumption, ThreadsInv, VmInv, Live
<1>2. CASE Cached
  <2>1. VcpuThreads(ok) = threads[pid] /\ ListOK(pid, threads[pid])
        /\ thrClock - threads[pid].fetched < ThreadRefresh
    BY <1>2 DEF Cached, VcpuThreads, ThreadsInv, ListInv
  <2>2. ASSUME NEW i \in DOMAIN threads[pid].tids
        PROVE  \/ Holds(pid, i, threads[pid].tids[i])
               \/ thrClock - until[<<pid, i, threads[pid].tids[i]>>] < ThreadRefresh
    <3>1. /\ i \in Indexes /\ threads[pid].tids[i] \in Tids /\ threads[pid].fetched \in Nat
          /\ \/ Holds(pid, i, threads[pid].tids[i])
             \/ until[<<pid, i, threads[pid].tids[i]>>] >= threads[pid].fetched
      BY <2>1, <2>2 DEF ListOK
    <3>2. until[<<pid, i, threads[pid].tids[i]>>] \in Int
      BY <1>1, <3>1
    <3> QED  BY <1>1, <2>1, <3>1, <3>2
  <2> QED  BY <2>1, <2>2
<1>3. CASE ~Cached /\ ok
  <2>1. VcpuThreads(ok) = [tids |-> vm.tids, fetched |-> thrClock]
    BY <1>3 DEF VcpuThreads
  <2>2. VcpuThreads(ok).tids = vm.tids /\ VcpuThreads(ok).fetched = thrClock
    BY <2>1
  <2> QED  BY <1>1, <2>2 DEF ListOK, Holds
<1>4. CASE ~Cached /\ ~ok
  <2>1. VcpuThreads(ok) = [tids |-> <<>>, fetched |-> thrClock]
    BY <1>4 DEF VcpuThreads
  <2>2. VcpuThreads(ok).tids = <<>> /\ VcpuThreads(ok).fetched = thrClock
    BY <2>1
  <2> QED  BY <1>1, <2>2 DEF ListOK
<1> QED  BY <1>2, <1>3, <1>4

LEMMA ListHad ==
  ASSUME ThreadsInv, NEW p, NEW l, ListOK(p, l), NEW i \in DOMAIN l.tids
  PROVE  i \in Indexes /\ l.tids[i] \in Tids /\ Had(p, i, l.tids[i])
<1>1. /\ p \in Pids /\ i \in Indexes /\ l.tids[i] \in Tids /\ l.fetched \in Nat
      /\ Holds(p, i, l.tids[i]) \/ until[<<p, i, l.tids[i]>>] >= l.fetched
  BY DEF ListOK
<1>2. until[<<p, i, l.tids[i]>>] \in Int
  BY <1>1 DEF ThreadsInv, VmInv
<1> QED  BY <1>1, <1>2 DEF Holds, Had

(* What Collect makes of the entry at a position: the thread of its index, *)
(* next to a latency of this thread or of one that moved.                  *)
LEMMA EntryFound ==
  ASSUME ThreadsAssumption, ThreadsInv, pid \in Pids, NEW l, ListOK(pid, l),
         NEW e \in Vcpu,
         source = "scan" => OwnOK(pid, e) \/ e.lat = 0,
         source = "scan" /\ e.lat # 0 =>
           \E i \in DOMAIN l.tids : l.tids[i] = e.tid
  PROVE  /\ [e EXCEPT !.tid = TidOf(l, e.index)] \in Vcpu
         /\ source = "scan" => OwnOK(pid, [e EXCEPT !.tid = TidOf(l, e.index)])
<1> DEFINE w == [e EXCEPT !.tid = TidOf(l, e.index)]
<1>0. 0 \notin Tids
  BY DEF ThreadsAssumption
<1>1. /\ e.index \in Indexes /\ e.tid \in Tids \cup {0} /\ e.lat \in Tids \cup {0}
      /\ TidOf(l, e.index) \in Tids \cup {0}
  BY ListHad DEF Vcpu, TidOf
<1>2. w \in Vcpu /\ w.index = e.index /\ w.lat = e.lat /\ w.tid = TidOf(l, e.index)
  BY <1>1 DEF Vcpu
<1> HIDE DEF w
<1>3. w.tid # 0 => Had(pid, w.index, w.tid)
  BY <1>2, ListHad DEF TidOf
<1>4. ASSUME source = "scan" PROVE w.lat \in {0, w.tid} \/ Moved(pid, w.lat)
  <2>1. CASE e.lat = 0 \/ Moved(pid, e.lat)
    BY <1>2, <2>1
  <2>2. CASE e.lat # 0 /\ ~Moved(pid, e.lat)
    <3>1. e.lat = e.tid /\ Had(pid, e.index, e.tid)
      BY <1>4, <2>2 DEF OwnOK
    <3>2. PICK i \in DOMAIN l.tids : l.tids[i] = e.tid
      BY <1>4, <2>2
    <3>3. i \in Indexes /\ Had(pid, i, e.tid)
      BY <3>2, ListHad
    <3>4. i = e.index
      BY <1>1, <2>2, <3>1, <3>3 DEF Moved
    <3> QED  BY <1>2, <3>1, <3>2, <3>4 DEF TidOf
  <2> QED  BY <2>1, <2>2
<1> QED  BY <1>2, <1>3, <1>4 DEF OwnOK, w

(* ProcCollector.Collect. *)
LEMMA ProcKeeps ==
  ASSUME ThreadsAssumption, ThreadsInv, NEW ok \in BOOLEAN, ProcCollect(ok)
  PROVE  ThreadsInv'
<1>1. UNCHANGED env /\ pid' = pid /\ run' = run /\ source' = source /\ vm' = vm /\ until' = until
  BY DEF ProcCollect, env
<1>2. VmInv'
  BY <1>1, VmKept
<1>3. CASE ~Live
  <2>1. vcpus' = vcpus /\ threads' = [p \in DOMAIN threads \cap {pid} |-> threads[p]]
    BY <1>3 DEF ProcCollect
  <2>2. ListInv'
    BY <1>1, <2>1, ListKept DEF ThreadsInv, ListInv
  <2>3. VcpuInv'
    BY <1>1, <2>1, OwnKept DEF ThreadsInv, Had
  <2> QED  BY <1>2, <2>2, <2>3 DEF ThreadsInv
<1>4. CASE Live
  <2>1. PICK l : l = VcpuThreads(ok)
    OBVIOUS
  <2>2. ListOK(pid, l) /\ pid \in Pids /\ DOMAIN l.tids \in SUBSET Indexes
    BY <1>4, <2>1, ListFound DEF ListOK
  <2>3. threads' = [p \in {pid} |-> l]
    BY <1>4, <2>1 DEF ProcCollect
  <2>4. ListInv'
    BY <1>1, <2>2, <2>3, ListKept DEF ListInv
  <2>5. PICK list : list = IF source = "libvirt" THEN vcpus ELSE ThreadVcpus(l)
    OBVIOUS
  <2>6. vcpus' = [i \in DOMAIN list |-> [list[i] EXCEPT !.tid = TidOf(l, list[i].index)]]
    BY <1>4, <2>1, <2>5 DEF ProcCollect
  <2>7. ASSUME NEW i \in DOMAIN list
        PROVE  /\ list[i] \in Vcpu
               /\ source = "scan" => OwnOK(pid, list[i]) \/ list[i].lat = 0
               /\ source = "scan" /\ list[i].lat # 0 =>
                    \E j \in DOMAIN l.tids : l.tids[j] = list[i].tid
    <3>1. CASE source = "libvirt"
      BY <2>5, <2>7, <3>1 DEF ThreadsInv, VcpuInv
    <3>2. CASE source # "libvirt"
      <4> DEFINE own == Ordered(DOMAIN l.tids)
      <4>1. \A j \in DOMAIN own : own[j] \in DOMAIN l.tids
        BY <2>2, OrderedType
      <4>2. list = ThreadVcpus(l)
        BY <2>5, <3>2
      <4>3. i \in DOMAIN own
        BY <2>7, <4>2 DEF ThreadVcpus
      <4> HIDE DEF own
      <4> DEFINE new == [index |-> own[i], tid |-> l.tids[own[i]], lat |-> 0]
      <4>4. list[i] = IF i \in DOMAIN vcpus /\ vcpus[i].tid = new.tid THEN vcpus[i] ELSE new
        BY <4>2, <4>3 DEF ThreadVcpus, own
      <4>5. own[i] \in DOMAIN l.tids /\ own[i] \in Indexes /\ l.tids[own[i]] \in Tids
        BY <2>2, <4>1, <4>3 DEF ListOK
      <4>6. new \in Vcpu /\ new.lat = 0 /\ new.tid = l.tids[own[i]]
        BY <4>5 DEF Vcpu
      <4> HIDE DEF new
      <4>7. CASE i \in DOMAIN vcpus /\ vcpus[i].tid = new.tid
        BY <4>4, <4>5, <4>6, <4>7 DEF ThreadsInv, VcpuInv
      <4>8. CASE ~(i \in DOMAIN vcpus /\ vcpus[i].tid = new.tid)
        BY <4>4, <4>6, <4>8
      <4> QED  BY <4>7, <4>8
    <3> QED  BY <3>1, <3>2
  <2>8. ASSUME NEW i \in DOMAIN vcpus'
        PROVE  vcpus'[i] \in Vcpu /\ (source = "scan" => OwnOK(pid, vcpus'[i]))
    <3>1. i \in DOMAIN list
      BY <2>6, <2>8
    <3>2. PICK e : e = list[i]
      OBVIOUS
    <3>3. vcpus'[i] = [e EXCEPT !.tid = TidOf(l, e.index)]
      BY <2>6, <3>1, <3>2
    <3> QED  BY <2>2, <2>7, <3>1, <3>2, <3>3, EntryFound
  <2>9. ASSUME NEW e, OwnOK(pid, e) PROVE OwnOK(pid, e)'
    BY <1>1, <2>9 DEF OwnOK, Had, Moved
  <2>10. VcpuInv'
    BY <1>1, <2>2, <2>8, <2>9 DEF VcpuInv, Vcpu
  <2> QED  BY <1>2, <2>4, <2>10 DEF ThreadsInv
<1> QED  BY <1>3, <1>4

(* EBPFCollector.Collect. *)
LEMMA EbpfKeeps ==
  ASSUME ThreadsAssumption, ThreadsInv, EbpfCollect
  PROVE  ThreadsInv'
<1>1. /\ UNCHANGED env /\ pid' = pid /\ run' = run /\ threads' = threads /\ source' = source
      /\ vm' = vm /\ until' = until /\ hist \subseteq Tids
  BY DEF EbpfCollect, env, ThreadsInv, VmInv
<1>2. VmInv'
  BY <1>1, VmKept
<1>3. ListInv'
  BY <1>1, ListKept DEF ThreadsInv, ListInv
<1>4. CASE pid = 0
  <2>1. vcpus' = vcpus
    BY <1>4 DEF EbpfCollect
  <2>2. VcpuInv'
    BY <1>1, <2>1, OwnKept DEF ThreadsInv, Had
  <2> QED  BY <1>2, <1>3, <2>2 DEF ThreadsInv
<1>5. CASE pid # 0
  <2>1. vcpus' = [i \in DOMAIN vcpus |->
          IF vcpus[i].tid \in hist THEN [vcpus[i] EXCEPT !.lat = vcpus[i].tid] ELSE vcpus[i]]
    BY <1>5 DEF EbpfCollect
  <2>2. ASSUME NEW i \in DOMAIN vcpus'
        PROVE  pid \in Pids /\ vcpus'[i] \in Vcpu /\ (source = "scan" => OwnOK(pid, vcpus'[i]))
    <3>1. i \in DOMAIN vcpus
      BY <2>1, <2>2
    <3>2. PICK e : e = vcpus[i]
      OBVIOUS
    <3>3. pid \in Pids /\ e \in Vcpu /\ (source = "scan" => OwnOK(pid, e))
      BY <3>1, <3>2 DEF ThreadsInv, VcpuInv
    <3>4. CASE e.tid \in hist
      <4>1. PICK w : w = [e EXCEPT !.lat = e.tid]
        OBVIOUS
      <4>2. w \in Vcpu /\ w.tid = e.tid /\ w.lat = e.tid /\ w.index = e.index
        BY <1>1, <3>3, <4>1 DEF Vcpu
      <4>3. vcpus'[i] = w
        BY <2>1, <3>1, <3>2, <3>4, <4>1
      <4> QED  BY <3>3, <4>2, <4>3 DEF OwnOK
    <3>5. CASE e.tid \notin hist
      BY <2>1, <3>1, <3>2, <3>3, <3>5
    <3> QED  BY <3>4, <3>5
  <2>3. ASSUME NEW e, OwnOK(pid, e) PROVE OwnOK(pid, e)'
    BY <1>1, <2>3 DEF OwnOK, Had, Moved
  <2>4. VcpuInv'
    BY <1>1, <2>2, <2>3 DEF VcpuInv, Vcpu
  <2> QED  BY <1>2, <1>3, <2>4 DEF ThreadsInv
<1> QED  BY <1>4, <1>5
-----------------------------------------------------------------------------
(* Nothing is known at the start. *)
LEMMA ThreadsBegin == ASSUME ThreadsAssumption PROVE ThreadsInit => ThreadsInv
<1> SUFFICES ASSUME ThreadsInit PROVE ThreadsInv
  OBVIOUS
<1>1. /\ thrClock = 0 /\ changes = 0 /\ run = 0 /\ hist = {} /\ pid = 0 /\ vcpus = <<>>
      /\ threads = <<>> /\ vm = Off
  BY Zenon DEF ThreadsInit
<1>2. /\ vm = [pid |-> vm.pid, run |-> vm.run, tids |-> vm.tids] /\ vm.pid = 0 /\ vm.run = 0
      /\ DOMAIN vm.tids = {}
  BY <1>1 DEF Off
<1>3. until \in [Pids \X Indexes \X Tids -> Int]
  BY DEF ThreadsInit, ThreadsAssumption
<1>4. DOMAIN vcpus = {} /\ DOMAIN threads = {}
  BY <1>1
<1> QED  BY <1>1, <1>2, <1>3, <1>4 DEF ThreadsInv, VmInv, ListInv, VcpuInv

(* Every step keeps the invariant. *)
LEMMA ThreadsKeep ==
  ASSUME ThreadsAssumption, ThreadsInv, ThreadsNext \/ Elapses
  PROVE  ThreadsInv'
<1>1. CASE Elapses
  BY <1>1, HostKeeps
<1>2. CASE ThrPass \/ VmStart \/ VmStop \/ Hotplug \/ Unplug \/ Measure
  BY <1>2, HostKeeps
<1>3. CASE Discover
  BY <1>3, DiscoverKeeps
<1>4. CASE EbpfCollect
  BY <1>4, EbpfKeeps
<1>5. CASE \E ok \in BOOLEAN : ProcCollect(ok)
  BY <1>5, ProcKeeps
<1> QED  BY <1>1, <1>2, <1>3, <1>4, <1>5 DEF ThreadsNext

(* The invariant of the threads. *)
THEOREM ThreadsAlways == ASSUME ThreadsAssumption PROVE ThreadsSpec => []ThreadsInv
<1>1. ThreadsInit => ThreadsInv
  BY ThreadsBegin
<1>2. ThreadsInv /\ [ThreadsNext]_vcpuThreads => ThreadsInv'
  <2> SUFFICES ASSUME ThreadsInv, [ThreadsNext]_vcpuThreads PROVE ThreadsInv'
    OBVIOUS
  <2>1. ThreadsNext \/ Elapses
    BY DEF vcpuThreads, Elapses, ThreadsInv, VmInv
  <2> QED  BY <2>1, ThreadsKeep
<1> QED  BY <1>1, <1>2, PTL DEF ThreadsSpec

(* LatencyOwn: of a VM libvirt does not know, a latency is shown next to   *)
(* the thread it was measured on, unless this thread's ID went from one    *)
(* vCPU to another (ProcCollector.Collect, threadCPU).                     *)
THEOREM LatencyAlwaysOwn == ASSUME ThreadsAssumption PROVE ThreadsSpec => []LatencyOwn
<1>1. ThreadsInv => LatencyOwn
  BY DEF ThreadsInv, VcpuInv, OwnOK, LatencyOwn
<1> QED  BY <1>1, ThreadsAlways, PTL

(* ThreadRecent: the thread found for a vCPU is its thread, or was so less *)
(* than ThreadRefresh ago, in a process with this PID (vcpuThreads).       *)
THEOREM ThreadsAreRecent == ASSUME ThreadsAssumption PROVE ThreadsSpec => ThreadRecent
<1> DEFINE Recent ==
      step = "proc" /\ step' = "ebpf" /\ Live => \A i \in DOMAIN vcpus' :
        LET v == vcpus'[i] IN
        v.tid # 0 => \/ v.index \in DOMAIN vm.tids /\ vm.tids[v.index] = v.tid
                     \/ thrClock - until[<<pid, v.index, v.tid>>] < ThreadRefresh
<1>1. ThreadsInv /\ [ThreadsNext]_vcpuThreads => [Recent]_vcpuThreads
  <2>1. SUFFICES ASSUME ThreadsInv, ThreadsNext, step = "proc", step' = "ebpf", Live,
                        NEW i \in DOMAIN vcpus', vcpus'[i].tid # 0
                 PROVE  LET v == vcpus'[i] IN
                        \/ v.index \in DOMAIN vm.tids /\ vm.tids[v.index] = v.tid
                        \/ thrClock - until[<<pid, v.index, v.tid>>] < ThreadRefresh
    OBVIOUS
  <2>2. PICK ok \in BOOLEAN : ProcCollect(ok)
    BY <2>1 DEF ThreadsNext, ThrPass, VmStart, VmStop, Hotplug, Unplug, Becomes, Measure, Discover,
                EbpfCollect
  <2>3. PICK l : l = VcpuThreads(ok)
    OBVIOUS
  <2>4. PICK list : list = IF source = "libvirt" THEN vcpus ELSE ThreadVcpus(l)
    OBVIOUS
  <2>5. vcpus' = [j \in DOMAIN list |-> [list[j] EXCEPT !.tid = TidOf(l, list[j].index)]]
    BY <2>1, <2>2, <2>3, <2>4 DEF ProcCollect
  <2>6. PICK e : e = list[i]
    OBVIOUS
  <2>7. vcpus'[i] = [e EXCEPT !.tid = TidOf(l, e.index)]
    BY <2>1, <2>5, <2>6
  <2>8. vcpus'[i].index = e.index /\ vcpus'[i].tid = TidOf(l, e.index)
    BY <2>7
  <2>9. e.index \in DOMAIN l.tids /\ vcpus'[i].tid = l.tids[e.index]
    BY <2>1, <2>8 DEF TidOf
  <2>10. \/ Holds(pid, e.index, l.tids[e.index])
         \/ thrClock - until[<<pid, e.index, l.tids[e.index]>>] < ThreadRefresh
    BY <2>1, <2>3, <2>9, ListFound
  <2> QED  BY <2>8, <2>9, <2>10 DEF Holds
<1>2. ThreadsSpec => [][Recent]_vcpuThreads
  BY <1>1, ThreadsAlways, PTL DEF ThreadsSpec
<1> QED  BY <1>2 DEF ThreadRecent
=============================================================================
