------------------------- MODULE AlertReportProofs -------------------------
(***************************************************************************)
(* Theorems about what the alert engine reports: what its subscribers      *)
(* hear, in which order, and what they can still be waiting for; that      *)
(* every call of Raise is counted once; and what a reader of Recent gets   *)
(* (AlertReader).                                                          *)
(***************************************************************************)
EXTENDS AlertTableProofs, AlertReader, WellFoundedInduction
-----------------------------------------------------------------------------
(* The notices.  Every alert was told of or is about to be, and those      *)
(* about a condition wait in the poller's list only.                       *)
NoticeInv ==
  /\ \A t \in Threads : \A p \in DOMAIN out[t] :
       /\ out[t][p].id \in DOMAIN alerts
       /\ t # Poller => alerts[out[t][p].id].key \in EventKeys
  /\ \A i \in IDs \ DOMAIN alerts : seen[i] = "none"
  /\ \A i \in DOMAIN alerts :
       seen[i] # "none" \/ \E t \in Threads : \E p \in DOMAIN out[t] : out[t][p].id = i

(* The notices o about condition i continue what subscribers were told     *)
(* last, s, in the order of its life and up to its end if it is over.      *)
Story(o, s, active, i) ==
  /\ s \in {"none", "raised", "escalated", "resolved"}
  /\ s = "resolved" => ~active
  /\ ~active => s = "resolved" \/ \E p \in DOMAIN o : o[p].id = i /\ o[p].why = "resolved"
  /\ \A p \in DOMAIN o : o[p].id = i =>
       /\ o[p].why \in {"raised", "escalated", "resolved"}
       /\ o[p].why = "resolved" => ~active
       /\ s # "resolved"
       /\ o[p].why = "raised" => s = "none"
       /\ o[p].why # "raised" => s # "none" \/ \E q \in DOMAIN o : q < p /\ o[q].id = i
       /\ \A q \in DOMAIN o : q > p /\ o[q].id = i =>
            o[p].why # "resolved" /\ o[q].why # "raised"

CondNotices ==
  \A i \in DOMAIN alerts : alerts[i].key \in CondKeys =>
    Story(out[Poller], seen[i], alerts[i].active, i)

(* A list of notices after one was added. *)
LEMMA AppendNotice ==
  ASSUME NEW o \in Seq(Notice), NEW n \in Notice
  PROVE  \E m \in Nat :
           /\ DOMAIN o = 1 .. m /\ DOMAIN Append(o, n) = 1 .. m + 1
           /\ Append(o, n)[m + 1] = n /\ \A p \in 1 .. m : Append(o, n)[p] = o[p]
<1>1. /\ Len(o) \in Nat /\ DOMAIN o = 1 .. Len(o)
      /\ Append(o, n) \in Seq(Notice) /\ Len(Append(o, n)) = Len(o) + 1
      /\ Append(o, n)[Len(o) + 1] = n /\ \A p \in 1 .. Len(o) : Append(o, n)[p] = o[p]
  BY AppendProperties, LenProperties
<1>2. DOMAIN Append(o, n) = 1 .. Len(o) + 1
  BY <1>1, LenProperties
<1> QED  BY <1>1, <1>2, Zenon

(* A list of notices after the first was delivered. *)
LEMMA TailNotice ==
  ASSUME NEW o \in Seq(Notice), o # <<>>
  PROVE  \E m \in Nat :
           /\ DOMAIN o = 1 .. m + 1 /\ DOMAIN Tail(o) = 1 .. m /\ Head(o) = o[1]
           /\ \A p \in 1 .. m : Tail(o)[p] = o[p + 1]
<1>1. Len(o) \in Nat \ {0} /\ DOMAIN o = 1 .. Len(o)
  BY EmptySeq, LenProperties
<1>2. /\ Tail(o) \in Seq(Notice) /\ Len(Tail(o)) = Len(o) - 1 /\ Head(o) = o[1]
      /\ \A p \in 1 .. Len(Tail(o)) : Tail(o)[p] = o[p + 1]
  BY HeadTailProperties
<1>3. DOMAIN Tail(o) = 1 .. Len(o) - 1
  BY <1>2, LenProperties
<1>4. PICK m \in Nat : Len(o) = m + 1
  <2>1. Len(o) - 1 \in Nat /\ Len(o) = (Len(o) - 1) + 1
    BY <1>1
  <2> QED  BY <2>1, Zenon
<1> QED  BY <1>1, <1>2, <1>3, <1>4

(* A notice about another alert changes nothing. *)
LEMMA StoryOther ==
  ASSUME NEW o \in Seq(Notice), NEW n \in Notice, NEW s, NEW active, NEW i,
         n.id # i, Story(o, s, active, i)
  PROVE  Story(Append(o, n), s, active, i)
<1> DEFINE o2 == Append(o, n)
<1>1. PICK m \in Nat :
           /\ DOMAIN o = 1 .. m /\ DOMAIN o2 = 1 .. m + 1
           /\ o2[m + 1] = n /\ \A p \in 1 .. m : o2[p] = o[p]
  BY AppendNotice, Zenon
<1>2. \A p \in 1 .. m + 1 : o2[p].id = i => p \in 1 .. m
  BY <1>1
<1>3. \A p \in 1 .. m : p \in 1 .. m + 1
  BY <1>1
<1> HIDE DEF o2
<1> SUFFICES Story(o2, s, active, i)
  BY DEF o2
<1> QED  BY <1>1, <1>2, <1>3 DEF Story

(* The story of a new alert begins with its raised. *)
LEMMA StoryBegin ==
  ASSUME NEW o \in Seq(Notice), NEW n \in Notice, NEW i,
         n.id = i, n.why = "raised", \A p \in DOMAIN o : o[p].id # i
  PROVE  Story(Append(o, n), "none", TRUE, i)
<1> DEFINE o2 == Append(o, n)
<1>1. PICK m \in Nat :
           /\ DOMAIN o = 1 .. m /\ DOMAIN o2 = 1 .. m + 1
           /\ o2[m + 1] = n /\ \A p \in 1 .. m : o2[p] = o[p]
  BY AppendNotice
<1>2. \A p \in 1 .. m + 1 : o2[p].id = i => p = m + 1
  BY <1>1
<1> HIDE DEF o2
<1> SUFFICES Story(o2, "none", TRUE, i)
  BY Zenon DEF o2
<1> QED  BY <1>1, <1>2 DEF Story

(* The story of an active alert goes on, or ends. *)
LEMMA StoryGoesOn ==
  ASSUME NEW o \in Seq(Notice), NEW n \in Notice, NEW i, NEW s, NEW active \in BOOLEAN,
         n.id = i, n.why = IF active THEN "escalated" ELSE "resolved",
         s # "none" \/ \E p \in DOMAIN o : o[p].id = i, Story(o, s, TRUE, i)
  PROVE  Story(Append(o, n), s, active, i)
<1> DEFINE o2 == Append(o, n)
<1>1. PICK m \in Nat :
           /\ DOMAIN o = 1 .. m /\ DOMAIN o2 = 1 .. m + 1
           /\ o2[m + 1] = n /\ \A p \in 1 .. m : o2[p] = o[p]
  BY AppendNotice
<1>2. /\ m + 1 \in 1 .. m + 1 /\ \A p \in 1 .. m + 1 : p = m + 1 \/ p \in 1 .. m
      /\ \A p \in 1 .. m : p \in 1 .. m + 1 /\ p < m + 1 /\ ~(m + 1 < p)
  BY <1>1
<1> HIDE DEF o2
<1> SUFFICES Story(o2, s, active, i)
  BY DEF o2
<1>3. /\ s \in {"none", "raised", "escalated"}
      /\ \A p \in 1 .. m : o[p].id = i => o[p].why \in {"raised", "escalated"}
  BY <1>1 DEF Story
<1>4. ~active => o2[m + 1].id = i /\ o2[m + 1].why = "resolved"
  BY <1>1
<1>5. ASSUME NEW p \in 1 .. m + 1, o2[p].id = i
      PROVE  /\ o2[p].why \in {"raised", "escalated", "resolved"}
             /\ o2[p].why = "resolved" => ~active
             /\ o2[p].why = "raised" => s = "none"
             /\ o2[p].why # "raised" => s # "none" \/ \E q \in 1 .. m + 1 : q < p /\ o2[q].id = i
             /\ \A q \in 1 .. m + 1 : q > p /\ o2[q].id = i =>
                  o2[p].why # "resolved" /\ o2[q].why # "raised"
  <2>1. CASE p = m + 1
    BY <1>1, <1>2, <1>3, <2>1
  <2>2. CASE p \in 1 .. m
    <3>1. /\ o2[p] = o[p] /\ o[p].why \in {"raised", "escalated"}
          /\ o[p].why = "raised" => s = "none"
          /\ o[p].why # "raised" => s # "none" \/ \E q \in 1 .. m : q < p /\ o[q].id = i
          /\ \A q \in 1 .. m : q > p /\ o[q].id = i => o[q].why # "raised"
      BY <1>1, <1>3, <1>5, <2>2, Zenon DEF Story
    <3> QED  BY <1>1, <1>2, <3>1
  <2> QED  BY <1>2, <2>1, <2>2
<1>6. ~active => \E p \in 1 .. m + 1 : o2[p].id = i /\ o2[p].why = "resolved"
  BY <1>2, <1>4
<1>7. s \in {"none", "raised", "escalated", "resolved"} /\ s # "resolved"
  BY <1>3
<1>8. DOMAIN o2 = 1 .. m + 1
  BY <1>1
<1> QED  BY ONLY <1>5, <1>6, <1>7, <1>8, Zenon DEF Story

(* Delivering the first notice keeps the story. *)
LEMMA StoryTold ==
  ASSUME NEW o \in Seq(Notice), o # <<>>, NEW i, NEW s, NEW active, Story(o, s, active, i)
  PROVE  Story(Tail(o), IF Head(o).id = i THEN Head(o).why ELSE s, active, i)
<1> DEFINE o2 == Tail(o)
           s2 == IF o[1].id = i THEN o[1].why ELSE s
<1>1. PICK m \in Nat :
           /\ DOMAIN o = 1 .. m + 1 /\ DOMAIN o2 = 1 .. m /\ Head(o) = o[1]
           /\ \A p \in 1 .. m : o2[p] = o[p + 1]
  BY TailNotice
<1>2. /\ 1 \in 1 .. m + 1 /\ \A p \in 1 .. m : p + 1 \in 1 .. m + 1 /\ p + 1 > 1
      /\ \A p \in 1 .. m + 1 : p = 1 \/ (p - 1 \in 1 .. m /\ o2[p - 1] = o[p])
      /\ \A p, q \in 1 .. m : p > q => p + 1 > q + 1
      /\ \A p \in 1 .. m, q \in 1 .. m + 1 : q < p + 1 /\ q # 1 => q - 1 < p
  <2>1. ASSUME NEW p \in 1 .. m + 1, p # 1 PROVE p - 1 \in 1 .. m /\ o2[p - 1] = o[p]
    <3>1. p - 1 \in 1 .. m /\ (p - 1) + 1 = p
      BY <2>1
    <3> HIDE DEF o2
    <3>2. o2[p - 1] = o[(p - 1) + 1]
      BY <1>1, <3>1
    <3> QED  BY <3>1, <3>2
  <2> HIDE DEF o2
  <2>2. /\ 1 \in 1 .. m + 1 /\ \A p \in 1 .. m : p + 1 \in 1 .. m + 1 /\ p + 1 > 1
        /\ \A p, q \in 1 .. m : p > q => p + 1 > q + 1
        /\ \A p \in 1 .. m, q \in 1 .. m + 1 : q < p + 1 /\ q # 1 => q - 1 < p
    OBVIOUS
  <2> QED  BY <2>1, <2>2
<1>3. s2 \in {"none", "raised", "escalated", "resolved"} /\ (s2 = "resolved" => ~active)
  BY <1>1, <1>2 DEF Story
<1>4. ~active => s2 = "resolved" \/ \E p \in 1 .. m : o2[p].id = i /\ o2[p].why = "resolved"
  <2> SUFFICES ASSUME ~active, s2 # "resolved"
               PROVE  \E p \in 1 .. m : o2[p].id = i /\ o2[p].why = "resolved"
    BY Zenon
  <2>1. \E p \in 1 .. m + 1 : o[p].id = i /\ o[p].why = "resolved"
    BY <1>1, <1>2 DEF Story
  <2>2. PICK p \in 1 .. m + 1 : o[p].id = i /\ o[p].why = "resolved" /\ p # 1
    BY <2>1
  <2> HIDE DEF o2, s2
  <2> QED  BY <1>2, <2>2, Zenon
<1>5. ASSUME NEW p \in 1 .. m, o2[p].id = i
      PROVE  /\ o2[p].why \in {"raised", "escalated", "resolved"}
             /\ o2[p].why = "resolved" => ~active
             /\ s2 # "resolved"
             /\ o2[p].why = "raised" => s2 = "none"
             /\ o2[p].why # "raised" => s2 # "none" \/ \E q \in 1 .. m : q < p /\ o2[q].id = i
             /\ \A q \in 1 .. m : q > p /\ o2[q].id = i =>
                  o2[p].why # "resolved" /\ o2[q].why # "raised"
  <2>1. o2[p] = o[p + 1] /\ p + 1 \in 1 .. m + 1
    BY <1>1, <1>2
  <2>2. /\ o[p + 1].why \in {"raised", "escalated", "resolved"}
        /\ o[p + 1].why = "resolved" => ~active
        /\ s # "resolved" /\ (o[p + 1].why = "raised" => s = "none")
        /\ o[p + 1].why # "raised" => s # "none" \/ \E q \in 1 .. m + 1 : q < p + 1 /\ o[q].id = i
        /\ \A q \in 1 .. m + 1 : q > p + 1 /\ o[q].id = i =>
             o[p + 1].why # "resolved" /\ o[q].why # "raised"
    BY <1>1, <1>5, <2>1 DEF Story
  <2>3. o[1].id = i => o[1].why \in {"raised", "escalated"} /\ o[p + 1].why # "raised"
    BY <1>1, <1>2, <1>5, <2>1 DEF Story
  <2>4. o2[p].why # "raised" => s2 # "none" \/ \E q \in 1 .. m : q < p /\ o2[q].id = i
    <3>1. CASE o[1].id = i
      BY <2>3, <3>1
    <3>2. CASE o[1].id # i
      BY <1>2, <2>1, <2>2, <3>2, Zenon
    <3> QED  BY <3>1, <3>2, Zenon
  <2>5. \A q \in 1 .. m : q > p /\ o2[q].id = i => o2[p].why # "resolved" /\ o2[q].why # "raised"
    BY <1>1, <1>2, <2>1, <2>2
  <2> QED  BY <2>1, <2>2, <2>3, <2>4, <2>5, Zenon
<1> HIDE DEF o2, s2
<1>6. Story(o2, s2, active, i)
  BY <1>1, <1>3, <1>4, <1>5, Zenon DEF Story
<1> QED  BY <1>1, <1>6 DEF o2, s2

(* The lists of notices after Collect. *)
LEMMA CollectFacts ==
  ASSUME TypeOK, NEW t \in Threads, NEW n \in Notice, Collect(t, n)
  PROVE  /\ out'[t] = Append(out[t], n) /\ \A u \in Threads \ {t} : out'[u] = out[u]
         /\ \E p \in DOMAIN out'[t] : out'[t][p] = n
         /\ \A p \in DOMAIN out'[t] : out'[t][p] = n
              \/ (p \in DOMAIN out[t] /\ out'[t][p] = out[t][p])
         /\ \A p \in DOMAIN out[t] : p \in DOMAIN out'[t] /\ out'[t][p] = out[t][p]
<1>1. out[t] \in Seq(Notice)
  BY DEF TypeOK
<1>2. out'[t] = Append(out[t], n) /\ \A u \in Threads \ {t} : out'[u] = out[u]
  BY DEF Collect, TypeOK
<1>3. PICK m \in Nat :
           /\ DOMAIN out[t] = 1 .. m /\ DOMAIN Append(out[t], n) = 1 .. m + 1
           /\ Append(out[t], n)[m + 1] = n /\ \A p \in 1 .. m : Append(out[t], n)[p] = out[t][p]
  BY <1>1, AppendNotice
<1>4. m + 1 \in 1 .. m + 1 /\ (\A p \in 1 .. m + 1 : p = m + 1 \/ p \in 1 .. m)
      /\ \A p \in 1 .. m : p \in 1 .. m + 1
  OBVIOUS
<1> QED  BY <1>2, <1>3, <1>4

(* A notice that is collected in the step that makes the alert. *)
LEMMA NoticeCollect ==
  ASSUME TypeOK, NoticeInv, NEW t \in Threads, NEW n \in Notice, Collect(t, n), seen' = seen,
         DOMAIN alerts' = DOMAIN alerts \cup {n.id},
         \A i \in DOMAIN alerts : alerts'[i].key = alerts[i].key,
         t # Poller => alerts'[n.id].key \in EventKeys
  PROVE  NoticeInv'
<1>1. /\ \A u \in Threads \ {t} : out'[u] = out[u]
      /\ \E p \in DOMAIN out'[t] : out'[t][p] = n
      /\ \A p \in DOMAIN out'[t] : out'[t][p] = n
           \/ (p \in DOMAIN out[t] /\ out'[t][p] = out[t][p])
      /\ \A p \in DOMAIN out[t] : p \in DOMAIN out'[t] /\ out'[t][p] = out[t][p]
  BY CollectFacts
<1>2. ASSUME NEW u \in Threads, NEW p \in DOMAIN out'[u]
      PROVE  /\ out'[u][p].id \in DOMAIN alerts'
             /\ u # Poller => alerts'[out'[u][p].id].key \in EventKeys
  <2>1. CASE u = t /\ out'[u][p] = n
    BY <2>1
  <2>2. CASE p \in DOMAIN out[u] /\ out'[u][p] = out[u][p]
    BY <2>2 DEF NoticeInv
  <2> QED  BY <1>1, <1>2, <2>1, <2>2
<1>3. ASSUME NEW i \in DOMAIN alerts', seen[i] = "none"
      PROVE  \E u \in Threads : \E p \in DOMAIN out'[u] : out'[u][p].id = i
  <2>1. CASE i = n.id
    BY <1>1, <2>1
  <2>2. CASE i \in DOMAIN alerts
    <3>1. PICK u \in Threads : \E p \in DOMAIN out[u] : out[u][p].id = i
      BY <1>3, <2>2 DEF NoticeInv
    <3>2. PICK p \in DOMAIN out[u] : out[u][p].id = i
      BY <3>1
    <3>3. p \in DOMAIN out'[u] /\ out'[u][p].id = i
      BY <1>1, <3>2
    <3> QED  BY <3>3
  <2> QED  BY <2>1, <2>2
<1> QED  BY <1>2, <1>3 DEF NoticeInv

(* A step that collects nothing. *)
LEMMA NoticeSame ==
  ASSUME TypeOK, NoticeInv, out' = out, seen' = seen, DOMAIN alerts' = DOMAIN alerts,
         \A i \in DOMAIN alerts : alerts'[i].key = alerts[i].key
  PROVE  NoticeInv'
BY DEF NoticeInv

(* The lists after a delivery. *)
LEMMA NotifyFacts ==
  ASSUME TypeOK, NEW t \in Threads, Notify(t)
  PROVE  /\ out[t] \in Seq(Notice) /\ out[t] # <<>> /\ Head(out[t]) \in Notice
         /\ out'[t] = Tail(out[t]) /\ \A u \in Threads \ {t} : out'[u] = out[u]
         /\ \A i \in IDs : seen'[i] = IF Head(out[t]).id = i THEN Head(out[t]).why ELSE seen[i]
         /\ UNCHANGED alerts
         /\ \E p \in DOMAIN out[t] : out[t][p] = Head(out[t])
         /\ \A p \in DOMAIN out'[t] : \E q \in DOMAIN out[t] : out'[t][p] = out[t][q]
         /\ \A q \in DOMAIN out[t] : out[t][q] = Head(out[t])
              \/ \E p \in DOMAIN out'[t] : out'[t][p] = out[t][q]
<1>1. out[t] \in Seq(Notice) /\ out[t] # <<>>
  BY DEF Notify, TypeOK
<1>2. Head(out[t]) \in Notice
  BY <1>1, HeadTailProperties
<1>3. /\ out'[t] = Tail(out[t]) /\ \A u \in Threads \ {t} : out'[u] = out[u]
      /\ UNCHANGED alerts
  BY DEF Notify, TypeOK
<1>4. \A i \in IDs : seen'[i] = IF Head(out[t]).id = i THEN Head(out[t]).why ELSE seen[i]
  BY DEF Notify, TypeOK
<1>5. PICK m \in Nat :
           /\ DOMAIN out[t] = 1 .. m + 1 /\ DOMAIN Tail(out[t]) = 1 .. m /\ Head(out[t]) = out[t][1]
           /\ \A p \in 1 .. m : Tail(out[t])[p] = out[t][p + 1]
  BY <1>1, TailNotice, Zenon
<1>6. 1 \in 1 .. m + 1 /\ \A p \in 1 .. m : p + 1 \in 1 .. m + 1
  OBVIOUS
<1>7. ASSUME NEW q \in 1 .. m + 1, q # 1 PROVE \E p \in 1 .. m : Tail(out[t])[p] = out[t][q]
  <2>1. q - 1 \in 1 .. m /\ (q - 1) + 1 = q
    BY <1>7
  <2> QED  BY <1>5, <2>1
<1>8. \E p \in DOMAIN out[t] : out[t][p] = Head(out[t])
  BY <1>5, <1>6
<1>9. \A p \in DOMAIN out'[t] : \E q \in DOMAIN out[t] : out'[t][p] = out[t][q]
  BY <1>3, <1>5, <1>6
<1>10. ASSUME NEW q \in DOMAIN out[t]
       PROVE  out[t][q] = Head(out[t]) \/ \E p \in DOMAIN out'[t] : out'[t][p] = out[t][q]
  BY <1>3, <1>5, <1>7, Zenon
<1> QED  BY <1>1, <1>2, <1>3, <1>4, <1>8, <1>9, <1>10

(* A delivery keeps every alert told of or about to be. *)
LEMMA NoticeNotify ==
  ASSUME TypeOK, NoticeInv, NEW t \in Threads, Notify(t)
  PROVE  NoticeInv'
<1>1. /\ Head(out[t]) \in Notice /\ UNCHANGED alerts
      /\ \A u \in Threads \ {t} : out'[u] = out[u]
      /\ \A i \in IDs : seen'[i] = IF Head(out[t]).id = i THEN Head(out[t]).why ELSE seen[i]
      /\ \E p \in DOMAIN out[t] : out[t][p] = Head(out[t])
      /\ \A p \in DOMAIN out'[t] : \E q \in DOMAIN out[t] : out'[t][p] = out[t][q]
      /\ \A q \in DOMAIN out[t] : out[t][q] = Head(out[t])
           \/ \E p \in DOMAIN out'[t] : out'[t][p] = out[t][q]
  BY NotifyFacts
<1>2. Head(out[t]).id \in DOMAIN alerts /\ Head(out[t]).why # "none"
  BY <1>1 DEF NoticeInv, Notice, Transitions
<1>3. ASSUME NEW u \in Threads, NEW p \in DOMAIN out'[u]
      PROVE  /\ out'[u][p].id \in DOMAIN alerts
             /\ u # Poller => alerts[out'[u][p].id].key \in EventKeys
  <2>1. \E q \in DOMAIN out[u] : out'[u][p] = out[u][q]
    BY <1>1, <1>3
  <2> QED  BY <2>1 DEF NoticeInv
<1>4. ASSUME NEW i \in IDs \ DOMAIN alerts PROVE seen'[i] = "none"
  BY <1>1, <1>2 DEF NoticeInv
<1>5. ASSUME NEW i \in DOMAIN alerts, seen'[i] = "none"
      PROVE  \E u \in Threads : \E p \in DOMAIN out'[u] : out'[u][p].id = i
  <2>1. i \in IDs /\ i # Head(out[t]).id /\ seen[i] = "none"
    BY <1>1, <1>2, <1>5, AlertsDomain
  <2>2. PICK u \in Threads : \E q \in DOMAIN out[u] : out[u][q].id = i
    BY <2>1 DEF NoticeInv
  <2>3. PICK q \in DOMAIN out[u] : out[u][q].id = i
    BY <2>2
  <2>4. \E p \in DOMAIN out'[u] : out'[u][p] = out[u][q]
    BY <1>1, <2>1, <2>3
  <2> QED  BY <2>3, <2>4
<1> QED  BY <1>1, <1>3, <1>4, <1>5 DEF NoticeInv

(* The notice of an alert in the table. *)
LEMMA NoticeFields ==
  ASSUME NEW i \in IDs, NEW a \in AlertRec, NEW why \in Transitions
  PROVE  /\ NoticeOf(i, a, why) \in Notice /\ NoticeOf(i, a, why).id = i
         /\ NoticeOf(i, a, why).why = why
BY NoticeType DEF NoticeOf

(* A step that collects a notice about an event, or none, leaves the       *)
(* stories of the conditions alone.                                        *)
LEMMA StoriesApart ==
  ASSUME TypeOK, CondNotices, NEW t \in Threads, NEW n \in Notice, Collect(t, n) \/ UNCHANGED out,
         seen' = seen, DOMAIN alerts \subseteq DOMAIN alerts', alerts'[n.id].key \in EventKeys,
         n.id \in DOMAIN alerts',
         \A i \in DOMAIN alerts' : alerts'[i].key \in CondKeys =>
           i \in DOMAIN alerts /\ alerts'[i].key = alerts[i].key /\ alerts'[i].active = alerts[i].active
  PROVE  CondNotices'
<1> SUFFICES ASSUME NEW i \in DOMAIN alerts', alerts'[i].key \in CondKeys
             PROVE  Story(out'[Poller], seen[i], alerts'[i].active, i)
  BY DEF CondNotices
<1>1. Story(out[Poller], seen[i], alerts'[i].active, i) /\ n.id # i
  BY ModelAssumption DEF CondNotices
<1>2. out[Poller] \in Seq(Notice) /\ Poller \in Threads
  BY DEF TypeOK, Threads
<1>3. CASE UNCHANGED out
  BY <1>1, <1>3
<1>4. CASE Collect(t, n)
  <2>1. out'[Poller] = out[Poller] \/ out'[Poller] = Append(out[Poller], n)
    BY <1>2, <1>4, CollectFacts
  <2> QED  BY <1>1, <1>2, <2>1, StoryOther, Zenon
<1> QED  BY <1>3, <1>4

(* A condition's alert was told of or is in the poller's list. *)
LEMMA CondKnown ==
  ASSUME TypeOK, NoticeInv, NEW i \in DOMAIN alerts, alerts[i].key \in CondKeys
  PROVE  seen[i] # "none" \/ \E p \in DOMAIN out[Poller] : out[Poller][p].id = i
<1> SUFFICES ASSUME seen[i] = "none"
             PROVE  \E p \in DOMAIN out[Poller] : out[Poller][p].id = i
  OBVIOUS
<1>1. PICK t \in Threads : \E p \in DOMAIN out[t] : out[t][p].id = i
  BY DEF NoticeInv
<1>2. t = Poller
  BY <1>1, ModelAssumption DEF NoticeInv
<1> QED  BY <1>1, <1>2

(* The notices of a condition's step. *)
LEMMA CondStories ==
  ASSUME TypeOK, OwnedOnce, NoticeInv, CondNotices, NEW k \in CondKeys,
         Begun(k) \/ Updated(k) \/ Ended(k)
  PROVE  NoticeInv' /\ CondNotices'
<1>0. Poller \in Threads /\ out[Poller] \in Seq(Notice) /\ k \notin EventKeys
      /\ {"raised", "escalated", "resolved"} \subseteq Transitions
  BY ModelAssumption DEF Threads, TypeOK, Transitions
<1>1. CASE Begun(k)
  <2>1. PICK a \in AlertRec :
               /\ a.key = k /\ a.active = TRUE /\ alerts' = Append(alerts, a)
               /\ Collect(Poller, NoticeOf(NextID, a, "raised"))
    BY <1>1 DEF Begun
  <2> DEFINE n == NoticeOf(NextID, a, "raised")
  <2>2. NextID \in IDs /\ seen' = seen
    BY <1>1 DEF Begun
  <2>3. n \in Notice /\ n.id = NextID /\ n.why = "raised" /\ Collect(Poller, n)
    BY <1>0, <2>1, <2>2, NoticeFields
  <2> HIDE DEF n
  <2>4. /\ DOMAIN alerts' = DOMAIN alerts \cup {NextID} /\ NextID \notin DOMAIN alerts
        /\ \A i \in DOMAIN alerts : alerts'[i] = alerts[i]
        /\ alerts'[NextID] = a
    BY <2>1, AppendFacts
  <2>5. NoticeInv'
    BY <1>0, <2>2, <2>3, <2>4, NoticeCollect
  <2>6. out'[Poller] = Append(out[Poller], n)
    BY <1>0, <2>3, CollectFacts
  <2>7. Story(out'[Poller], seen'[NextID], alerts'[NextID].active, NextID)
    <3>1. seen[NextID] = "none" /\ \A p \in DOMAIN out[Poller] : out[Poller][p].id # NextID
      BY <1>0, <2>2, <2>4 DEF NoticeInv
    <3>2. Story(Append(out[Poller], n), "none", TRUE, NextID)
      BY <1>0, <2>3, <3>1, StoryBegin, Zenon
    <3> QED  BY <2>1, <2>2, <2>4, <2>6, <3>1, <3>2, Zenon
  <2>8. ASSUME NEW i \in DOMAIN alerts, alerts[i].key \in CondKeys
        PROVE  Story(out'[Poller], seen'[i], alerts'[i].active, i)
    <3>1. Story(out[Poller], seen[i], alerts[i].active, i) /\ n.id # i
      BY <2>3, <2>4, <2>8 DEF CondNotices
    <3> QED  BY <1>0, <2>2, <2>3, <2>4, <2>6, <3>1, StoryOther
  <2> QED  BY <2>4, <2>5, <2>7, <2>8 DEF CondNotices
<1>2. CASE Updated(k) \/ Ended(k)
  <2> DEFINE id == conds[k].alert
  <2>1. id \in DOMAIN alerts /\ alerts[id].key = k /\ alerts[id].active = TRUE
    BY <1>2, HeldInTable, AlertsDomain, Zenon DEF Updated, Ended, OwnedOnce, AlertRec
  <2>2. id \in IDs /\ seen' = seen
    BY <1>2, <2>1, AlertsDomain, ZenonT(30) DEF Updated, Ended
  <2>3. PICK a \in AlertRec :
             /\ a.key = k /\ alerts' = [alerts EXCEPT ![id] = a]
             /\ \/ a.active = TRUE
                     /\ (UNCHANGED out \/ Collect(Poller, NoticeOf(id, a, "escalated")))
                \/ a.active = FALSE /\ Collect(Poller, NoticeOf(id, a, "resolved"))
    BY <1>2, <2>1, Zenon DEF Updated, Ended
  <2>4. /\ DOMAIN alerts' = DOMAIN alerts
        /\ \A i \in DOMAIN alerts : alerts'[i] = IF i = id THEN a ELSE alerts[i]
    BY <2>1, <2>3, UpdateFacts
  <2>5. \A i \in DOMAIN alerts : alerts'[i].key = alerts[i].key
    BY <2>1, <2>3, <2>4
  <2>6. CASE UNCHANGED out /\ a.active = TRUE
    <3>1. NoticeInv'
      BY <2>2, <2>4, <2>5, <2>6, NoticeSame
    <3>2. \A i \in DOMAIN alerts : alerts'[i].active = alerts[i].active
      BY <2>1, <2>4, <2>6, Zenon
    <3> QED  BY <2>2, <2>4, <2>5, <2>6, <3>1, <3>2 DEF CondNotices
  <2>7. CASE \E why \in {"escalated", "resolved"} :
                /\ Collect(Poller, NoticeOf(id, a, why))
                /\ why = IF a.active THEN "escalated" ELSE "resolved"
    <3>1. PICK why \in {"escalated", "resolved"} :
                /\ Collect(Poller, NoticeOf(id, a, why))
                /\ why = IF a.active THEN "escalated" ELSE "resolved"
      BY <2>7
    <3> DEFINE n == NoticeOf(id, a, why)
    <3>2. n \in Notice /\ n.id = id /\ n.why = why /\ Collect(Poller, n)
      BY <1>0, <2>2, <3>1, NoticeFields
    <3> HIDE DEF n, id
    <3>3. NoticeInv'
      <4>1. DOMAIN alerts' = DOMAIN alerts \cup {n.id}
        BY <2>1, <2>4, <3>2
      <4> QED  BY <1>0, <2>2, <2>5, <3>2, <4>1, NoticeCollect
    <3>4. out'[Poller] = Append(out[Poller], n)
      BY <1>0, <3>2, CollectFacts
    <3>5. ASSUME NEW i \in DOMAIN alerts, alerts[i].key \in CondKeys
          PROVE  Story(out'[Poller], seen'[i], alerts'[i].active, i)
      <4>1. Story(out[Poller], seen[i], alerts[i].active, i)
        BY <3>5 DEF CondNotices
      <4>2. CASE i # id
        BY <1>0, <2>2, <2>4, <3>2, <3>4, <4>1, <4>2, StoryOther
      <4>3. CASE i = id
        <5>1. seen[i] # "none" \/ \E p \in DOMAIN out[Poller] : out[Poller][p].id = i
          BY <3>5, CondKnown
        <5>2. a.active \in BOOLEAN /\ Story(out[Poller], seen[i], TRUE, i)
          BY <2>1, <4>1, <4>3, Zenon DEF AlertRec
        <5>3. n.why = IF a.active THEN "escalated" ELSE "resolved"
          BY <3>1, <3>2
        <5>4. Story(Append(out[Poller], n), seen[i], a.active, i)
          BY <1>0, <3>2, <4>3, <5>1, <5>2, <5>3, StoryGoesOn, Zenon
        <5> QED  BY <2>2, <2>4, <3>4, <4>3, <5>4
      <4> QED  BY <4>2, <4>3
    <3> QED  BY <2>4, <2>5, <3>3, <3>5 DEF CondNotices
  <2> QED  BY <2>3, <2>6, <2>7, ZenonT(30)
<1> QED  BY <1>1, <1>2

(* The notices of a step about an event. *)
LEMMA EventNotices ==
  ASSUME TypeOK, NoticeInv, CondNotices, NEW t \in Threads, NEW i \in IDs, NEW a \in AlertRec,
         NEW why \in Transitions, Collect(t, NoticeOf(i, a, why)), seen' = seen,
         DOMAIN alerts' = DOMAIN alerts \cup {i}, alerts'[i].key \in EventKeys,
         \A j \in DOMAIN alerts : /\ alerts'[j].key = alerts[j].key
                                  /\ alerts[j].key \in CondKeys => alerts'[j].active = alerts[j].active
  PROVE  NoticeInv' /\ CondNotices'
<1> DEFINE n == NoticeOf(i, a, why)
<1>1. n \in Notice /\ n.id = i /\ Collect(t, n)
  BY NoticeFields
<1>2. \A j \in DOMAIN alerts' : alerts'[j].key \in CondKeys => j \in DOMAIN alerts
  BY ModelAssumption
<1> HIDE DEF n
<1>3. NoticeInv'
  BY <1>1, NoticeCollect
<1>4. CondNotices'
  BY <1>1, <1>2, StoriesApart
<1> QED  BY <1>3, <1>4

(* Every step keeps the notices in order. *)
LEMMA NoticeStep ==
  TypeOK /\ OwnedOnce /\ NoticeInv /\ CondNotices /\ [Next]_vars => NoticeInv' /\ CondNotices'
<1> SUFFICES ASSUME TypeOK, OwnedOnce, NoticeInv, CondNotices, [Next]_vars
             PROVE  NoticeInv' /\ CondNotices'
  OBVIOUS
<1>0. /\ CondKeys \cap EventKeys = {} /\ Poller \in Threads
      /\ {"raised", "repeated", "summary"} \subseteq Transitions
  BY ModelAssumption DEF Threads, Transitions
<1>1. ASSUME NEW t \in Threads, NEW k \in EventKeys, NEW sev \in Severities,
             NEW at \in Dates(t), RaiseRepeat(t, k, sev, at)
      PROVE  NoticeInv' /\ CondNotices'
  <2>1. events[k] \in DOMAIN alerts /\ alerts[events[k]].key = k /\ seen' = seen
    BY <1>1, RepeatFacts
  <2>r. RepeatedAlert(t, k, at)
    BY <1>1, RepeatFacts
  <2>2. PICK a \in AlertRec :
              /\ a.key = k /\ a.active = alerts[events[k]].active /\ a.first = alerts[events[k]].first
              /\ a.count = alerts[events[k]].count + 1 /\ a.last = at
              /\ alerts' = [alerts EXCEPT ![events[k]] = a]
              /\ Collect(t, NoticeOf(events[k], a, "repeated"))
    BY <2>r, Zenon DEF RepeatedAlert
  <2>3. /\ DOMAIN alerts' = DOMAIN alerts
        /\ \A i \in DOMAIN alerts : alerts'[i] = IF i = events[k] THEN a ELSE alerts[i]
    BY <2>1, <2>2, UpdateFacts
  <2>4. events[k] \in IDs /\ DOMAIN alerts' = DOMAIN alerts \cup {events[k]}
    BY <2>1, <2>3, AlertsDomain
  <2> QED  BY <1>0, <2>1, <2>2, <2>3, <2>4, EventNotices
<1>2. ASSUME NEW t \in Threads, NEW k \in EventKeys, NEW sev \in Severities,
             NEW at \in Dates(t), RaiseNew(t, k, sev, at)
      PROVE  NoticeInv' /\ CondNotices'
  <2>1. NewAlert(t, k, at) /\ NextID \in IDs /\ seen' = seen
    BY <1>2, NewFacts
  <2>2. PICK a \in AlertRec :
              /\ a.key = k /\ a.active = FALSE /\ a.first = at /\ a.last = at /\ a.count = 1
              /\ alerts' = Append(alerts, a) /\ Collect(t, NoticeOf(NextID, a, "raised"))
    BY <2>1 DEF NewAlert
  <2>3. /\ DOMAIN alerts' = DOMAIN alerts \cup {NextID}
        /\ \A i \in DOMAIN alerts : alerts'[i] = alerts[i]
        /\ alerts'[NextID] = a
    BY <2>2, AppendFacts
  <2> QED  BY <1>0, <2>1, <2>2, <2>3, EventNotices
<1>3. ASSUME NEW k \in EventKeys, EvalExpire(k) PROVE NoticeInv' /\ CondNotices'
  <2>1. UNCHANGED <<alerts, seen>>
    BY <1>3 DEF EvalExpire
  <2>2. CASE UNCHANGED out
    BY <2>1, <2>2, NoticeSame DEF CondNotices
  <2>3. CASE out' # out
    <3>1. events[k] # 0 /\ Collect(Poller, NoticeOf(events[k], alerts[events[k]], "summary"))
      BY <1>3, <2>3 DEF EvalExpire, Expired
    <3>2. events[k] \in DOMAIN alerts /\ alerts[events[k]].key = k
      BY <3>1, HeldInTable DEF OwnedOnce
    <3>3. events[k] \in IDs /\ alerts[events[k]] \in AlertRec
      BY <3>2, AlertsDomain
    <3> QED  BY <1>0, <2>1, <3>1, <3>2, <3>3, EventNotices
  <2> QED  BY <2>2, <2>3
<1>4. ASSUME NEW k \in CondKeys, Begun(k) \/ Updated(k) \/ Ended(k)
      PROVE  NoticeInv' /\ CondNotices'
  BY <1>4, CondStories
<1>5. CASE Quiet /\ UNCHANGED <<out, seen>>
  BY <1>5 DEF Quiet, NoticeInv, CondNotices
<1>6. ASSUME NEW t \in Threads, Notify(t) PROVE NoticeInv' /\ CondNotices'
  <2>1. NoticeInv'
    BY <1>6, NoticeNotify
  <2>2. /\ Head(out[t]) \in Notice /\ UNCHANGED alerts
        /\ out[t] \in Seq(Notice) /\ out[t] # <<>> /\ out'[t] = Tail(out[t])
        /\ \A u \in Threads \ {t} : out'[u] = out[u]
        /\ \A i \in IDs : seen'[i] = IF Head(out[t]).id = i THEN Head(out[t]).why ELSE seen[i]
        /\ \E p \in DOMAIN out[t] : out[t][p] = Head(out[t])
    BY <1>6, NotifyFacts
  <2>3. ASSUME NEW i \in DOMAIN alerts, alerts[i].key \in CondKeys
        PROVE  Story(out'[Poller], seen'[i], alerts[i].active, i)
    <3>1. Story(out[Poller], seen[i], alerts[i].active, i) /\ i \in IDs
      BY <2>3, AlertsDomain DEF CondNotices
    <3>2. CASE t = Poller
      BY <2>2, <3>1, <3>2, StoryTold
    <3>3. CASE t # Poller
      <4>1. Head(out[t]).id # i
        BY <1>0, <2>2, <2>3, <3>3 DEF NoticeInv
      <4> QED  BY <1>0, <2>2, <3>1, <3>3, <4>1
    <3> QED  BY <3>2, <3>3
  <2> QED  BY <2>1, <2>2, <2>3 DEF CondNotices
<1> QED  BY <1>1, <1>2, <1>3, <1>4, <1>5, <1>6, StepEffects

(* The notices are in order in every reachable state. *)
LEMMA NoticeAlways == Spec => [](TypeOK /\ TableInv /\ NoticeInv /\ CondNotices)
<1>1. Init => NoticeInv /\ CondNotices
  <2> SUFFICES ASSUME Init PROVE NoticeInv /\ CondNotices
    OBVIOUS
  <2>1. DOMAIN alerts = {} /\ \A t \in Threads : DOMAIN out[t] = {}
    BY EmptySeq DEF Init
  <2> QED  BY <2>1 DEF Init, NoticeInv, CondNotices
<1>2. TableInv => OwnedOnce
  BY DEF TableInv
<1> QED  BY <1>1, <1>2, NoticeStep, TableAlways, PTL DEF Spec

(* Engine.notify: once every goroutine has delivered its notices,          *)
(* subscribers know of every alert, of the end of every condition that is  *)
(* over and of the repeats of every window that closed without a           *)
(* successor, for every number of goroutines, keys and alerts.             *)
THEOREM CaughtUp == Spec => []SubscribersCaughtUp
<1>1. TypeOK /\ TableInv /\ NoticeInv /\ CondNotices => SubscribersCaughtUp
  <2> SUFFICES ASSUME TypeOK, TableInv, NoticeInv, CondNotices, \A t \in Threads : out[t] = <<>>,
                      NEW i \in DOMAIN alerts
               PROVE  /\ seen[i] # "none"
                      /\ alerts[i].key \in CondKeys => (seen[i] = "resolved" <=> ~alerts[i].active)
                      /\ alerts[i].key \in EventKeys /\ ~Open(i) /\ alerts[i].count > 1 =>
                           i \in summed
                           \/ \E j \in DOMAIN alerts : j > i /\ alerts[j].key = alerts[i].key
    BY DEF SubscribersCaughtUp
  <2>1. \A t \in Threads : DOMAIN out[t] = {}
    BY EmptySeq
  <2>2. Poller \in Threads /\ alerts[i].active \in BOOLEAN
    BY AlertsDomain DEF Threads, AlertRec
  <2>3. seen[i] # "none"
    BY <2>1 DEF NoticeInv
  <2>4. alerts[i].key \in CondKeys => (seen[i] = "resolved" <=> ~alerts[i].active)
    BY <2>1, <2>2 DEF CondNotices, Story
  <2>5. alerts[i].key \in EventKeys /\ ~Open(i) => events[alerts[i].key] # i
    BY DEF Open
  <2> QED  BY <2>3, <2>4, <2>5 DEF TableInv, WindowInv
<1> QED  BY <1>1, NoticeAlways, PTL

(* Engine.notify runs outside the lock, and still subscribers hear of a    *)
(* condition in the order of its life, for every number of goroutines.     *)
THEOREM ToldInOrder == Spec => CondNoticeOrder
<1> DEFINE A == \A i \in IDs : seen'[i] # seen[i] /\ alerts[i].key \in CondKeys =>
                  \/ seen[i] = "none" /\ seen'[i] = "raised"
                  \/ seen[i] \in {"raised", "escalated"} /\ seen'[i] \in {"escalated", "resolved"}
<1>1. TypeOK /\ TableInv /\ NoticeInv /\ CondNotices /\ [Next]_vars => A
  <2> SUFFICES ASSUME TypeOK, TableInv, NoticeInv, CondNotices, [Next]_vars,
                      NEW i \in IDs, seen'[i] # seen[i], alerts[i].key \in CondKeys
               PROVE  \/ seen[i] = "none" /\ seen'[i] = "raised"
                      \/ seen[i] \in {"raised", "escalated"} /\ seen'[i] \in {"escalated", "resolved"}
    OBVIOUS
  <2>1. \E t \in Threads : Notify(t)
    <3>1. ASSUME NEW u \in Threads, NEW k \in EventKeys, NEW sev \in Severities, NEW at \in Dates(u)
          PROVE  ~RaiseRepeat(u, k, sev, at) /\ ~RaiseNew(u, k, sev, at)
      BY DEF RaiseRepeat, RaiseNew
    <3>2. ASSUME NEW k \in EventKeys PROVE ~EvalExpire(k)
      BY DEF EvalExpire
    <3>3. ASSUME NEW k \in CondKeys PROVE ~(Begun(k) \/ Updated(k) \/ Ended(k))
      BY Zenon DEF Begun, Updated, Ended
    <3> QED  BY <3>1, <3>2, <3>3, StepEffects, Zenon
  <2>2. PICK t \in Threads : Notify(t)
    BY <2>1
  <2>3. /\ out[t] \in Seq(Notice) /\ out[t] # <<>>
        /\ \A j \in IDs : seen'[j] = IF Head(out[t]).id = j THEN Head(out[t]).why ELSE seen[j]
    BY <2>2, NotifyFacts, Zenon
  <2>4. Head(out[t]).id = i /\ seen'[i] = Head(out[t]).why
    BY <2>3
  <2>5. PICK m \in Nat :
             /\ DOMAIN out[t] = 1 .. m + 1 /\ DOMAIN Tail(out[t]) = 1 .. m /\ Head(out[t]) = out[t][1]
             /\ \A p \in 1 .. m : Tail(out[t])[p] = out[t][p + 1]
    BY <2>3, TailNotice
  <2>6. 1 \in 1 .. m + 1 /\ \A q \in 1 .. m + 1 : ~(q < 1)
    OBVIOUS
  <2>7. i \in DOMAIN alerts /\ t = Poller
    BY <2>4, <2>5, <2>6, ModelAssumption DEF NoticeInv
  <2>8. Story(out[t], seen[i], alerts[i].active, i)
    BY <2>7 DEF CondNotices
  <2> DEFINE h == out[t][1]
  <2>9. h.id = i /\ seen'[i] = h.why /\ 1 \in DOMAIN out[t] /\ \A q \in DOMAIN out[t] : ~(q < 1)
    BY <2>4, <2>5, <2>6
  <2>10. /\ seen[i] \in {"none", "raised", "escalated"} /\ h.why \in {"raised", "escalated", "resolved"}
         /\ h.why = "raised" => seen[i] = "none"
         /\ h.why # "raised" => seen[i] # "none"
    BY <2>8, <2>9 DEF Story
  <2> HIDE DEF h
  <2> QED  BY <2>9, <2>10
<1> QED  BY <1>1, NoticeAlways, PTL DEF Spec, CondNoticeOrder
-----------------------------------------------------------------------------
(* The counts.  f is a running count of the occurrences of key k in s. *)
Part(s, k, i) == IF s[i].key = k THEN s[i].count ELSE 0

Tally(f, s, k) ==
  /\ f \in [0 .. Len(s) -> Nat] /\ f[0] = 0
  /\ \A i \in 1 .. Len(s) : f[i] = f[i - 1] + Part(s, k, i)

Tallied(s, k, c) == \E f \in [0 .. Len(s) -> Nat] : Tally(f, s, k) /\ f[Len(s)] = c

TallyInv == \A k \in EventKeys : Tallied(alerts, k, calls[k])

(* A set of numbers that is not empty has a least element. *)
LEMMA LeastNat ==
  ASSUME NEW T \in SUBSET Nat, T # {}
  PROVE  \E m \in T : \A n \in T : m <= n
<1>1. IsWellFoundedOn(OpToRel(<, Nat), Nat)
  BY NatLessThanWellFounded
<1>2. PICK m \in T : \A n \in T : ~(<<n, m>> \in OpToRel(<, Nat))
  BY <1>1, WFMin
<1>3. \A n \in T : ~(n < m)
  BY <1>2 DEF OpToRel
<1> QED  BY <1>3

(* CountOf is what any running count ends with. *)
LEMMA CountIsTally ==
  ASSUME TypeOK, NEW k \in EventKeys, NEW f, Tally(f, alerts, k)
  PROVE  CountOf(k) = f[Len(alerts)]
<1> DEFINE N == Len(alerts)
           R(g) == [i \in 0 .. N |-> IF i = 0 THEN 0
                      ELSE g[i - 1] + (IF alerts[i].key = k THEN alerts[i].count ELSE 0)]
           g == CHOOSE g : g = R(g)
<1>0. N \in Nat /\ DOMAIN alerts = 1 .. N /\ \A i \in 1 .. N : i - 1 \in 0 .. N
  BY AlertsDomain
<1>1. CountOf(k) = g[N]
  BY DEF CountOf
<1>2. f = R(f)
  <2>1. f \in [0 .. N -> Nat] /\ DOMAIN R(f) = 0 .. N
    BY DEF Tally
  <2>2. ASSUME NEW i \in 0 .. N PROVE f[i] = R(f)[i]
    <3>1. CASE i = 0
      BY <2>2, <3>1 DEF Tally
    <3>2. CASE i # 0
      <4>1. i \in 1 .. N
        BY <1>0, <3>2
      <4> QED  BY <3>2, <4>1 DEF Tally, Part
    <3> QED  BY <3>1, <3>2
  <2> HIDE DEF R, N
  <2>3. R(f) = [i \in 0 .. N |-> R(f)[i]]
    BY DEF R
  <2> QED  BY <2>1, <2>2, <2>3
<1>3. g = R(g)
  <2> HIDE DEF R
  <2> QED  BY <1>2
<1>4. \A i \in 0 .. N : g[i] = IF i = 0 THEN 0 ELSE g[i - 1] + Part(alerts, k, i)
  <2> HIDE DEF g, N
  <2> QED  BY <1>3, Zenon DEF R, Part
<1> HIDE DEF g, R, N
<1>5. \A i \in 0 .. N : f[i] = IF i = 0 THEN 0 ELSE f[i - 1] + Part(alerts, k, i)
  BY <1>0 DEF Tally, N
<1> DEFINE T == {i \in 0 .. N : f[i] # g[i]}
<1>6. T = {}
  <2> SUFFICES ASSUME T # {} PROVE FALSE
    OBVIOUS
  <2>1. PICK m \in T : \A n \in T : m <= n
    <3>1. T \in SUBSET Nat
      BY <1>0
    <3> HIDE DEF T
    <3> QED  BY <3>1, LeastNat
  <2>2. m \in 0 .. N /\ f[m] # g[m]
    BY <2>1
  <2>3. m # 0
    BY <1>4, <1>5, <2>2
  <2>4. m - 1 \in 0 .. N /\ ~(m <= m - 1) /\ m \in 1 .. N
    BY <1>0, <2>2, <2>3
  <2>5. m - 1 \notin T
    BY <2>1, <2>4
  <2>6. f[m - 1] = g[m - 1]
    BY <2>4, <2>5
  <2> QED  BY <1>4, <1>5, <2>2, <2>3, <2>6
<1> QED  BY <1>0, <1>1, <1>6 DEF N

(* A table whose alerts have the same parts has the same count. *)
LEMMA TallySame ==
  ASSUME NEW s, NEW s2, NEW k, NEW c, Len(s2) = Len(s), Tallied(s, k, c),
         \A i \in 1 .. Len(s) : Part(s2, k, i) = Part(s, k, i)
  PROVE  Tallied(s2, k, c)
BY DEF Tallied, Tally

(* A new alert adds its own part. *)
LEMMA TallyAppend ==
  ASSUME NEW s, NEW s2, NEW k, NEW c, Tallied(s, k, c), NEW d \in Nat,
         Len(s) \in Nat, Len(s2) = Len(s) + 1, Part(s2, k, Len(s) + 1) = d,
         \A i \in 1 .. Len(s) : Part(s2, k, i) = Part(s, k, i)
  PROVE  Tallied(s2, k, c + d)
<1>0. PICK n \in Nat : n = Len(s)
  OBVIOUS
<1>1. PICK f \in [0 .. n -> Nat] :
           f[0] = 0 /\ f[n] = c /\ \A i \in 1 .. n : f[i] = f[i - 1] + Part(s, k, i)
  BY <1>0 DEF Tallied, Tally
<1> DEFINE g == [i \in 0 .. n + 1 |-> IF i = n + 1 THEN c + d ELSE f[i]]
<1>2. /\ \A i \in 0 .. n + 1 : i = n + 1 \/ i \in 0 .. n
      /\ n \in 0 .. n /\ 0 # n + 1 /\ 0 \in 0 .. n + 1 /\ n + 1 \in 0 .. n + 1
      /\ \A i \in 1 .. n + 1 : i \in 0 .. n + 1 /\ i - 1 \in 0 .. n + 1 /\ i - 1 # n + 1
                               /\ (i = n + 1 \/ i \in 1 .. n)
      /\ (n + 1) - 1 = n
  OBVIOUS
<1>3. c \in Nat
  BY <1>1, <1>2
<1>4. g \in [0 .. n + 1 -> Nat] /\ g[0] = 0 /\ g[n + 1] = c + d
  BY <1>1, <1>2, <1>3
<1>5. ASSUME NEW i \in 1 .. n + 1 PROVE g[i] = g[i - 1] + Part(s2, k, i)
  <2>1. CASE i = n + 1
    <3>1. g[i - 1] = c /\ g[i] = c + d
      BY <1>1, <1>2, <2>1
    <3> QED  BY <1>0, <2>1, <3>1
  <2>2. CASE i \in 1 .. n /\ i # n + 1
    <3>1. g[i - 1] = f[i - 1] /\ g[i] = f[i]
      BY <1>2, <2>2
    <3> HIDE DEF g
    <3> QED  BY <1>0, <1>1, <2>2, <3>1
  <2> QED  BY <1>2, <2>1, <2>2
<1> HIDE DEF g
<1> QED  BY <1>0, <1>4, <1>5, Zenon DEF Tally, Tallied

(* One more occurrence in alert id is one more in the count. *)
LEMMA TallyRepeat ==
  ASSUME NEW s, NEW s2, NEW k, NEW c, Tallied(s, k, c), Len(s) \in Nat, Len(s2) = Len(s),
         NEW id \in 1 .. Len(s), \A i \in 1 .. Len(s) : Part(s, k, i) \in Nat,
         \A i \in 1 .. Len(s) : i # id => Part(s2, k, i) = Part(s, k, i),
         Part(s2, k, id) = Part(s, k, id) + 1
  PROVE  Tallied(s2, k, c + 1)
<1>0. PICK n \in Nat : n = Len(s)
  OBVIOUS
<1>1. PICK f \in [0 .. n -> Nat] :
           f[0] = 0 /\ f[n] = c /\ \A i \in 1 .. n : f[i] = f[i - 1] + Part(s, k, i)
  BY <1>0, Zenon DEF Tallied, Tally
<1> DEFINE g == [i \in 0 .. n |-> IF i < id THEN f[i] ELSE f[i] + 1]
<1>2. g \in [0 .. n -> Nat] /\ g[0] = 0 /\ g[n] = c + 1
  BY <1>0, <1>1
<1>3. ASSUME NEW i \in 1 .. n PROVE g[i] = g[i - 1] + Part(s2, k, i)
  <2>0. /\ i - 1 \in 0 .. n /\ i \in 0 .. n /\ f[i - 1] \in Nat /\ f[i] \in Nat
        /\ Part(s, k, i) \in Nat /\ i \in 1 .. Len(s) /\ id \in 1 .. n
    <3>1. i - 1 \in 0 .. n /\ i \in 0 .. n
      OBVIOUS
    <3>2. i \in 1 .. Len(s) /\ id \in 1 .. n
      BY <1>0
    <3> HIDE DEF g
    <3> QED  BY <1>1, <3>1, <3>2
  <2>1. CASE i < id
    <3>1. g[i - 1] = f[i - 1] /\ g[i] = f[i] /\ Part(s2, k, i) = Part(s, k, i)
      BY <2>0, <2>1
    <3> HIDE DEF g
    <3> QED  BY <1>1, <2>0, <3>1
  <2>2. CASE i = id
    <3>1. g[i - 1] = f[i - 1] /\ g[i] = f[i] + 1 /\ Part(s2, k, i) = Part(s, k, i) + 1
      BY <2>0, <2>2
    <3> HIDE DEF g
    <3> QED  BY <1>1, <2>0, <3>1
  <2>3. CASE i > id
    <3>1. g[i - 1] = f[i - 1] + 1 /\ g[i] = f[i] + 1 /\ Part(s2, k, i) = Part(s, k, i)
      BY <2>0, <2>3
    <3> HIDE DEF g
    <3> QED  BY <1>1, <2>0, <3>1
  <2> QED  BY <2>0, <2>1, <2>2, <2>3
<1> HIDE DEF g
<1> QED  BY <1>0, <1>2, <1>3, Zenon DEF Tally, Tallied

(* The parts of the alerts of a table. *)
LEMMA PartType ==
  ASSUME TypeOK
  PROVE  \A k \in EventKeys : \A i \in 1 .. Len(alerts) : Part(alerts, k, i) \in Nat
BY AlertsDomain DEF Part, AlertRec

(* Tables of one domain have one length. *)
LEMMA OneLength ==
  ASSUME NEW m \in Nat, NEW n \in Nat, 1 .. m = 1 .. n
  PROVE  m = n
<1>1. CASE m < n
  <2>1. n \in 1 .. n /\ n \notin 1 .. m
    BY <1>1
  <2> QED  BY <2>1
<1>2. CASE n < m
  <2>1. m \in 1 .. m /\ m \notin 1 .. n
    BY <1>2
  <2> QED  BY <2>1
<1> QED  BY <1>1, <1>2

(* Every step keeps the counts. *)
LEMMA TallyStep == TypeOK /\ TypeOK' /\ OwnedOnce /\ TallyInv /\ [Next]_vars => TallyInv'
<1> SUFFICES ASSUME TypeOK, TypeOK', OwnedOnce, TallyInv, [Next]_vars PROVE TallyInv'
  OBVIOUS
<1>0. /\ CondKeys \cap EventKeys = {} /\ Len(alerts) \in Nat /\ DOMAIN alerts = 1 .. Len(alerts)
      /\ Len(alerts') \in Nat /\ DOMAIN alerts' = 1 .. Len(alerts')
  BY ModelAssumption, AlertsDomain, LenProperties DEF TypeOK
<1>1. ASSUME DOMAIN alerts' = DOMAIN alerts PROVE Len(alerts') = Len(alerts)
  BY <1>0, <1>1, OneLength, ZenonT(30)
<1>2. ASSUME DOMAIN alerts' = DOMAIN alerts \cup {NextID} PROVE Len(alerts') = Len(alerts) + 1
  <2>0. ASSUME NEW n \in Nat PROVE (1 .. n) \cup {n + 1} = 1 .. n + 1 /\ n + 1 \in Nat
    OBVIOUS
  <2>1. DOMAIN alerts' = 1 .. Len(alerts) + 1 /\ Len(alerts) + 1 \in Nat
    BY <1>0, <1>2, <2>0, Zenon DEF NextID
  <2> QED  BY <1>0, <2>1, OneLength, Zenon
<1>3. ASSUME NEW t \in Threads, NEW k \in EventKeys, NEW sev \in Severities,
             NEW at \in Dates(t), RaiseRepeat(t, k, sev, at)
      PROVE  TallyInv'
  <2>1. events[k] \in DOMAIN alerts /\ alerts[events[k]].key = k
        /\ calls' = [calls EXCEPT ![k] = @ + 1]
    BY <1>3, RepeatFacts, Zenon
  <2>r. RepeatedAlert(t, k, at)
    BY <1>3, RepeatFacts
  <2>2. PICK a \in AlertRec :
              /\ a.key = k /\ a.active = alerts[events[k]].active /\ a.first = alerts[events[k]].first
              /\ a.count = alerts[events[k]].count + 1 /\ a.last = at
              /\ alerts' = [alerts EXCEPT ![events[k]] = a]
              /\ Collect(t, NoticeOf(events[k], a, "repeated"))
    BY <2>r, Zenon DEF RepeatedAlert
  <2>3. /\ DOMAIN alerts' = DOMAIN alerts /\ Len(alerts') = Len(alerts)
        /\ \A i \in DOMAIN alerts : alerts'[i] = IF i = events[k] THEN a ELSE alerts[i]
    BY <1>1, <2>1, <2>2, UpdateFacts
  <2>4. calls'[k] = calls[k] + 1 /\ calls[k] \in Nat /\ \A j \in EventKeys \ {k} : calls'[j] = calls[j]
    BY <2>1 DEF TypeOK
  <2> SUFFICES ASSUME NEW j \in EventKeys PROVE Tallied(alerts', j, calls'[j])
    BY DEF TallyInv
  <2>5. Tallied(alerts, j, calls[j])
    BY DEF TallyInv
  <2>6. CASE j # k
    <3>1. \A i \in 1 .. Len(alerts) : Part(alerts', j, i) = Part(alerts, j, i)
      BY <1>0, <2>1, <2>2, <2>3, <2>6 DEF Part
    <3>2. Tallied(alerts', j, calls[j])
      BY <2>3, <2>5, <3>1, TallySame
    <3> QED  BY <2>4, <2>6, <3>2
  <2>7. CASE j = k
    <3>1. /\ \A i \in 1 .. Len(alerts) : i # events[k] => Part(alerts', k, i) = Part(alerts, k, i)
          /\ Part(alerts', k, events[k]) = Part(alerts, k, events[k]) + 1
      BY <1>0, <2>1, <2>2, <2>3, ZenonT(30) DEF Part
    <3>2. Tallied(alerts', k, calls[k] + 1)
      BY <1>0, <2>1, <2>3, <2>5, <2>7, <3>1, PartType, TallyRepeat
    <3> QED  BY <2>4, <2>7, <3>2
  <2> QED  BY <2>6, <2>7
<1>4. ASSUME NEW t \in Threads, NEW k \in EventKeys, NEW sev \in Severities,
             NEW at \in Dates(t), RaiseNew(t, k, sev, at)
      PROVE  TallyInv'
  <2>1. NewAlert(t, k, at) /\ calls' = [calls EXCEPT ![k] = @ + 1]
    BY <1>4, NewFacts
  <2>2. PICK a \in AlertRec : a.key = k /\ a.count = 1 /\ alerts' = Append(alerts, a)
    BY <2>1 DEF NewAlert
  <2>3. /\ DOMAIN alerts' = DOMAIN alerts \cup {NextID} /\ Len(alerts') = Len(alerts) + 1
        /\ \A i \in DOMAIN alerts : alerts'[i] = alerts[i]
        /\ alerts'[Len(alerts) + 1] = a
    BY <1>2, <2>2, AppendFacts DEF NextID
  <2>4. /\ calls'[k] = calls[k] + 1 /\ \A j \in EventKeys \ {k} : calls'[j] = calls[j]
        /\ \A j \in EventKeys : calls[j] \in Nat
    BY <2>1 DEF TypeOK
  <2> SUFFICES ASSUME NEW j \in EventKeys PROVE Tallied(alerts', j, calls'[j])
    BY DEF TallyInv
  <2>5. Tallied(alerts, j, calls[j])
    BY DEF TallyInv
  <2>6. \A i \in 1 .. Len(alerts) : Part(alerts', j, i) = Part(alerts, j, i)
    BY <1>0, <2>3 DEF Part
  <2>7. CASE j # k
    <3>1. Part(alerts', j, Len(alerts) + 1) = 0 /\ calls'[j] = calls[j] + 0
      BY <2>2, <2>3, <2>4, <2>7 DEF Part
    <3> QED  BY <1>0, <2>3, <2>5, <2>6, <3>1, TallyAppend
  <2>8. CASE j = k
    <3>1. Part(alerts', j, Len(alerts) + 1) = 1 /\ calls'[j] = calls[j] + 1
      BY <2>2, <2>3, <2>4, <2>8 DEF Part
    <3> QED  BY <1>0, <2>3, <2>5, <2>6, <3>1, TallyAppend
  <2> QED  BY <2>7, <2>8
<1>5. ASSUME NEW k \in CondKeys, Begun(k) \/ Updated(k) \/ Ended(k)
      PROVE  TallyInv'
  <2>1. /\ calls' = calls /\ \A i \in DOMAIN alerts : alerts'[i].key = alerts[i].key
        /\ \A i \in DOMAIN alerts : alerts[i].key \in EventKeys => alerts'[i] = alerts[i]
        /\ \A i \in DOMAIN alerts' \ DOMAIN alerts : alerts'[i].key \in CondKeys
    BY <1>5, CondStepEvents
  <2>2. \/ Len(alerts') = Len(alerts)
        \/ Len(alerts') = Len(alerts) + 1 /\ Len(alerts) + 1 \in DOMAIN alerts' \ DOMAIN alerts
    <3>1. CASE Begun(k)
      <4>1. PICK a \in AlertRec : alerts' = Append(alerts, a)
        BY <3>1 DEF Begun
      <4> QED  BY <1>2, <4>1, AppendFacts DEF NextID
    <3>2. CASE Updated(k) \/ Ended(k)
      <4>1. \E a \in AlertRec : alerts' = [alerts EXCEPT ![conds[k].alert] = a]
        BY <3>2 DEF Updated, Ended
      <4> QED  BY <1>1, <4>1, ZenonT(30)
    <3> QED  BY <1>5, <3>1, <3>2
  <2> SUFFICES ASSUME NEW j \in EventKeys PROVE Tallied(alerts', j, calls[j])
    BY <2>1 DEF TallyInv
  <2>3. Tallied(alerts, j, calls[j]) /\ calls[j] \in Nat
    BY DEF TallyInv, TypeOK
  <2>4. \A i \in 1 .. Len(alerts) : Part(alerts', j, i) = Part(alerts, j, i)
    BY <1>0, <2>1 DEF Part
  <2>5. CASE Len(alerts') = Len(alerts)
    BY <2>3, <2>4, <2>5, TallySame
  <2>6. CASE Len(alerts') = Len(alerts) + 1 /\ Len(alerts) + 1 \in DOMAIN alerts' \ DOMAIN alerts
    <3>1. Part(alerts', j, Len(alerts) + 1) = 0 /\ calls[j] = calls[j] + 0
      BY <1>0, <2>1, <2>3, <2>6 DEF Part
    <3> QED  BY <1>0, <2>3, <2>4, <2>6, <3>1, TallyAppend
  <2> QED  BY <2>2, <2>5, <2>6
<1>6. CASE Quiet
  BY <1>6 DEF Quiet, TallyInv
<1>7. ASSUME NEW k \in EventKeys, EvalExpire(k) PROVE TallyInv'
  BY <1>7 DEF EvalExpire, TallyInv
<1> QED  BY <1>3, <1>4, <1>5, <1>6, <1>7, StepEffects

(* Raise: every call is counted in exactly one alert of its key, whatever  *)
(* repeats, replaced windows and expirations follow, for every number of   *)
(* calls and alerts.                                                       *)
THEOREM CallsCounted == Spec => []CountConserved
<1>1. Init => TallyInv
  <2> SUFFICES ASSUME Init, NEW k \in EventKeys
               PROVE  Tallied(alerts, k, calls[k])
    BY DEF TallyInv
  <2>1. Len(alerts) = 0 /\ calls[k] = 0
    BY EmptySeq DEF Init
  <2> DEFINE f == [i \in 0 .. 0 |-> 0]
  <2>2. f \in [0 .. 0 -> Nat] /\ f[0] = 0 /\ 1 .. 0 = {}
    OBVIOUS
  <2> HIDE DEF f
  <2> QED  BY <2>1, <2>2 DEF Tally, Tallied
<1>2. TableInv => OwnedOnce
  BY DEF TableInv
<1>3. TypeOK /\ TallyInv => CountConserved
  BY CountIsTally DEF TallyInv, Tallied, CountConserved
<1> QED  BY <1>1, <1>2, <1>3, TallyStep, TableAlways, PTL DEF Spec
-----------------------------------------------------------------------------
(* A reader changes nothing of the engine. *)
LEMMA ReaderIsEngine == ReaderSpec => Spec
<1>1. ReaderInit => Init
  BY DEF ReaderInit
<1>2. [ReaderNext]_<<vars, view>> => [Next]_vars
  BY DEF ReaderNext, RecentActive, RecentHistory
<1> QED  BY <1>1, <1>2, PTL DEF ReaderSpec, Spec

(* Recent (Active, then the history under a second lock) loses no alert    *)
(* between its two lock sections and returns no past alert twice, for      *)
(* every history limit and every interleaving.                             *)
THEOREM RecentLosesNothing == ReaderSpec => RecentExact
<1> DEFINE A == view.busy /\ ~view'.busy =>
                  /\ Len(history) <= HistoryLimit
                  /\ \A i, j \in DOMAIN history : history[i] = history[j] => i = j
                  /\ \A i \in Past : ~alerts[i].active
                  /\ \A i \in DOMAIN alerts \ (view.ids \cup Past) :
                       i \in Active \/ Len(history) = HistoryLimit
<1>1. TypeOK /\ TableInv => A
  <2> SUFFICES ASSUME TypeOK, TableInv PROVE A
    OBVIOUS
  <2>1. Past = Kept
    BY DEF Past, Kept
  <2>2. ASSUME NEW i \in DOMAIN alerts, alerts[i].active PROVE i \in Active
    <3>1. PICK k \in CondKeys : conds[k].alert = i
      BY <2>2 DEF TableInv, OwnedOnce
    <3> QED  BY <3>1, HeldInTable DEF Active
  <2> QED  BY <2>1, <2>2 DEF TableInv, HistoryInv
<1> QED  BY <1>1, ReaderIsEngine, TableAlways, PTL DEF ReaderSpec, RecentExact
=============================================================================
