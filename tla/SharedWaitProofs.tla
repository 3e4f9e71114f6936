--------------------------- MODULE SharedWaitProofs ---------------------------
(***************************************************************************)
(* SharedWait for any number of sessions, groups, servers and rows: the    *)
(* request queues, the edges of the group slots, whom a wait is for, and,  *)
(* with the theorems of WaitGraphProofs about the search, that deadlocks   *)
(* through the queues are found and victims are in one.                    *)
(***************************************************************************)
EXTENDS SharedWait, FiniteSetTheorems, SequenceTheorems, TLAPS

-----------------------------------------------------------------------------
(* Slots of sessions and groups                                             *)

LEMMA SlotsApart ==
  /\ Session \subseteq Slot
  /\ \A g \in Group : GroupSlot(g) \in Slot /\ GroupSlot(g) \notin Session
<1>1. SessionCount \in Nat \ {0} /\ Cardinality(Group) \in Nat
      /\ Group = 0 .. (Cardinality(Group) - 1)
  BY SharedWaitAssumption, FS_CardinalityType
<1> QED BY <1>1 DEF Session, Slot, GroupSlot

LEMMA GroupOfIs == ASSUME NEW s \in Session PROVE GroupOf[s] \in Group
BY SharedWaitAssumption

LEMMA Resolved ==
  ASSUME TypeOK, NEW s \in Session
  PROVE  /\ ResolveDeadlock(edge, s) \in [Slot -> [Slot -> EdgeValue]]
         /\ \A a \in Slot : a # s => ResolveDeadlock(edge, s)[a] = edge[a]
         /\ \A b \in Slot : ResolveDeadlock(edge, s)[s][b] # Waits
<1>1. s \in Slot /\ edge \in [Slot -> [Slot -> EdgeValue]]
  BY SlotsApart DEF TypeOK
<1>2. Waits # DeadlockEdge /\ DeadlockEdge \in EdgeValue
  BY DEF Waits, DeadlockEdge, EdgeValue
<1>3. ResolveDeadlock(edge, s) = [edge EXCEPT ![s] =
        [u \in Slot |-> IF edge[s][u] = Waits THEN DeadlockEdge ELSE edge[s][u]]]
  BY <1>1 DEF ResolveDeadlock, HasEdge
<1> DEFINE row == [u \in Slot |-> IF edge[s][u] = Waits THEN DeadlockEdge ELSE edge[s][u]]
<1>4. row \in [Slot -> EdgeValue] /\ \A b \in Slot : row[b] # Waits
  BY <1>1, <1>2
<1> HIDE DEF row
<1> QED BY <1>1, <1>3, <1>4 DEF row

\* One entry of the wait table.
LEMMA SetEdge ==
  ASSUME NEW table \in [Slot -> [Slot -> EdgeValue]], NEW a \in Slot, NEW b \in Slot, NEW v \in EdgeValue
  PROVE  /\ [table EXCEPT ![a][b] = v] \in [Slot -> [Slot -> EdgeValue]]
         /\ [table EXCEPT ![a][b] = v][a][b] = v
         /\ \A c, d \in Slot : c # a \/ d # b => [table EXCEPT ![a][b] = v][c][d] = table[c][d]
OBVIOUS

LEMMA AfterWait ==
  ASSUME NEW table \in [Slot -> [Slot -> EdgeValue]], NEW s \in Session, NEW g, g = GroupSlot(GroupOf[s]),
         NEW u \in Session, target[s] = u
  PROVE  /\ EdgesAfterWait(table, s) \in [Slot -> [Slot -> EdgeValue]]
         /\ EdgesAfterWait(table, s)[g][s] = NoEdge /\ EdgesAfterWait(table, s)[s][u] = NoEdge
         /\ \A c, d \in Slot : ~(c = s /\ d = u) /\ ~(c = g /\ d = s) =>
              EdgesAfterWait(table, s)[c][d] = table[c][d]
<1> DEFINE first == [table EXCEPT ![s][u] = NoEdge]
<1>1. s \in Slot /\ u \in Slot /\ g \in Slot /\ NoEdge \in EdgeValue /\ g # s
  BY SlotsApart, GroupOfIs DEF NoEdge, EdgeValue
<1>2. /\ first \in [Slot -> [Slot -> EdgeValue]] /\ first[s][u] = NoEdge
      /\ \A c, d \in Slot : c # s \/ d # u => first[c][d] = table[c][d]
  BY <1>1, SetEdge
<1>3. EdgesAfterWait(table, s) = [first EXCEPT ![g][s] = NoEdge]
  BY DEF EdgesAfterWait
<1> HIDE DEF first
<1>4. /\ [first EXCEPT ![g][s] = NoEdge] \in [Slot -> [Slot -> EdgeValue]]
      /\ [first EXCEPT ![g][s] = NoEdge][g][s] = NoEdge
      /\ \A c, d \in Slot : c # g \/ d # s => [first EXCEPT ![g][s] = NoEdge][c][d] = first[c][d]
  BY <1>1, <1>2, SetEdge
<1> QED BY <1>1, <1>2, <1>3, <1>4

-----------------------------------------------------------------------------
(* The inductive invariant                                                  *)

\* A session whose request is queued is once in the queue of its group, and nobody else is:
\* no request is lost, taken twice or taken by the servers of another group.
QueueExact ==
  /\ \A g \in Group : \A i \in 1 .. Len(queue[g]) :
       stage[queue[g][i]] = "queued" /\ GroupOf[queue[g][i]] = g
  /\ \A g \in Group : \A i, j \in 1 .. Len(queue[g]) : queue[g][i] = queue[g][j] => i = j
  /\ \A s \in Session : stage[s] = "queued" =>
       \E i \in 1 .. Len(queue[GroupOf[s]]) : queue[GroupOf[s]][i] = s

\* A row belongs to an open transaction, and a wait is for one, unless it has been told
\* that it has ended.
EndIsNoticed ==
  /\ \A r \in Rows : owner[r] # NoOne => owner[r] \in open
  /\ \A s \in Session : stage[s] \in Waiting /\ ~gone[s] => target[s] \in open

\* A wait for a transaction that has not ended is in the wait table.
WaitsAreInTable ==
  \A s \in Session : stage[s] \in {"polling", "suspect"} /\ ~gone[s] => HasEdge(edge, s, target[s])

SharedInv == TypeOK /\ QueueExact /\ GroupEdgesExact /\ EndIsNoticed /\ WaitsAreInTable

LEMMA EdgeType == {NoEdge, Waits} \subseteq EdgeValue /\ NoEdge # Waits
BY DEF NoEdge, Waits, EdgeValue

\* A step of s outside the queues.
LEMMA QueueKept ==
  ASSUME TypeOK, QueueExact, NEW s \in Session, queue' = queue, stage[s] # "queued",
         NEW l, l # "queued", stage' = [stage EXCEPT ![s] = l]
  PROVE  QueueExact'
<1>1. stage \in [Session -> Stage] /\ \A g \in Group : queue[g] \in Seq(Session)
  BY DEF TypeOK
<1>2. \A g \in Group : \A i \in 1 .. Len(queue[g]) : queue[g][i] \in Session /\ queue[g][i] # s
  BY <1>1 DEF QueueExact
<1> QED BY <1>1, <1>2 DEF QueueExact

\* A step of s changes what the group edges of s say, and of nobody else.
LEMMA EdgesKept ==
  ASSUME TypeOK, GroupEdgesExact, NEW s \in Session, NEW l, stage' = [stage EXCEPT ![s] = l],
         \A c \in Session \ {s} :
           LET g == GroupSlot(GroupOf[c])
           IN  edge'[c][g] = edge[c][g] /\ edge'[g][c] = edge[g][c] /\ (c \in open' <=> c \in open),
         LET g == GroupSlot(GroupOf[s])
         IN  /\ edge'[s][g] = Waits <=> l \in Asking /\ s \in open'
             /\ edge'[g][s] = Waits <=> l \in Waiting
  PROVE  GroupEdgesExact'
<1>1. stage'[s] = l /\ \A c \in Session \ {s} : stage'[c] = stage[c]
  BY DEF TypeOK
<1> QED BY <1>1 DEF GroupEdgesExact, HasEdge, Asking, Unserved

\* A step of s leaves the waits of the others, and what s waits for, in the table.
LEMMA WaitsKept ==
  ASSUME TypeOK, WaitsAreInTable, NEW s \in Session, NEW l, stage' = [stage EXCEPT ![s] = l],
         \A c \in Session \ {s} : /\ target'[c] = target[c] /\ gone'[c] = gone[c]
                                  /\ \A d \in Session : edge'[c][d] = edge[c][d],
         l \notin {"polling", "suspect"} \/ edge'[s][target'[s]] = Waits
  PROVE  WaitsAreInTable'
<1>1. stage'[s] = l /\ \A c \in Session \ {s} : stage'[c] = stage[c]
  BY DEF TypeOK
<1>2. ASSUME NEW c \in Session \ {s}, stage'[c] \in {"polling", "suspect"}, ~gone'[c]
      PROVE  edge'[c][target'[c]] = Waits
  <2>1. target[c] \in Session
    BY <1>1, <1>2 DEF TypeOK, Waiting
  <2> QED BY <1>1, <1>2, <2>1 DEF WaitsAreInTable, HasEdge
<1> QED BY <1>1, <1>2 DEF WaitsAreInTable, HasEdge

-----------------------------------------------------------------------------
(* The queues                                                               *)

LEMMA AddEdgeStep ==
  ASSUME SharedInv, NEW s \in Session, NEW j \in Rows \cup {"end"}, AddRequestEdge(s, j)
  PROVE  SharedInv'
<1> DEFINE g == GroupSlot(GroupOf[s])
<1>1. /\ TypeOK /\ stage[s] = "client" /\ stage' = [stage EXCEPT ![s] = "sending"]
      /\ edge' = IF s \in open THEN [edge EXCEPT ![s][g] = Waits] ELSE edge
      /\ UNCHANGED <<queue, open, target, gone, owner>>
  BY DEF AddRequestEdge, At, waitVars, SharedInv
<1>2. s \in Slot /\ g \in Slot /\ g \notin Session
  BY GroupOfIs, SlotsApart
<1> HIDE DEF g
<1>3. stage \in [Session -> Stage] /\ edge \in [Slot -> [Slot -> EdgeValue]]
  BY <1>1 DEF TypeOK
<1>4. edge' \in [Slot -> [Slot -> EdgeValue]] /\ \A c, d \in Slot : c # s \/ d # g => edge'[c][d] = edge[c][d]
  BY <1>1, <1>2, <1>3, SetEdge, EdgeType
<1>5. TypeOK'
  <2>1. job' \in [Session -> Rows \cup {"end"}] /\ requests' \in [Session -> Nat]
    BY <1>1 DEF AddRequestEdge, TypeOK
  <2>2. stage' \in [Session -> Stage]
    BY <1>1, <1>3 DEF Stage
  <2>3. \A t \in Session : stage'[t] \in Waiting => target'[t] \in Session \ {t}
    BY <1>1, <1>3 DEF TypeOK, Waiting
  <2> QED BY <1>1, <1>4, <2>1, <2>2, <2>3 DEF TypeOK
<1>6. QueueExact'
  BY <1>1, QueueKept DEF SharedInv
<1>7. GroupEdgesExact'
  <2>1. ASSUME NEW c \in Session \ {s}
        PROVE  /\ edge'[c][GroupSlot(GroupOf[c])] = edge[c][GroupSlot(GroupOf[c])]
               /\ edge'[GroupSlot(GroupOf[c])][c] = edge[GroupSlot(GroupOf[c])][c]
               /\ (c \in open' <=> c \in open)
    BY <1>1, <1>2, <1>4, SlotsApart, GroupOfIs
  <2>2. edge[s][g] # Waits /\ edge[g][s] # Waits
    BY <1>1 DEF g, SharedInv, GroupEdgesExact, HasEdge, Waiting, Asking, Unserved
  <2>3. edge'[g][s] # Waits /\ (edge'[s][g] = Waits <=> s \in open)
    BY <1>1, <1>2, <1>3, <1>4, <2>2
  <2> QED BY <1>1, <2>1, <2>3, EdgesKept DEF g, SharedInv, Waiting, Asking, Unserved
<1>8. EndIsNoticed'
  BY <1>1, <1>3 DEF SharedInv, EndIsNoticed, Waiting
<1>9. WaitsAreInTable'
  <2>1. \A c \in Session \ {s} : \A d \in Session : edge'[c][d] = edge[c][d]
    BY <1>2, <1>4, SlotsApart
  <2> QED BY <1>1, <2>1, WaitsKept DEF SharedInv
<1> QED BY <1>5, <1>6, <1>7, <1>8, <1>9 DEF SharedInv

LEMMA EnqueueStep ==
  ASSUME SharedInv, NEW s \in Session, Enqueue(s)
  PROVE  SharedInv'
<1> DEFINE h == GroupOf[s]
<1>1. /\ TypeOK /\ stage[s] = "sending" /\ stage' = [stage EXCEPT ![s] = "queued"]
      /\ queue' = [queue EXCEPT ![h] = Append(@, s)]
      /\ UNCHANGED <<job, requests, open, target, gone, owner, edge>>
  BY DEF Enqueue, At, clientVars, waitVars, SharedInv
<1>2. h \in Group
  BY GroupOfIs
<1> HIDE DEF h
<1>3. queue \in [Group -> Seq(Session)] /\ stage \in [Session -> Stage]
  BY <1>1 DEF TypeOK
<1>4. /\ queue'[h] \in Seq(Session) /\ Len(queue'[h]) = Len(queue[h]) + 1
      /\ \A i \in 1 .. Len(queue[h]) : queue'[h][i] = queue[h][i]
      /\ queue'[h][Len(queue[h]) + 1] = s
      /\ \A k \in Group \ {h} : queue'[k] = queue[k]
      /\ queue' \in [Group -> Seq(Session)]
  <2>1. queue[h] \in Seq(Session) /\ queue'[h] = Append(queue[h], s)
    BY <1>1, <1>2, <1>3
  <2>2. /\ Append(queue[h], s) \in Seq(Session) /\ Len(Append(queue[h], s)) = Len(queue[h]) + 1
        /\ \A i \in 1 .. Len(queue[h]) : Append(queue[h], s)[i] = queue[h][i]
        /\ Append(queue[h], s)[Len(queue[h]) + 1] = s
    BY <2>1, AppendProperties
  <2>3. \A k \in Group \ {h} : queue'[k] = queue[k]
    BY <1>1, <1>3
  <2>4. queue' \in [Group -> Seq(Session)]
    BY <1>1, <1>3, <2>1, <2>2
  <2> QED BY <2>1, <2>2, <2>3, <2>4
<1>5. TypeOK'
  <2>1. stage' \in [Session -> Stage]
    BY <1>1, <1>3 DEF Stage
  <2>2. \A t \in Session : stage'[t] \in Waiting => target'[t] \in Session \ {t}
    BY <1>1, <1>3 DEF TypeOK, Waiting
  <2> QED BY <1>1, <1>4, <2>1, <2>2 DEF TypeOK
<1>6. QueueExact'
  <2>1. \A k \in Group : Len(queue[k]) \in Nat /\ \A i \in 1 .. Len(queue[k]) :
          queue[k][i] \in Session /\ queue[k][i] # s /\ stage[queue[k][i]] = "queued" /\ GroupOf[queue[k][i]] = k
    BY <1>1, <1>3 DEF SharedInv, QueueExact
  <2>2. ASSUME NEW k \in Group, NEW i \in 1 .. Len(queue'[k])
        PROVE  stage'[queue'[k][i]] = "queued" /\ GroupOf[queue'[k][i]] = k
    <3>1. CASE k = h /\ i = Len(queue[h]) + 1
      BY <1>1, <1>3, <1>4, <3>1 DEF h
    <3>2. CASE ~(k = h /\ i = Len(queue[h]) + 1)
      <4>1. i \in 1 .. Len(queue[k]) /\ queue'[k][i] = queue[k][i]
        BY <1>2, <1>4, <2>1, <2>2, <3>2
      <4> QED BY <1>1, <1>3, <2>1, <4>1
    <3> QED BY <3>1, <3>2
  <2>3. ASSUME NEW k \in Group, NEW i \in 1 .. Len(queue'[k]), NEW n \in 1 .. Len(queue'[k]),
               queue'[k][i] = queue'[k][n]
        PROVE  i = n
    <3>1. CASE k # h
      BY <1>4, <2>3, <3>1 DEF SharedInv, QueueExact
    <3>2. CASE k = h
      <4>1. \A m \in 1 .. Len(queue'[h]) : m # Len(queue[h]) + 1 =>
              m \in 1 .. Len(queue[h]) /\ queue'[h][m] = queue[h][m] /\ queue[h][m] # s
        BY <1>2, <1>4, <2>1
      <4>2. \A m, l \in 1 .. Len(queue[h]) : queue[h][m] = queue[h][l] => m = l
        BY <1>2 DEF SharedInv, QueueExact
      <4> QED BY <1>4, <2>3, <3>2, <4>1, <4>2
    <3> QED BY <3>1, <3>2
  <2>4. ASSUME NEW t \in Session, stage'[t] = "queued"
        PROVE  \E i \in 1 .. Len(queue'[GroupOf[t]]) : queue'[GroupOf[t]][i] = t
    <3>1. CASE t = s
      <4>1. Len(queue'[h]) \in 1 .. Len(queue'[h]) /\ queue'[h][Len(queue'[h])] = s
        BY <1>2, <1>4, <2>1
      <4> QED BY <3>1, <4>1 DEF h
    <3>2. CASE t # s
      <4>1. stage[t] = "queued" /\ GroupOf[t] \in Group
        BY <1>1, <1>3, <2>4, <3>2, GroupOfIs
      <4>2. PICK i \in 1 .. Len(queue[GroupOf[t]]) : queue[GroupOf[t]][i] = t
        BY <4>1 DEF SharedInv, QueueExact
      <4>3. i \in 1 .. Len(queue'[GroupOf[t]]) /\ queue'[GroupOf[t]][i] = t
        <5>1. CASE GroupOf[t] = h
          <6>1. Len(queue[h]) \in Nat /\ i \in 1 .. Len(queue[h]) /\ queue[h][i] = t
            BY <1>2, <2>1, <4>2, <5>1
          <6> QED BY <1>4, <5>1, <6>1
        <5>2. CASE GroupOf[t] # h
          <6>1. queue'[GroupOf[t]] = queue[GroupOf[t]]
            BY <1>4, <4>1, <5>2
          <6> QED BY <4>2, <6>1
        <5> QED BY <5>1, <5>2
      <4> QED BY <4>3
    <3> QED BY <3>1, <3>2
  <2> QED BY <2>2, <2>3, <2>4 DEF QueueExact
<1>7. GroupEdgesExact'
  BY <1>1, <1>3 DEF SharedInv, GroupEdgesExact, Asking, Unserved, Waiting, HasEdge
<1>8. EndIsNoticed'
  BY <1>1, <1>3 DEF SharedInv, EndIsNoticed, Waiting
<1>9. WaitsAreInTable'
  BY <1>1, WaitsKept DEF SharedInv
<1> QED BY <1>5, <1>6, <1>7, <1>8, <1>9 DEF SharedInv

LEMMA DequeueStep ==
  ASSUME SharedInv, NEW h \in Group, Dequeue(h)
  PROVE  SharedInv'
<1> DEFINE s == Head(queue[h])
<1>1. /\ TypeOK /\ queue[h] # << >> /\ stage' = [stage EXCEPT ![s] = "taken"]
      /\ queue' = [queue EXCEPT ![h] = Tail(@)]
      /\ UNCHANGED <<job, requests, open, target, gone, owner, edge>>
  BY DEF Dequeue, At, clientVars, waitVars, SharedInv
<1>2. queue \in [Group -> Seq(Session)] /\ stage \in [Session -> Stage]
  BY <1>1 DEF TypeOK
<1>3. /\ Len(queue[h]) \in Nat \ {0} /\ s = queue[h][1] /\ s \in Session
      /\ Tail(queue[h]) \in Seq(Session) /\ Len(Tail(queue[h])) = Len(queue[h]) - 1
      /\ \A i \in 1 .. Len(Tail(queue[h])) : Tail(queue[h])[i] = queue[h][i + 1]
  <2>1. queue[h] \in Seq(Session)
    BY <1>2
  <2> QED BY <1>1, <2>1, HeadTailProperties
<1>4. /\ queue' \in [Group -> Seq(Session)] /\ Len(queue'[h]) = Len(queue[h]) - 1
      /\ \A i \in 1 .. Len(queue'[h]) : queue'[h][i] = queue[h][i + 1]
      /\ \A k \in Group \ {h} : queue'[k] = queue[k]
  <2>1. queue'[h] = Tail(queue[h]) /\ \A k \in Group \ {h} : queue'[k] = queue[k]
    BY <1>1, <1>2
  <2>2. queue' \in [Group -> Seq(Session)]
    BY <1>1, <1>2, <1>3
  <2> QED BY <1>3, <2>1, <2>2
<1>5. stage[s] = "queued" /\ GroupOf[s] = h
  BY <1>3 DEF SharedInv, QueueExact
<1> HIDE DEF s
<1>6. TypeOK'
  <2>1. stage' \in [Session -> Stage]
    BY <1>1, <1>2 DEF Stage
  <2>2. \A t \in Session : stage'[t] \in Waiting => target'[t] \in Session \ {t}
    BY <1>1, <1>2 DEF TypeOK, Waiting
  <2> QED BY <1>1, <1>4, <2>1, <2>2 DEF TypeOK
<1>7. QueueExact'
  <2>1. \A k \in Group : Len(queue[k]) \in Nat /\ \A i \in 1 .. Len(queue[k]) :
          queue[k][i] \in Session /\ stage[queue[k][i]] = "queued" /\ GroupOf[queue[k][i]] = k
    BY <1>2 DEF SharedInv, QueueExact
  <2>2. \A k \in Group : \A i, n \in 1 .. Len(queue[k]) : queue[k][i] = queue[k][n] => i = n
    BY DEF SharedInv, QueueExact
  <2>3. ASSUME NEW k \in Group, NEW i \in 1 .. Len(queue'[k])
        PROVE  queue'[k][i] # s /\ \E m \in 1 .. Len(queue[k]) : queue'[k][i] = queue[k][m]
    <3>1. CASE k = h
      <4>1. i + 1 \in 1 .. Len(queue[h]) /\ i + 1 # 1 /\ 1 \in 1 .. Len(queue[h]) /\ queue'[h][i] = queue[h][i + 1]
        BY <1>3, <1>4, <2>3, <3>1
      <4>2. queue[h][i + 1] # s
        BY <1>3, <2>2, <4>1
      <4> QED BY <3>1, <4>1, <4>2
    <3>2. CASE k # h
      BY <1>4, <1>5, <2>1, <2>3, <3>2
    <3> QED BY <3>1, <3>2
  <2>4. ASSUME NEW k \in Group, NEW i \in 1 .. Len(queue'[k])
        PROVE  stage'[queue'[k][i]] = "queued" /\ GroupOf[queue'[k][i]] = k
    <3>1. PICK m \in 1 .. Len(queue[k]) : queue'[k][i] = queue[k][m]
      BY <2>3
    <3>2. /\ queue[k][m] \in Session /\ stage[queue[k][m]] = "queued" /\ GroupOf[queue[k][m]] = k
          /\ queue[k][m] # s
      BY <2>1, <2>3, <3>1
    <3> QED BY <1>1, <1>2, <3>1, <3>2
  <2>5. ASSUME NEW k \in Group, NEW i \in 1 .. Len(queue'[k]), NEW n \in 1 .. Len(queue'[k]),
               queue'[k][i] = queue'[k][n]
        PROVE  i = n
    <3>1. CASE k # h
      BY <1>4, <2>2, <2>5, <3>1
    <3>2. CASE k = h
      <4>1. /\ i + 1 \in 1 .. Len(queue[h]) /\ n + 1 \in 1 .. Len(queue[h]) /\ i \in Nat /\ n \in Nat
            /\ queue[h][i + 1] = queue[h][n + 1]
        <5>1. Len(queue'[h]) = Len(queue[h]) - 1 /\ Len(queue[h]) \in Nat \ {0}
          BY <1>3, <1>4
        <5>2. i \in 1 .. Len(queue'[h]) /\ n \in 1 .. Len(queue'[h]) /\ queue'[h][i] = queue'[h][n]
          BY <2>5, <3>2
        <5>3. queue'[h][i] = queue[h][i + 1] /\ queue'[h][n] = queue[h][n + 1]
          BY <1>4, <5>2
        <5>4. i \in Nat /\ n \in Nat /\ i >= 1 /\ n >= 1 /\ i <= Len(queue[h]) - 1 /\ n <= Len(queue[h]) - 1
          BY <5>1, <5>2
        <5>5. i + 1 \in 1 .. Len(queue[h]) /\ n + 1 \in 1 .. Len(queue[h])
          BY <5>1, <5>4
        <5> QED BY <5>2, <5>3, <5>4, <5>5
      <4>2. i + 1 = n + 1
        BY <2>2, <4>1
      <4> QED BY <4>1, <4>2
    <3> QED BY <3>1, <3>2
  <2>6. ASSUME NEW t \in Session, stage'[t] = "queued"
        PROVE  \E i \in 1 .. Len(queue'[GroupOf[t]]) : queue'[GroupOf[t]][i] = t
    <3>1. t # s /\ stage[t] = "queued" /\ GroupOf[t] \in Group
      BY <1>1, <1>2, <1>3, <2>6, GroupOfIs
    <3>2. PICK m \in 1 .. Len(queue[GroupOf[t]]) : queue[GroupOf[t]][m] = t
      BY <3>1 DEF SharedInv, QueueExact
    <3>3. CASE GroupOf[t] = h
      <4>1. m # 1 /\ m \in Nat
        BY <1>3, <3>1, <3>2, <3>3
      <4>2. m - 1 \in 1 .. Len(queue'[h]) /\ queue'[h][m - 1] = queue[h][m]
        BY <1>3, <1>4, <3>2, <3>3, <4>1
      <4> QED BY <3>2, <3>3, <4>2
    <3>4. CASE GroupOf[t] # h
      BY <1>4, <3>1, <3>2, <3>4
    <3> QED BY <3>3, <3>4
  <2> QED BY <2>4, <2>5, <2>6 DEF QueueExact
<1>8. GroupEdgesExact'
  BY <1>1, <1>2, <1>3, <1>5 DEF SharedInv, GroupEdgesExact, Asking, Unserved, Waiting, HasEdge
<1>9. EndIsNoticed'
  BY <1>1, <1>2, <1>3 DEF SharedInv, EndIsNoticed, Waiting
<1>10. WaitsAreInTable'
  BY <1>1, <1>3, WaitsKept DEF SharedInv
<1> QED BY <1>6, <1>7, <1>8, <1>9, <1>10 DEF SharedInv

\* Only here does the edge of a request go.
LEMMA RemoveEdgeStep ==
  ASSUME SharedInv, NEW s \in Session, RemoveRequestEdge(s)
  PROVE  SharedInv'
<1> DEFINE g == GroupSlot(GroupOf[s])
<1>1. /\ TypeOK /\ stage[s] = "taken" /\ stage' = [stage EXCEPT ![s] = "served"]
      /\ edge' = IF s \in open THEN [edge EXCEPT ![s][g] = NoEdge] ELSE edge
      /\ UNCHANGED <<queue, job, requests, open, target, gone, owner>>
  BY DEF RemoveRequestEdge, At, clientVars, waitVars, SharedInv
<1>2. s \in Slot /\ g \in Slot /\ g \notin Session
  BY GroupOfIs, SlotsApart
<1> HIDE DEF g
<1>3. stage \in [Session -> Stage] /\ edge \in [Slot -> [Slot -> EdgeValue]]
  BY <1>1 DEF TypeOK
<1>4. edge' \in [Slot -> [Slot -> EdgeValue]] /\ \A c, d \in Slot : c # s \/ d # g => edge'[c][d] = edge[c][d]
  BY <1>1, <1>2, <1>3, SetEdge, EdgeType
<1>5. TypeOK'
  <2>1. stage' \in [Session -> Stage]
    BY <1>1, <1>3 DEF Stage
  <2>2. \A t \in Session : stage'[t] \in Waiting => target'[t] \in Session \ {t}
    BY <1>1, <1>3 DEF TypeOK, Waiting
  <2> QED BY <1>1, <1>4, <2>1, <2>2 DEF TypeOK
<1>6. QueueExact'
  BY <1>1, QueueKept DEF SharedInv
<1>7. GroupEdgesExact'
  <2>1. ASSUME NEW c \in Session \ {s}
        PROVE  /\ edge'[c][GroupSlot(GroupOf[c])] = edge[c][GroupSlot(GroupOf[c])]
               /\ edge'[GroupSlot(GroupOf[c])][c] = edge[GroupSlot(GroupOf[c])][c]
               /\ (c \in open' <=> c \in open)
    BY <1>1, <1>2, <1>4, SlotsApart, GroupOfIs
  <2>2. (edge[s][g] = Waits <=> s \in open) /\ edge[g][s] # Waits
    BY <1>1 DEF g, SharedInv, GroupEdgesExact, HasEdge, Waiting, Asking, Unserved
  <2>3. edge'[g][s] # Waits /\ edge'[s][g] # Waits
    <3>1. edge'[g][s] = edge[g][s]
      BY <1>2, <1>4
    <3>2. CASE s \in open
      <4>1. edge'[s][g] = NoEdge
        <5>1. edge' = [edge EXCEPT ![s][g] = NoEdge]
          BY <1>1, <3>2
        <5> QED BY <1>2, <1>3, <5>1, EdgeType
      <4> QED BY <2>2, <3>1, <4>1, EdgeType
    <3>3. CASE s \notin open
      BY <1>1, <2>2, <3>1, <3>3
    <3> QED BY <3>2, <3>3
  <2> QED BY <1>1, <2>1, <2>3, EdgesKept DEF g, SharedInv, Waiting, Asking, Unserved
<1>8. EndIsNoticed'
  BY <1>1, <1>3 DEF SharedInv, EndIsNoticed, Waiting
<1>9. WaitsAreInTable'
  <2>1. \A c \in Session \ {s} : \A d \in Session : edge'[c][d] = edge[c][d]
    BY <1>2, <1>4, SlotsApart
  <2> QED BY <1>1, <2>1, WaitsKept DEF SharedInv
<1> QED BY <1>5, <1>6, <1>7, <1>8, <1>9 DEF SharedInv

-----------------------------------------------------------------------------
(* The servers                                                              *)

LEMMA ChangeStep ==
  ASSUME SharedInv, NEW s \in Session, Change(s)
  PROVE  SharedInv'
<1>1. /\ TypeOK /\ stage[s] = "served" /\ stage' = [stage EXCEPT ![s] = "client"]
      /\ job[s] \in Rows /\ owner' = [owner EXCEPT ![job[s]] = s] /\ open' = open \cup {s}
      /\ job' = [job EXCEPT ![s] = "end"] /\ UNCHANGED <<queue, requests, target, gone, edge>>
  BY DEF Change, At, waitVars, SharedInv
<1>2. /\ stage \in [Session -> Stage] /\ owner \in [Rows -> Session \cup {NoOne}] /\ open \in SUBSET Session
      /\ job \in [Session -> Rows \cup {"end"}]
  BY <1>1 DEF TypeOK
<1>3. TypeOK'
  <2>1. /\ stage' \in [Session -> Stage] /\ owner' \in [Rows -> Session \cup {NoOne}] /\ open' \in SUBSET Session
        /\ job' \in [Session -> Rows \cup {"end"}]
    BY <1>1, <1>2 DEF Stage
  <2>2. \A t \in Session : stage'[t] \in Waiting => target'[t] \in Session \ {t}
    BY <1>1, <1>2 DEF TypeOK, Waiting
  <2> QED BY <1>1, <2>1, <2>2 DEF TypeOK
<1>4. QueueExact'
  BY <1>1, QueueKept DEF SharedInv
<1>5. GroupEdgesExact'
  BY <1>1, <1>2 DEF SharedInv, GroupEdgesExact, Waiting, HasEdge, Asking, Unserved
<1>6. EndIsNoticed'
  BY <1>1, <1>2 DEF SharedInv, EndIsNoticed, Waiting
<1>7. WaitsAreInTable'
  BY <1>1, WaitsKept DEF SharedInv
<1> QED BY <1>3, <1>4, <1>5, <1>6, <1>7 DEF SharedInv

LEMMA EnterGroupStep ==
  ASSUME SharedInv, NEW s \in Session, EnterGroup(s)
  PROVE  SharedInv'
<1> DEFINE g == GroupSlot(GroupOf[s])
           u == owner[job[s]]
<1>1. /\ TypeOK /\ stage[s] = "served" /\ stage' = [stage EXCEPT ![s] = "grouped"]
      /\ job[s] \in Rows /\ u \notin {s, NoOne} /\ target' = [target EXCEPT ![s] = u]
      /\ gone' = [gone EXCEPT ![s] = FALSE] /\ open' = open \cup {s}
      /\ edge' = [edge EXCEPT ![g][s] = Waits]
      /\ UNCHANGED <<queue, job, requests, owner>>
  BY DEF EnterGroup, At, clientVars, SharedInv
<1>2. /\ stage \in [Session -> Stage] /\ owner \in [Rows -> Session \cup {NoOne}] /\ open \in SUBSET Session
      /\ target \in [Session -> Session \cup {NoOne}] /\ gone \in [Session -> BOOLEAN]
      /\ edge \in [Slot -> [Slot -> EdgeValue]]
  BY <1>1 DEF TypeOK
<1>3. u \in Session \ {s} /\ u \in open
  BY <1>1, <1>2 DEF SharedInv, EndIsNoticed
<1>4. s \in Slot /\ g \in Slot /\ g \notin Session
  BY GroupOfIs, SlotsApart
<1> HIDE DEF g, u
<1>5. /\ edge' \in [Slot -> [Slot -> EdgeValue]] /\ edge'[g][s] = Waits
      /\ \A c, d \in Slot : c # g \/ d # s => edge'[c][d] = edge[c][d]
  BY <1>1, <1>2, <1>4, SetEdge, EdgeType
<1>6. TypeOK'
  <2>1. /\ stage' \in [Session -> Stage] /\ open' \in SUBSET Session
        /\ target' \in [Session -> Session \cup {NoOne}] /\ gone' \in [Session -> BOOLEAN]
    BY <1>1, <1>2, <1>3 DEF Stage
  <2>2. \A t \in Session : stage'[t] \in Waiting => target'[t] \in Session \ {t}
    BY <1>1, <1>2, <1>3 DEF TypeOK
  <2> QED BY <1>1, <1>5, <2>1, <2>2 DEF TypeOK
<1>7. QueueExact'
  BY <1>1, QueueKept DEF SharedInv
<1>8. GroupEdgesExact'
  <2>1. ASSUME NEW c \in Session \ {s}
        PROVE  /\ edge'[c][GroupSlot(GroupOf[c])] = edge[c][GroupSlot(GroupOf[c])]
               /\ edge'[GroupSlot(GroupOf[c])][c] = edge[GroupSlot(GroupOf[c])][c]
               /\ (c \in open' <=> c \in open)
    BY <1>1, <1>4, <1>5, SlotsApart, GroupOfIs
  <2>2. edge[s][g] # Waits
    BY <1>1 DEF g, SharedInv, GroupEdgesExact, HasEdge, Asking, Unserved
  <2>3. edge'[s][g] # Waits
    BY <1>4, <1>5, <2>2
  <2> QED BY <1>1, <1>5, <2>1, <2>3, EdgesKept DEF g, SharedInv, Waiting, Asking, Unserved
<1>9. EndIsNoticed'
  BY <1>1, <1>2, <1>3 DEF SharedInv, EndIsNoticed
<1>10. WaitsAreInTable'
  <2>1. \A c \in Session \ {s} : /\ target'[c] = target[c] /\ gone'[c] = gone[c]
                                  /\ \A d \in Session : edge'[c][d] = edge[c][d]
    BY <1>1, <1>2, <1>4, <1>5, SlotsApart
  <2> QED BY <1>1, <2>1, WaitsKept DEF SharedInv
<1> QED BY <1>6, <1>7, <1>8, <1>9, <1>10 DEF SharedInv

LEMMA EnterWaitStep ==
  ASSUME SharedInv, NEW s \in Session, EnterWait(s)
  PROVE  SharedInv'
<1> DEFINE g == GroupSlot(GroupOf[s])
           u == target[s]
<1>1. /\ TypeOK /\ stage[s] = "grouped" /\ stage' = [stage EXCEPT ![s] = "polling"]
      /\ edge' = [edge EXCEPT ![s][u] = Waits]
      /\ UNCHANGED <<queue, job, requests, open, target, gone, owner>>
  BY DEF EnterWait, At, clientVars, waitVars, SharedInv
<1>2. stage \in [Session -> Stage] /\ edge \in [Slot -> [Slot -> EdgeValue]] /\ u \in Session \ {s}
  BY <1>1 DEF TypeOK, Waiting
<1>3. s \in Slot /\ u \in Slot /\ g \in Slot /\ g \notin Session
  BY <1>2, GroupOfIs, SlotsApart
<1> HIDE DEF g, u
<1>4. /\ edge' \in [Slot -> [Slot -> EdgeValue]]
      /\ \A c, d \in Slot : c # s \/ d # u => edge'[c][d] = edge[c][d]
  BY <1>1, <1>2, <1>3, SetEdge, EdgeType
<1>5. TypeOK'
  <2>1. stage' \in [Session -> Stage]
    BY <1>1, <1>2 DEF Stage
  <2>2. \A t \in Session : stage'[t] \in Waiting => target'[t] \in Session \ {t}
    BY <1>1, <1>2 DEF TypeOK, Waiting
  <2> QED BY <1>1, <1>4, <2>1, <2>2 DEF TypeOK
<1>6. QueueExact'
  BY <1>1, QueueKept DEF SharedInv
<1>7. GroupEdgesExact'
  <2>1. ASSUME NEW c \in Session \ {s}
        PROVE  /\ edge'[c][GroupSlot(GroupOf[c])] = edge[c][GroupSlot(GroupOf[c])]
               /\ edge'[GroupSlot(GroupOf[c])][c] = edge[GroupSlot(GroupOf[c])][c]
               /\ (c \in open' <=> c \in open)
    BY <1>1, <1>4, SlotsApart, GroupOfIs
  <2>2. edge[s][g] # Waits /\ edge[g][s] = Waits
    BY <1>1 DEF g, SharedInv, GroupEdgesExact, HasEdge, Waiting, Asking, Unserved
  <2>3. edge'[s][g] # Waits /\ edge'[g][s] = Waits
    BY <1>2, <1>3, <1>4, <2>2
  <2> QED BY <1>1, <2>1, <2>3, EdgesKept DEF g, SharedInv, Waiting, Asking, Unserved
<1>8. EndIsNoticed'
  BY <1>1, <1>2 DEF SharedInv, EndIsNoticed, Waiting
<1>9. WaitsAreInTable'
  <2>1. \A c \in Session \ {s} : \A d \in Session : edge'[c][d] = edge[c][d]
    BY <1>3, <1>4, SlotsApart
  <2>2. edge'[s][target'[s]] = Waits
    BY <1>1, <1>2, <1>3 DEF u
  <2> QED BY <1>1, <2>1, <2>2, WaitsKept DEF SharedInv
<1> QED BY <1>5, <1>6, <1>7, <1>8, <1>9 DEF SharedInv

\* The end of a wait, good or bad.
LEMMA LeaveStep ==
  ASSUME SharedInv, NEW s \in Session, stage[s] \in Waiting,
         NEW l \in {"served", "client"}, stage' = [stage EXCEPT ![s] = l],
         NEW table \in [Slot -> [Slot -> EdgeValue]], edge' = EdgesAfterWait(table, s),
         \A a \in Slot : a # s => table[a] = edge[a],
         \A b \in Slot : table[s][b] = Waits => edge[s][b] = Waits,
         Forget(s), job' \in [Session -> Rows \cup {"end"}], UNCHANGED <<queue, requests, open, owner>>
  PROVE  SharedInv'
<1> DEFINE g == GroupSlot(GroupOf[s])
           u == target[s]
<1>1. TypeOK /\ stage \in [Session -> Stage] /\ u \in Session \ {s}
  BY DEF SharedInv, TypeOK, Waiting
<1>2. /\ target' \in [Session -> Session \cup {NoOne}] /\ gone' \in [Session -> BOOLEAN]
      /\ \A c \in Session \ {s} : target'[c] = target[c] /\ gone'[c] = gone[c]
  BY <1>1 DEF Forget, TypeOK
<1>3. stage'[s] = l /\ \A c \in Session \ {s} : stage'[c] = stage[c]
  BY <1>1
<1>4. s \in Slot /\ u \in Slot /\ g \in Slot /\ g \notin Session
  BY <1>1, GroupOfIs, SlotsApart
<1>5. /\ edge' \in [Slot -> [Slot -> EdgeValue]] /\ edge'[g][s] = NoEdge
      /\ \A c, d \in Slot : ~(c = s /\ d = u) /\ ~(c = g /\ d = s) => edge'[c][d] = table[c][d]
  BY <1>1, AfterWait
<1> HIDE DEF g, u
<1>6. TypeOK'
  <2>1. stage' \in [Session -> Stage]
    BY <1>1 DEF Stage
  <2>2. \A t \in Session : stage'[t] \in Waiting => target'[t] \in Session \ {t}
    BY <1>1, <1>2, <1>3 DEF TypeOK, Waiting
  <2> QED BY <1>1, <1>2, <1>5, <2>1, <2>2 DEF TypeOK
<1>7. QueueExact'
  BY <1>1, QueueKept DEF SharedInv, Waiting
<1>8. GroupEdgesExact'
  <2>1. ASSUME NEW c \in Session \ {s}
        PROVE  /\ edge'[c][GroupSlot(GroupOf[c])] = edge[c][GroupSlot(GroupOf[c])]
               /\ edge'[GroupSlot(GroupOf[c])][c] = edge[GroupSlot(GroupOf[c])][c]
               /\ (c \in open' <=> c \in open)
    <3>1. c \in Slot /\ GroupSlot(GroupOf[c]) \in Slot /\ GroupSlot(GroupOf[c]) \notin Session
      BY SlotsApart, GroupOfIs
    <3> QED BY <1>4, <1>5, <3>1
  <2>2. edge[s][g] # Waits
    BY DEF g, SharedInv, GroupEdgesExact, HasEdge, Waiting, Asking, Unserved
  <2>3. edge'[s][g] # Waits /\ edge'[g][s] # Waits
    BY <1>1, <1>4, <1>5, <2>2, EdgeType
  <2> QED BY <1>1, <2>1, <2>3, EdgesKept DEF g, SharedInv, Waiting, Asking, Unserved
<1>9. EndIsNoticed'
  BY <1>2, <1>3 DEF SharedInv, EndIsNoticed, Waiting
<1>10. WaitsAreInTable'
  <2>1. \A c \in Session \ {s} : \A d \in Session : edge'[c][d] = edge[c][d]
    <3>1. \A c \in Session \ {s} : \A d \in Session : edge'[c][d] = table[c][d]
      BY <1>4, <1>5, SlotsApart
    <3>2. \A c \in Session \ {s} : table[c] = edge[c]
      BY SlotsApart
    <3> QED BY <3>1, <3>2
  <2> QED BY <1>1, <1>2, <2>1, WaitsKept DEF SharedInv
<1> QED BY <1>6, <1>7, <1>8, <1>9, <1>10 DEF SharedInv

LEMMA DoneStep ==
  ASSUME SharedInv, NEW s \in Session, Done(s)
  PROVE  SharedInv'
<1>1. edge \in [Slot -> [Slot -> EdgeValue]] /\ job \in [Session -> Rows \cup {"end"}]
  BY DEF SharedInv, TypeOK
<1> QED BY <1>1, LeaveStep DEF Done, At, Waiting, clientVars

\* A step that moves s between the stages of its wait.
LEMMA MoveStep ==
  ASSUME SharedInv, NEW s \in Session, stage[s] \in {"polling", "suspect"}, NEW l \in {"polling", "suspect"},
         stage' = [stage EXCEPT ![s] = l],
         UNCHANGED <<queue, job, requests, open, target, gone, owner, edge>>
  PROVE  SharedInv'
<1>1. TypeOK /\ stage \in [Session -> Stage]
  BY DEF SharedInv, TypeOK
<1>2. stage'[s] \in {"polling", "suspect"} /\ \A t \in Session \ {s} : stage'[t] = stage[t]
  BY <1>1
<1>3. TypeOK'
  <2>1. stage' \in [Session -> Stage]
    BY <1>1 DEF Stage, Waiting
  <2>2. \A t \in Session : stage'[t] \in Waiting => target'[t] \in Session \ {t}
    BY <1>1, <1>2 DEF TypeOK, Waiting
  <2> QED BY <1>1, <2>1, <2>2 DEF TypeOK
<1>4. QueueExact'
  BY <1>1, QueueKept DEF SharedInv, Waiting
<1>5. GroupEdgesExact'
  BY <1>2 DEF SharedInv, GroupEdgesExact, HasEdge, Waiting, Asking, Unserved
<1>6. EndIsNoticed'
  BY <1>2 DEF SharedInv, EndIsNoticed, Waiting
<1>7. WaitsAreInTable'
  BY <1>2 DEF SharedInv, WaitsAreInTable, HasEdge
<1> QED BY <1>3, <1>4, <1>5, <1>6, <1>7 DEF SharedInv

LEMMA ConfirmStep ==
  ASSUME SharedInv, NEW s \in Session, Confirm(s)
  PROVE  SharedInv'
<1>1. /\ stage[s] = "suspect" /\ UNCHANGED <<queue, requests, open, owner>>
      /\ job \in [Session -> Rows \cup {"end"}]
  BY DEF Confirm, SharedInv, TypeOK
<1>2. CASE /\ edge' = EdgesAfterWait(ResolveDeadlock(edge, s), s) /\ At(s, IF gone[s] THEN "served" ELSE "client")
           /\ job' = [job EXCEPT ![s] = IF gone[s] THEN @ ELSE "end"] /\ Forget(s)
  <2>1. /\ ResolveDeadlock(edge, s) \in [Slot -> [Slot -> EdgeValue]]
        /\ \A a \in Slot : a # s => ResolveDeadlock(edge, s)[a] = edge[a]
        /\ \A b \in Slot : ResolveDeadlock(edge, s)[s][b] # Waits
    BY Resolved DEF SharedInv
  <2> DEFINE table == ResolveDeadlock(edge, s)
             l == IF gone[s] THEN "served" ELSE "client"
  <2>2. l \in {"served", "client"} /\ stage' = [stage EXCEPT ![s] = l] /\ edge' = EdgesAfterWait(table, s)
    BY <1>2 DEF At
  <2>3. job' \in [Session -> Rows \cup {"end"}]
    BY <1>1, <1>2
  <2> HIDE DEF table, l
  <2> QED BY <1>1, <1>2, <2>1, <2>2, <2>3, LeaveStep DEF table, Waiting
<1>3. CASE At(s, "polling") /\ UNCHANGED <<edge, job, waitVars>>
  BY <1>1, <1>3, MoveStep DEF At, waitVars
<1> QED BY <1>2, <1>3 DEF Confirm

LEMMA EndStep ==
  ASSUME SharedInv, NEW s \in Session, End(s)
  PROVE  SharedInv'
<1> DEFINE g == GroupSlot(GroupOf[s])
<1>1. /\ TypeOK /\ stage[s] = "served" /\ stage' = [stage EXCEPT ![s] = "client"]
      /\ owner' = [r \in Rows |-> IF owner[r] = s THEN NoOne ELSE owner[r]]
      /\ open' = open \ {s}
      /\ gone' = [w \in Session |-> gone[w] \/ (stage[w] \in Busy /\ target[w] = s)]
      /\ edge' = [a \in Slot |-> [edge[a] EXCEPT ![s] = NoEdge]]
      /\ UNCHANGED <<queue, job, requests, target>>
  BY DEF End, At, clientVars, SharedInv
<1>2. /\ stage \in [Session -> Stage] /\ owner \in [Rows -> Session \cup {NoOne}] /\ open \in SUBSET Session
      /\ edge \in [Slot -> [Slot -> EdgeValue]] /\ gone \in [Session -> BOOLEAN]
  BY <1>1 DEF TypeOK
<1>3. s \in Slot /\ g \in Slot /\ g \notin Session
  BY GroupOfIs, SlotsApart
<1> HIDE DEF g
<1>4. /\ edge' \in [Slot -> [Slot -> EdgeValue]] /\ \A a \in Slot : edge'[a][s] = NoEdge
      /\ \A c, d \in Slot : d # s => edge'[c][d] = edge[c][d]
  <2>1. ASSUME NEW a \in Slot
        PROVE  /\ edge'[a] = [edge[a] EXCEPT ![s] = NoEdge] /\ edge'[a] \in [Slot -> EdgeValue]
               /\ edge'[a][s] = NoEdge /\ \A d \in Slot : d # s => edge'[a][d] = edge[a][d]
    BY <1>1, <1>2, <1>3, EdgeType
  <2>2. edge' \in [Slot -> [Slot -> EdgeValue]]
    BY <1>1, <2>1
  <2> QED BY <2>1, <2>2
<1>5. TypeOK'
  <2>1. /\ stage' \in [Session -> Stage] /\ owner' \in [Rows -> Session \cup {NoOne}] /\ open' \in SUBSET Session
        /\ gone' \in [Session -> BOOLEAN]
    BY <1>1, <1>2 DEF Stage
  <2>2. \A t \in Session : stage'[t] \in Waiting => target'[t] \in Session \ {t}
    BY <1>1, <1>2 DEF TypeOK, Waiting
  <2> QED BY <1>1, <1>4, <2>1, <2>2 DEF TypeOK
<1>6. QueueExact'
  BY <1>1, QueueKept DEF SharedInv
<1>7. GroupEdgesExact'
  <2>1. ASSUME NEW c \in Session \ {s}
        PROVE  /\ edge'[c][GroupSlot(GroupOf[c])] = edge[c][GroupSlot(GroupOf[c])]
               /\ edge'[GroupSlot(GroupOf[c])][c] = edge[GroupSlot(GroupOf[c])][c]
               /\ (c \in open' <=> c \in open)
    <3>1. c \in Slot /\ GroupSlot(GroupOf[c]) \in Slot /\ GroupSlot(GroupOf[c]) \notin Session
      BY SlotsApart, GroupOfIs
    <3> QED BY <1>1, <1>4, <3>1
  <2>2. edge[s][g] # Waits
    BY <1>1 DEF g, SharedInv, GroupEdgesExact, HasEdge, Asking, Unserved
  <2>3. edge'[s][g] # Waits /\ edge'[g][s] # Waits
    BY <1>3, <1>4, <2>2, EdgeType
  <2> QED BY <1>1, <2>1, <2>3, EdgesKept DEF g, SharedInv, Waiting, Asking, Unserved
<1>8. EndIsNoticed'
  <2>1. \A r \in Rows : owner'[r] # NoOne => owner'[r] \in open'
    BY <1>1, <1>2 DEF SharedInv, EndIsNoticed
  <2>2. ASSUME NEW w \in Session, stage'[w] \in Waiting, ~gone'[w] PROVE target'[w] \in open'
    <3>1. stage[w] \in Waiting /\ stage[w] \in Busy
      BY <1>1, <1>2, <2>2 DEF Waiting, Busy
    <3>2. ~gone[w] /\ target[w] # s
      BY <1>1, <1>2, <2>2, <3>1
    <3> QED BY <1>1, <3>1, <3>2 DEF SharedInv, EndIsNoticed
  <2> QED BY <2>1, <2>2 DEF EndIsNoticed
<1>9. WaitsAreInTable'
  <2>1. ASSUME NEW w \in Session, stage'[w] \in {"polling", "suspect"}, ~gone'[w]
        PROVE  edge'[w][target'[w]] = Waits
    <3>1. stage[w] = stage'[w] /\ stage[w] \in Busy
      BY <1>1, <1>2, <2>1 DEF Busy
    <3>2. ~gone[w] /\ target[w] # s /\ target[w] \in Session
      BY <1>1, <1>2, <2>1, <3>1 DEF TypeOK, Waiting
    <3>3. edge[w][target[w]] = Waits
      BY <2>1, <3>1, <3>2 DEF SharedInv, WaitsAreInTable, HasEdge
    <3> QED BY <1>1, <1>4, <3>2, <3>3, SlotsApart
  <2> QED BY <2>1 DEF WaitsAreInTable, HasEdge
<1> QED BY <1>5, <1>6, <1>7, <1>8, <1>9 DEF SharedInv

LEMMA SharedStep == SharedInv /\ [Next]_vars => SharedInv'
<1> SUFFICES ASSUME SharedInv, [Next]_vars PROVE SharedInv'
  OBVIOUS
<1>1. CASE UNCHANGED vars
  BY <1>1 DEF vars, SharedInv, TypeOK, QueueExact, GroupEdgesExact, EndIsNoticed, WaitsAreInTable, HasEdge, Asking, Unserved
<1>2. ASSUME NEW s \in Session, Suspect(s) PROVE SharedInv'
  BY <1>2, MoveStep DEF Suspect, At, clientVars, waitVars
<1>3. ASSUME NEW s \in Session, Serve(s) PROVE SharedInv'
  BY <1>2, <1>3, RemoveEdgeStep, ChangeStep, EnterGroupStep, EnterWaitStep, DoneStep, ConfirmStep, EndStep DEF Serve
<1> QED BY <1>1, <1>3, AddEdgeStep, EnqueueStep, DequeueStep DEF Next

LEMMA InitShared == Init => SharedInv
<1> SUFFICES ASSUME Init PROVE SharedInv
  OBVIOUS
<1>1. TypeOK
  BY EdgeType DEF Init, TypeOK, Stage, Waiting
<1>2. QueueExact /\ EndIsNoticed /\ WaitsAreInTable
  BY DEF Init, QueueExact, EndIsNoticed, WaitsAreInTable, Waiting
<1>3. GroupEdgesExact
  BY SlotsApart, GroupOfIs, EdgeType DEF Init, GroupEdgesExact, HasEdge, Waiting, Asking, Unserved
<1> QED BY <1>1, <1>2, <1>3 DEF SharedInv

LEMMA SharedInvAlways == Spec => []SharedInv
BY InitShared, SharedStep, PTL DEF Spec

-----------------------------------------------------------------------------
(* What the wait table and the servers have in common                       *)

\* Every edge is of a wait: of a session for its group or for the one it polls for, of a
\* group for sessions its servers run.
EdgesAreWaits ==
  /\ \A s \in Session, u \in Slot : HasEdge(edge, s, u) =>
       \/ u = GroupSlot(GroupOf[s])
       \/ stage[s] \in {"polling", "suspect"} /\ u = target[s]
  /\ \A g \in Group, u \in Slot : HasEdge(edge, GroupSlot(g), u) => u \in Session /\ GroupOf[u] = g

\* A group has no more requests in work than servers.
ServersBounded == \A g \in Group : Cardinality(Served(g)) <= Workers[g]

\* A session with a transaction has been run by a server of its group.
OpenWasServed == \A s \in open : Workers[GroupOf[s]] # 0

EdgeInv   == SharedInv /\ EdgesAreWaits
ServerInv == SharedInv /\ ServersBounded /\ OpenWasServed

LEMMA SlotIsEither ==
  ASSUME NEW a \in Slot
  PROVE  a \in Session \/ \E g \in Group : a = GroupSlot(g)
<1>1. SessionCount \in Nat \ {0} /\ Cardinality(Group) \in Nat
      /\ Group = 0 .. (Cardinality(Group) - 1)
  BY SharedWaitAssumption, FS_CardinalityType
<1>2. CASE a < SessionCount
  BY <1>1, <1>2 DEF Session, Slot
<1>3. CASE ~(a < SessionCount)
  <2>1. a - SessionCount \in Group /\ a = SessionCount + (a - SessionCount)
    BY <1>1, <1>3 DEF Slot
  <2> QED BY <2>1 DEF GroupSlot
<1> QED BY <1>2, <1>3

LEMMA GroupSlotIsOne ==
  ASSUME NEW g \in Group, NEW h \in Group, GroupSlot(g) = GroupSlot(h)
  PROVE  g = h
<1>1. SessionCount \in Nat \ {0} /\ Cardinality(Group) \in Nat
      /\ Group = 0 .. (Cardinality(Group) - 1)
  BY SharedWaitAssumption, FS_CardinalityType
<1> QED BY <1>1 DEF GroupSlot

\* A step that brings s to stage l adds no edge but one of its wait.
EdgesOfStep(s, l) ==
  \A a, b \in Slot : edge'[a][b] = Waits =>
    \/ edge[a][b] = Waits /\ (a = s => b \notin Session)
    \/ a = s /\ b = GroupSlot(GroupOf[s])
    \/ a = s /\ b = target'[s] /\ l \in {"polling", "suspect"}
    \/ a = GroupSlot(GroupOf[s]) /\ b = s

LEMMA EdgesAreWaitsKept ==
  ASSUME EdgeInv, NEW s \in Session, NEW l, stage' = [stage EXCEPT ![s] = l],
         \A c \in Session \ {s} : target'[c] = target[c],
         EdgesOfStep(s, l)
  PROVE  EdgesAreWaits'
<1>1. stage'[s] = l /\ \A c \in Session \ {s} : stage'[c] = stage[c]
  BY DEF EdgeInv, SharedInv, TypeOK
<1>2. ASSUME NEW c \in Session, NEW u \in Slot, edge'[c][u] = Waits
      PROVE  u = GroupSlot(GroupOf[c]) \/ (stage'[c] \in {"polling", "suspect"} /\ u = target'[c])
  <2>1. c \in Slot /\ c # GroupSlot(GroupOf[s])
    BY SlotsApart, GroupOfIs
  <2>2. CASE c = s
    <3>1. edge[s][u] = Waits /\ u \notin Session => u = GroupSlot(GroupOf[s])
      BY DEF EdgeInv, SharedInv, TypeOK, EdgesAreWaits, HasEdge, Waiting
    <3> QED BY <1>1, <1>2, <2>1, <2>2, <3>1 DEF EdgesOfStep
  <2>3. CASE c # s
    BY <1>1, <1>2, <2>1, <2>3 DEF EdgesOfStep, EdgeInv, EdgesAreWaits, HasEdge
  <2> QED BY <2>2, <2>3
<1>3. ASSUME NEW g \in Group, NEW u \in Slot, edge'[GroupSlot(g)][u] = Waits
      PROVE  u \in Session /\ GroupOf[u] = g
  <2>1. GroupSlot(g) \in Slot /\ GroupSlot(g) # s
    BY SlotsApart
  <2>2. CASE edge[GroupSlot(g)][u] = Waits
    BY <2>2 DEF EdgeInv, EdgesAreWaits, HasEdge
  <2>3. CASE GroupSlot(g) = GroupSlot(GroupOf[s]) /\ u = s
    BY <2>3, GroupSlotIsOne, GroupOfIs
  <2> QED BY <1>3, <2>1, <2>2, <2>3 DEF EdgesOfStep
<1> QED BY <1>2, <1>3 DEF EdgesAreWaits, HasEdge

\* A session that does not poll waits for its group only.
LEMMA IdleWaitsForNobody ==
  ASSUME EdgeInv, NEW s \in Session, stage[s] \notin {"polling", "suspect"}, NEW b \in Slot, edge[s][b] = Waits
  PROVE  b \notin Session
BY SlotsApart, GroupOfIs DEF EdgeInv, EdgesAreWaits, HasEdge

\* The end of a wait takes its edges away.
LEMMA LeaveKeeps ==
  ASSUME EdgeInv, NEW s \in Session, stage[s] \in {"polling", "suspect"}, NEW l,
         stage' = [stage EXCEPT ![s] = l], \A c \in Session \ {s} : target'[c] = target[c],
         NEW table \in [Slot -> [Slot -> EdgeValue]], edge' = EdgesAfterWait(table, s),
         \A a, b \in Slot : table[a][b] = Waits => edge[a][b] = Waits
  PROVE  EdgesAreWaits'
<1> DEFINE g == GroupSlot(GroupOf[s])
           u == target[s]
<1>1. u \in Session /\ s \in Slot /\ u \in Slot /\ g \in Slot /\ g \notin Session /\ NoEdge # Waits
  BY GroupOfIs, SlotsApart, EdgeType DEF EdgeInv, SharedInv, TypeOK, Waiting
<1>2. /\ edge'[g][s] = NoEdge /\ edge'[s][u] = NoEdge
      /\ \A c, d \in Slot : ~(c = s /\ d = u) /\ ~(c = g /\ d = s) => edge'[c][d] = table[c][d]
  BY <1>1, AfterWait
<1>3. \A b \in Slot : edge[s][b] = Waits => b = u \/ b = g
  BY DEF EdgeInv, EdgesAreWaits, HasEdge
<1> HIDE DEF g, u
<1>4. \A a, b \in Slot : edge'[a][b] = Waits => edge[a][b] = Waits /\ (a = s => b \notin Session)
  BY <1>1, <1>2, <1>3
<1>5. EdgesOfStep(s, l)
  BY <1>4 DEF EdgesOfStep
<1> QED BY <1>5, EdgesAreWaitsKept

LEMMA MoveKeeps ==
  ASSUME EdgeInv, NEW s \in Session, stage[s] \in {"polling", "suspect"}, NEW l \in {"polling", "suspect"},
         stage' = [stage EXCEPT ![s] = l], target' = target, edge' = edge
  PROVE  EdgesAreWaits'
<1>1. stage'[s] = l /\ \A c \in Session \ {s} : stage'[c] = stage[c]
  BY DEF EdgeInv, SharedInv, TypeOK
<1> QED BY <1>1 DEF EdgeInv, EdgesAreWaits, HasEdge

LEMMA EdgeStep == EdgeInv /\ [Next]_vars => EdgesAreWaits'
<1> SUFFICES ASSUME EdgeInv, [Next]_vars PROVE EdgesAreWaits'
  OBVIOUS
<1> USE DEF At, clientVars, waitVars
<1>1. /\ edge \in [Slot -> [Slot -> EdgeValue]] /\ target \in [Session -> Session \cup {NoOne}]
      /\ stage \in [Session -> Stage] /\ queue \in [Group -> Seq(Session)]
  BY DEF EdgeInv, SharedInv, TypeOK
<1>2. Session \subseteq Slot /\ NoEdge \in EdgeValue /\ Waits \in EdgeValue /\ NoEdge # Waits
  BY SlotsApart, EdgeType
<1>3. CASE UNCHANGED vars
  BY <1>3 DEF vars, EdgeInv, EdgesAreWaits, HasEdge
<1>4. ASSUME NEW s \in Session, NEW j \in Rows \cup {"end"}, AddRequestEdge(s, j) PROVE EdgesAreWaits'
  <2> DEFINE g == GroupSlot(GroupOf[s])
  <2>1. /\ stage[s] = "client" /\ stage' = [stage EXCEPT ![s] = "sending"] /\ target' = target
        /\ edge' = IF s \in open THEN [edge EXCEPT ![s][g] = Waits] ELSE edge
    BY <1>4 DEF AddRequestEdge
  <2>2. s \in Slot /\ g \in Slot
    BY GroupOfIs, SlotsApart
  <2> HIDE DEF g
  <2>3. \A a, b \in Slot : edge'[a][b] = Waits => edge[a][b] = Waits \/ (a = s /\ b = g)
    BY <1>1, <1>2, <2>1, <2>2, SetEdge
  <2>4. \A b \in Slot : edge[s][b] = Waits => b \notin Session
    BY <2>1, IdleWaitsForNobody
  <2>5. EdgesOfStep(s, "sending")
    BY <2>3, <2>4 DEF EdgesOfStep, g
  <2> QED BY <2>1, <2>5, EdgesAreWaitsKept
<1>5. ASSUME NEW s \in Session, NEW l \in {"queued", "taken"}, stage[s] \in Unserved,
             stage' = [stage EXCEPT ![s] = l], target' = target, edge' = edge
      PROVE  EdgesAreWaits'
  <2>1. stage[s] \notin {"polling", "suspect"}
    BY <1>5 DEF Unserved
  <2>2. \A b \in Slot : edge[s][b] = Waits => b \notin Session
    BY <2>1, IdleWaitsForNobody
  <2>3. EdgesOfStep(s, l)
    BY <1>5, <2>2 DEF EdgesOfStep
  <2> QED BY <1>5, <2>3, EdgesAreWaitsKept
<1>6. ASSUME NEW s \in Session, Enqueue(s) PROVE EdgesAreWaits'
  BY <1>5, <1>6 DEF Enqueue, Unserved
<1>7. ASSUME NEW h \in Group, Dequeue(h) PROVE EdgesAreWaits'
  <2>1. queue[h] \in Seq(Session) /\ queue[h] # << >>
    BY <1>1, <1>7 DEF Dequeue
  <2>2. Head(queue[h]) = queue[h][1] /\ Head(queue[h]) \in Session /\ Len(queue[h]) \in Nat \ {0}
    BY <2>1, HeadTailProperties
  <2>3. stage[Head(queue[h])] = "queued"
    BY <2>2 DEF EdgeInv, SharedInv, QueueExact
  <2> QED BY <1>5, <1>7, <2>2, <2>3 DEF Dequeue, Unserved
<1>8. ASSUME NEW s \in Session, RemoveRequestEdge(s) PROVE EdgesAreWaits'
  <2> DEFINE g == GroupSlot(GroupOf[s])
  <2>1. /\ stage[s] = "taken" /\ stage' = [stage EXCEPT ![s] = "served"] /\ target' = target
        /\ edge' = IF s \in open THEN [edge EXCEPT ![s][g] = NoEdge] ELSE edge
    BY <1>8 DEF RemoveRequestEdge
  <2>2. s \in Slot /\ g \in Slot
    BY GroupOfIs, SlotsApart
  <2> HIDE DEF g
  <2>3. \A a, b \in Slot : edge'[a][b] = Waits => edge[a][b] = Waits
    BY <1>1, <1>2, <2>1, <2>2, SetEdge
  <2>4. \A b \in Slot : edge[s][b] = Waits => b \notin Session
    BY <2>1, IdleWaitsForNobody
  <2>5. EdgesOfStep(s, "served")
    BY <2>3, <2>4 DEF EdgesOfStep
  <2> QED BY <2>1, <2>5, EdgesAreWaitsKept
<1>9. ASSUME NEW s \in Session, Change(s) \/ End(s) PROVE EdgesAreWaits'
  <2>1. /\ stage[s] = "served" /\ stage' = [stage EXCEPT ![s] = "client"] /\ target' = target
    BY <1>9 DEF Change, End
  <2>2. \A a, b \in Slot : edge'[a][b] = Waits => edge[a][b] = Waits
    <3>1. CASE Change(s)
      BY <3>1 DEF Change
    <3>2. CASE End(s)
      <4>1. edge' = [a \in Slot |-> [edge[a] EXCEPT ![s] = NoEdge]]
        BY <3>2 DEF End
      <4> QED BY <1>1, <1>2, <4>1
    <3> QED BY <1>9, <3>1, <3>2
  <2>3. \A b \in Slot : edge[s][b] = Waits => b \notin Session
    BY <2>1, IdleWaitsForNobody
  <2>4. EdgesOfStep(s, "client")
    BY <2>2, <2>3 DEF EdgesOfStep
  <2> QED BY <2>1, <2>4, EdgesAreWaitsKept
<1>10. ASSUME NEW s \in Session, EnterGroup(s) PROVE EdgesAreWaits'
  <2> DEFINE g == GroupSlot(GroupOf[s])
  <2>1. /\ stage[s] = "served" /\ stage' = [stage EXCEPT ![s] = "grouped"]
        /\ \A c \in Session \ {s} : target'[c] = target[c]
        /\ edge' = [edge EXCEPT ![g][s] = Waits]
    BY <1>1, <1>10 DEF EnterGroup
  <2>2. s \in Slot /\ g \in Slot
    BY GroupOfIs, SlotsApart
  <2> HIDE DEF g
  <2>3. \A a, b \in Slot : edge'[a][b] = Waits => edge[a][b] = Waits \/ (a = g /\ b = s)
    BY <1>1, <1>2, <2>1, <2>2, SetEdge
  <2>4. \A b \in Slot : edge[s][b] = Waits => b \notin Session
    BY <2>1, IdleWaitsForNobody
  <2>5. EdgesOfStep(s, "grouped")
    BY <2>3, <2>4 DEF EdgesOfStep, g
  <2> QED BY <2>1, <2>5, EdgesAreWaitsKept
<1>11. ASSUME NEW s \in Session, EnterWait(s) PROVE EdgesAreWaits'
  <2> DEFINE u == target[s]
  <2>1. /\ stage[s] = "grouped" /\ stage' = [stage EXCEPT ![s] = "polling"] /\ target' = target
        /\ edge' = [edge EXCEPT ![s][u] = Waits]
    BY <1>11 DEF EnterWait
  <2>2. s \in Slot /\ u \in Slot
    BY <1>2, <2>1 DEF EdgeInv, SharedInv, TypeOK, Waiting
  <2> HIDE DEF u
  <2>3. \A a, b \in Slot : edge'[a][b] = Waits => edge[a][b] = Waits \/ (a = s /\ b = u)
    BY <1>1, <1>2, <2>1, <2>2, SetEdge
  <2>4. \A b \in Slot : edge[s][b] = Waits => b \notin Session
    BY <2>1, IdleWaitsForNobody
  <2>5. EdgesOfStep(s, "polling")
    BY <2>1, <2>3, <2>4 DEF EdgesOfStep, u
  <2> QED BY <2>1, <2>5, EdgesAreWaitsKept
<1>12. ASSUME NEW s \in Session, Done(s) PROVE EdgesAreWaits'
  <2>1. \A c \in Session \ {s} : target'[c] = target[c]
    BY <1>1, <1>12 DEF Done, Forget
  <2> QED BY <1>1, <1>12, <2>1, LeaveKeeps DEF Done
<1>13. ASSUME NEW s \in Session, Confirm(s) PROVE EdgesAreWaits'
  <2>1. stage[s] = "suspect"
    BY <1>13 DEF Confirm
  <2>2. CASE /\ edge' = EdgesAfterWait(ResolveDeadlock(edge, s), s) /\ At(s, IF gone[s] THEN "served" ELSE "client")
             /\ Forget(s)
    <3> DEFINE table == ResolveDeadlock(edge, s)
    <3>1. /\ table \in [Slot -> [Slot -> EdgeValue]]
          /\ \A a, b \in Slot : table[a][b] = Waits => edge[a][b] = Waits
      <4>1. TypeOK
        BY DEF EdgeInv, SharedInv
      <4> QED BY <4>1, Resolved
    <3>2. \A c \in Session \ {s} : target'[c] = target[c]
      BY <1>1, <2>2 DEF Forget
    <3> HIDE DEF table
    <3> QED BY <2>1, <2>2, <3>1, <3>2, LeaveKeeps DEF table
  <2>3. CASE At(s, "polling") /\ UNCHANGED <<edge, job, waitVars>>
    BY <2>1, <2>3, MoveKeeps
  <2> QED BY <1>13, <2>2, <2>3 DEF Confirm
<1>14. ASSUME NEW s \in Session, Suspect(s) PROVE EdgesAreWaits'
  BY <1>14, MoveKeeps DEF Suspect
<1>15. ASSUME NEW s \in Session, Serve(s) PROVE EdgesAreWaits'
  BY <1>8, <1>9, <1>10, <1>11, <1>12, <1>13, <1>14, <1>15 DEF Serve
<1> QED BY <1>3, <1>4, <1>6, <1>7, <1>15 DEF Next

LEMMA EdgeInvAlways == Spec => []EdgeInv
<1>1. Init => EdgesAreWaits
  BY SlotsApart, EdgeType DEF Init, EdgesAreWaits, HasEdge
<1>2. EdgeInv /\ [Next]_vars => EdgeInv'
  BY EdgeStep, SharedStep DEF EdgeInv
<1>3. Init => EdgeInv
  BY <1>1, InitShared DEF EdgeInv
<1> QED BY <1>2, <1>3, PTL DEF Spec

-----------------------------------------------------------------------------
(* The servers of a group                                                   *)

LEMMA ServedIs ==
  ASSUME NEW g \in Group
  PROVE  Served(g) \subseteq Session /\ IsFiniteSet(Served(g)) /\ Cardinality(Served(g)) \in Nat
<1>1. IsFiniteSet(Session)
  BY SharedWaitAssumption, FS_Interval DEF Session
<1>2. Served(g) \in SUBSET Session
  BY DEF Served
<1> QED BY <1>1, <1>2, FS_Subset, FS_CardinalityType

\* A step of s that takes no server.
LEMMA ServersKept ==
  ASSUME ServerInv, NEW s \in Session, NEW l, stage' = [stage EXCEPT ![s] = l],
         l \in Busy => stage[s] \in Busy,
         open' \subseteq open \cup {s}, s \in open' => s \in open \/ stage[s] \in Busy
  PROVE  ServersBounded' /\ OpenWasServed'
<1>1. stage'[s] = l /\ \A c \in Session \ {s} : stage'[c] = stage[c]
  BY DEF ServerInv, SharedInv, TypeOK
<1>2. \A g \in Group : Workers[g] \in Nat
  BY SharedWaitAssumption
<1>3. ASSUME NEW g \in Group PROVE Cardinality(Served(g)') <= Workers[g]
  <2>1. Served(g)' \in SUBSET Served(g)
    BY <1>1 DEF Served
  <2>2. Cardinality(Served(g)') <= Cardinality(Served(g)) /\ Cardinality(Served(g)') \in Nat
    BY <2>1, ServedIs, FS_Subset, FS_CardinalityType
  <2> QED BY <1>2, <2>2, ServedIs DEF ServerInv, ServersBounded
<1>4. ASSUME stage[s] \in Busy PROVE Workers[GroupOf[s]] # 0
  <2>1. s \in Served(GroupOf[s]) /\ GroupOf[s] \in Group
    BY <1>4, GroupOfIs DEF Served
  <2>2. Cardinality(Served(GroupOf[s])) # 0
    BY <2>1, ServedIs, FS_EmptySet
  <2> QED BY <1>2, <2>1, <2>2, ServedIs DEF ServerInv, ServersBounded
<1>5. \A c \in open' : Workers[GroupOf[c]] # 0
  BY <1>4 DEF ServerInv, OpenWasServed
<1> QED BY <1>3, <1>5 DEF ServersBounded, OpenWasServed

LEMMA ServerStep == ServerInv /\ [Next]_vars => ServersBounded' /\ OpenWasServed'
<1> SUFFICES ASSUME ServerInv, [Next]_vars PROVE ServersBounded' /\ OpenWasServed'
  OBVIOUS
<1> USE DEF At, clientVars, waitVars, Busy
<1>1. CASE UNCHANGED vars
  BY <1>1 DEF vars, ServerInv, ServersBounded, OpenWasServed, Served
<1>2. ASSUME NEW s \in Session, NEW j \in Rows \cup {"end"}, AddRequestEdge(s, j) \/ Enqueue(s)
      PROVE  ServersBounded' /\ OpenWasServed'
  BY <1>2, ServersKept DEF AddRequestEdge, Enqueue
<1>3. ASSUME NEW h \in Group, Dequeue(h) PROVE ServersBounded' /\ OpenWasServed'
  <2> DEFINE s == Head(queue[h])
  <2>1. stage' = [stage EXCEPT ![s] = "taken"] /\ open' = open /\ Cardinality(Served(h)) < Workers[h]
    BY <1>3 DEF Dequeue
  <2>2. s \in Session /\ GroupOf[s] = h
    <3>1. queue[h] \in Seq(Session) /\ queue[h] # << >>
      BY <1>3 DEF Dequeue, ServerInv, SharedInv, TypeOK
    <3>2. s = queue[h][1] /\ s \in Session /\ Len(queue[h]) \in Nat \ {0}
      BY <3>1, HeadTailProperties
    <3> QED BY <3>2 DEF ServerInv, SharedInv, QueueExact
  <2> HIDE DEF s
  <2>3. stage \in [Session -> Stage] /\ \A g \in Group : Workers[g] \in Nat
    BY SharedWaitAssumption DEF ServerInv, SharedInv, TypeOK
  <2>4. ASSUME NEW g \in Group PROVE Cardinality(Served(g)') <= Workers[g]
    <3>1. CASE g = h
      <4>1. Served(g)' = Served(g) \cup {s}
        BY <2>1, <2>2, <2>3, <3>1 DEF Served
      <4>2. Cardinality(Served(g) \cup {s}) <= Cardinality(Served(g)) + 1
            /\ Cardinality(Served(g) \cup {s}) \in Nat
        BY ServedIs, FS_AddElement, FS_CardinalityType
      <4>3. Cardinality(Served(g)) < Workers[g]
        BY <2>1, <3>1
      <4> QED BY <2>3, <4>1, <4>2, <4>3, ServedIs
    <3>2. CASE g # h
      <4>1. Served(g)' = Served(g)
        BY <2>1, <2>2, <2>3, <3>2 DEF Served
      <4> QED BY <4>1 DEF ServerInv, ServersBounded
    <3> QED BY <3>1, <3>2
  <2> QED BY <2>1, <2>4 DEF ServerInv, ServersBounded, OpenWasServed
<1>4. ASSUME NEW s \in Session, Change(s) \/ EnterGroup(s) PROVE ServersBounded' /\ OpenWasServed'
  BY <1>4, ServersKept DEF Change, EnterGroup
<1>5. ASSUME NEW s \in Session, RemoveRequestEdge(s) \/ EnterWait(s) \/ Done(s) \/ Suspect(s) \/ End(s)
      PROVE  ServersBounded' /\ OpenWasServed'
  BY <1>5, ServersKept DEF RemoveRequestEdge, EnterWait, Done, Suspect, End
<1>6. ASSUME NEW s \in Session, Confirm(s) PROVE ServersBounded' /\ OpenWasServed'
  BY <1>6, ServersKept DEF Confirm
<1>7. ASSUME NEW s \in Session, Serve(s) PROVE ServersBounded' /\ OpenWasServed'
  BY <1>4, <1>5, <1>6, <1>7 DEF Serve
<1> QED BY <1>1, <1>2, <1>3, <1>7 DEF Next

LEMMA ServerInvAlways == Spec => []ServerInv
<1>1. ASSUME Init PROVE ServersBounded /\ OpenWasServed
  <2>1. \A g \in Group : Served(g) = {}
    BY <1>1 DEF Init, Served, Busy
  <2>2. open = {} /\ \A g \in Group : Workers[g] \in Nat
    BY <1>1, SharedWaitAssumption DEF Init
  <2> QED BY <2>1, <2>2, FS_EmptySet DEF ServersBounded, OpenWasServed
<1>2. ServerInv /\ [Next]_vars => ServerInv'
  BY ServerStep, SharedStep DEF ServerInv
<1>3. Init => ServerInv
  BY <1>1, InitShared DEF ServerInv
<1> QED BY <1>2, <1>3, PTL DEF Spec

-----------------------------------------------------------------------------
(* The search, about the wait table of the shared sessions                  *)

SlotTotal == SessionCount + Cardinality(Group)

Graph == INSTANCE WaitGraphProofs WITH SlotCount <- SlotTotal, table <- edge

\* A group is asked for as many servers as it has.  smklWaitGraph.c:181 counts the array of
\* the groups' servers from its end: so it is as long as there is one group
\* (SHARED_REQUEST_QUEUE_COUNT is 1 unless set), or every group has as many.
ReadInOrder == \A g \in Group : GroupWorkers(Workers, SlotTotal, GroupSlot(g)) = Workers[g]

LEMMA TotalIs == SlotTotal \in Nat
BY SharedWaitAssumption, FS_CardinalityType DEF SlotTotal

LEMMA SameCardinality ==
  ASSUME NEW S
  PROVE  Graph!Cardinality(S) = Cardinality(S)
BY DEF Graph!Cardinality, Cardinality, Graph!IsFiniteSet, IsFiniteSet

LEMMA SameFrame ==
  ASSUME NEW e
  PROVE  Graph!Frame(e) = Frame(e)
BY SameCardinality DEF Graph!Frame, Frame, Graph!Verdict, Verdict

LEMMA SameMet ==
  ASSUME NEW p, NEW u
  PROVE  Graph!Met(p, u) = Met(p, u)
BY DEF Graph!Met, Met

LEMMA SameVisit ==
  ASSUME NEW e, NEW w, NEW f, NEW x
  PROVE  Graph!Visit(e, w, f, x) = Visit(e, w, f, x)
BY SameMet, SameCardinality
   DEF Graph!Visit, Visit, Graph!GroupWorkers, GroupWorkers, Graph!HasEdge, HasEdge, Graph!Waits, Waits,
       Graph!Enter, Enter

LEMMA SameSearch ==
  ASSUME NEW e, NEW w
  PROVE  Graph!Search(e, w) = Search(e, w)
<1>1. \A f : [x \in Graph!Frame(e) |-> Graph!Visit(e, w, f, x)] = [x \in Frame(e) |-> Visit(e, w, f, x)]
  BY SameFrame, SameVisit
<1>2. \A f : f = [x \in Graph!Frame(e) |-> Graph!Visit(e, w, f, x)] <=> f = [x \in Frame(e) |-> Visit(e, w, f, x)]
  BY <1>1, Zenon
<1>3. (CHOOSE f : f = [x \in Graph!Frame(e) |-> Graph!Visit(e, w, f, x)]) =
        (CHOOSE f : f = [x \in Frame(e) |-> Visit(e, w, f, x)])
  BY <1>2, Zenon
<1> QED BY <1>3 DEF Graph!Search, Search

LEMMA SameVerdict ==
  ASSUME NEW s \in Session
  PROVE  Graph!CheckDeadlock(edge, Workers, s) <=> Deadlocked(s)
BY SameSearch DEF Graph!CheckDeadlock, CheckDeadlock, Deadlocked, Graph!Enter, Enter

LEMMA SameTable ==
  ASSUME TypeOK
  PROVE  /\ Graph!Slot = Slot /\ edge \in Graph!Table /\ Workers \in Graph!Counts
         /\ \A a, b \in Slot : Graph!HasEdge(edge, a, b) <=> HasEdge(edge, a, b)
         /\ \A a \in Slot : Graph!Edges(edge, a) = {b \in Slot : HasEdge(edge, a, b)}
         /\ \A g \in Group :
              Graph!GroupWorkers(Workers, SlotTotal, GroupSlot(g)) =
                GroupWorkers(Workers, SlotTotal, GroupSlot(g))
<1>1. Graph!Slot = Slot
  <2>1. SessionCount \in Nat /\ Cardinality(Group) \in Nat
    BY SharedWaitAssumption, FS_CardinalityType
  <2>2. Slot = 0 .. (SlotTotal - 1)
    BY <2>1 DEF Slot, SlotTotal
  <2> QED BY <2>2 DEF Graph!Slot
<1>2. edge \in Graph!Table
  BY <1>1 DEF Graph!Table, TypeOK, Graph!EdgeValue, EdgeValue, Graph!NoEdge, NoEdge, Graph!Waits, Waits,
              Graph!DeadlockEdge, DeadlockEdge
<1>3. Workers \in Graph!Counts
  <2>1. /\ SessionCount \in Nat \ {0} /\ Cardinality(Group) \in Nat
        /\ Group = 0 .. (Cardinality(Group) - 1) /\ Workers \in [Group -> Nat]
    BY SharedWaitAssumption, FS_CardinalityType
  <2> DEFINE m == Cardinality(Group)
  <2>2. m \in 0 .. SlotTotal
    BY <2>1 DEF SlotTotal
  <2>3. Workers \in [0 .. (m - 1) -> Nat]
    BY <2>1
  <2> HIDE DEF m
  <2> QED BY <2>2, <2>3 DEF Graph!Counts
<1>4. \A a, b \in Slot : Graph!HasEdge(edge, a, b) <=> HasEdge(edge, a, b)
  BY DEF Graph!HasEdge, HasEdge, Graph!Waits, Waits
<1>5. \A a \in Slot : Graph!Edges(edge, a) = {b \in Slot : HasEdge(edge, a, b)}
  BY <1>1, <1>4 DEF Graph!Edges
<1>6. \A g \in Group : Graph!GroupWorkers(Workers, SlotTotal, GroupSlot(g)) =
                         GroupWorkers(Workers, SlotTotal, GroupSlot(g))
  BY DEF Graph!GroupWorkers, GroupWorkers
<1> QED BY <1>1, <1>2, <1>3, <1>4, <1>5, <1>6

LEMMA GroupsAre ==
  ASSUME NEW a \in Slot
  PROVE  Graph!IsGroup(Workers, a) <=> a \notin Session
<1>1. Graph!Cardinality(DOMAIN Workers) = Cardinality(Group)
  BY SameCardinality DEF Group
<1>2. SessionCount \in Nat \ {0} /\ Cardinality(Group) \in Nat
  BY SharedWaitAssumption, FS_CardinalityType
<1>3. SlotTotal - Cardinality(Group) = SessionCount /\ a \in Nat
  BY <1>2 DEF SlotTotal, Slot
<1> QED BY <1>1, <1>2, <1>3 DEF Graph!IsGroup, Session

\* The successors in the wait table.
LEMMA SuccessorsAre ==
  ASSUME EdgeInv
  PROVE  /\ Graph!GroupsWaitForTrans(edge, Workers)
         /\ \A g \in Group :
              Graph!Edges(edge, GroupSlot(g)) = {s \in Session : GroupOf[s] = g /\ stage[s] \in Waiting}
         /\ \A s \in Session : \A u \in Graph!Edges(edge, s) :
              \/ u = GroupSlot(GroupOf[s]) /\ stage[s] \in Asking /\ s \in open
              \/ u = target[s] /\ stage[s] \in {"polling", "suspect"} /\ u \in Session
<1>1. TypeOK /\ GroupEdgesExact /\ EdgesAreWaits
  BY DEF EdgeInv, SharedInv
<1>2. \A a \in Slot : Graph!Edges(edge, a) = {b \in Slot : HasEdge(edge, a, b)}
  BY <1>1, SameTable
<1>3. \A g \in Group : Graph!Edges(edge, GroupSlot(g)) = {s \in Session : GroupOf[s] = g /\ stage[s] \in Waiting}
  <2> SUFFICES ASSUME NEW g \in Group
               PROVE  Graph!Edges(edge, GroupSlot(g)) = {s \in Session : GroupOf[s] = g /\ stage[s] \in Waiting}
    OBVIOUS
  <2>1. Graph!Edges(edge, GroupSlot(g)) = {b \in Slot : HasEdge(edge, GroupSlot(g), b)}
    BY <1>2, SlotsApart
  <2>2. \A b \in Slot : HasEdge(edge, GroupSlot(g), b) => b \in Session /\ GroupOf[b] = g /\ stage[b] \in Waiting
    BY <1>1 DEF EdgesAreWaits, GroupEdgesExact, Asking, Unserved
  <2>3. \A b \in Session : GroupOf[b] = g /\ stage[b] \in Waiting => HasEdge(edge, GroupSlot(g), b)
    BY <1>1 DEF GroupEdgesExact, Asking, Unserved
  <2> QED BY <2>1, <2>2, <2>3, SlotsApart
<1>4. ASSUME NEW s \in Session, NEW u \in Graph!Edges(edge, s)
      PROVE  \/ u = GroupSlot(GroupOf[s]) /\ stage[s] \in Asking /\ s \in open
             \/ u = target[s] /\ stage[s] \in {"polling", "suspect"} /\ u \in Session
  <2>1. u \in Slot /\ HasEdge(edge, s, u)
    BY <1>2, SlotsApart
  <2>2. CASE u = GroupSlot(GroupOf[s])
    BY <1>1, <2>1, <2>2 DEF GroupEdgesExact, Asking, Unserved
  <2>3. CASE stage[s] \in {"polling", "suspect"} /\ u = target[s]
    BY <1>1, <2>3 DEF TypeOK, Waiting
  <2> QED BY <1>1, <2>1, <2>2, <2>3 DEF EdgesAreWaits
<1>5. Graph!GroupsWaitForTrans(edge, Workers)
  <2> SUFFICES ASSUME NEW a \in Slot, NEW b \in Slot, a \notin Session, HasEdge(edge, a, b)
               PROVE  b \in Session
    BY <1>1, SameTable, GroupsAre DEF Graph!GroupsWaitForTrans
  <2>1. PICK g \in Group : a = GroupSlot(g)
    BY SlotIsEither
  <2> QED BY <1>1, <2>1 DEF EdgesAreWaits
<1> QED BY <1>3, <1>4, <1>5

-----------------------------------------------------------------------------
(* Deadlocks through the queues of the groups                               *)

\* Who cannot move, as Stuck has it.
StuckIn(A) ==
  \A a \in A :
    \/ stage[a] \in {"polling", "suspect"} /\ ~gone[a] /\ target[a] \in A
    \/ /\ stage[a] \in Unserved
       /\ Cardinality(Served(GroupOf[a])) = Workers[GroupOf[a]]
       /\ Served(GroupOf[a]) \subseteq A

\* The servers of a group that are all busy with sessions that cannot move all wait.
LEMMA ServersOfStuck ==
  ASSUME ServerInv, EdgeInv, NEW A \in SUBSET Session, StuckIn(A), NEW a \in A, stage[a] \in Unserved, a \in open
  PROVE  LET g == GroupOf[a]
         IN  /\ Graph!Edges(edge, GroupSlot(g)) = Served(g) /\ Served(g) \subseteq A /\ Served(g) # {}
             /\ Cardinality(Served(g)) = Workers[g] /\ \A b \in Served(g) : stage[b] \in {"polling", "suspect"}
<1> DEFINE g == GroupOf[a]
<1>1. g \in Group
  BY GroupOfIs
<1>2. Served(g) \subseteq A /\ Cardinality(Served(g)) = Workers[g]
  BY DEF StuckIn, Unserved
<1>3. Served(g) # {}
  <2>1. Workers[g] # 0
    BY DEF ServerInv, OpenWasServed
  <2> HIDE DEF g
  <2> QED BY <1>2, <2>1, FS_EmptySet
<1>4. \A b \in Served(g) : stage[b] \in {"polling", "suspect"}
  BY <1>2 DEF StuckIn, Served, Busy, Unserved
<1>5. Graph!Edges(edge, GroupSlot(g)) = {b \in Session : GroupOf[b] = g /\ stage[b] \in Waiting}
  BY <1>1, SuccessorsAre
<1>6. Graph!Edges(edge, GroupSlot(g)) = Served(g)
  BY <1>4, <1>5 DEF Served, Waiting, Busy
<1> QED BY <1>2, <1>3, <1>4, <1>6

LEMMA StuckIsSeen ==
  ASSUME ReadInOrder, EdgeInv, ServerInv, NEW s \in Session, stage[s] = "polling", Stuck(s)
  PROVE  \E v \in Session : stage[v] \in {"polling", "suspect"} /\ Stuck(v) /\ Deadlocked(v)
<1>1. PICK A \in SUBSET Session : s \in A /\ StuckIn(A)
  BY DEF Stuck, StuckIn
<1>2. \A a \in A : Stuck(a)
  BY <1>1 DEF Stuck, StuckIn
<1>3. TypeOK /\ EndIsNoticed /\ WaitsAreInTable /\ GroupEdgesExact
  BY DEF EdgeInv, SharedInv
<1>4. /\ Graph!Slot = Slot /\ edge \in Graph!Table /\ Workers \in Graph!Counts
      /\ Graph!GroupsWaitForTrans(edge, Workers)
      /\ \A a \in Slot : Graph!Edges(edge, a) = {b \in Slot : HasEdge(edge, a, b)}
  BY <1>3, SameTable, SuccessorsAre
<1> DEFINE Waiters == {a \in A : stage[a] \in Unserved => a \in open}
           K == Waiters \cup {GroupSlot(GroupOf[a]) : a \in {b \in Waiters : stage[b] \in Unserved}}
<1>5. K \in SUBSET Graph!Slot /\ s \in K
  <2>1. \A a \in Session : GroupSlot(GroupOf[a]) \in Slot /\ a \in Slot
    BY SlotsApart, GroupOfIs
  <2>2. stage[s] \notin Unserved
    BY DEF Unserved
  <2> QED BY <1>1, <1>4, <2>1, <2>2
<1>6. ASSUME NEW a \in Waiters, stage[a] \notin Unserved
      PROVE  Graph!Edges(edge, a) = {target[a]} /\ target[a] \in Waiters
  <2>1. stage[a] \in {"polling", "suspect"} /\ ~gone[a] /\ target[a] \in A
    BY <1>1, <1>6 DEF StuckIn
  <2>2. target[a] \in open
    BY <1>3, <2>1 DEF EndIsNoticed, Waiting
  <2>3. target[a] \in Graph!Edges(edge, a)
    BY <1>3, <1>4, <2>1, SlotsApart DEF WaitsAreInTable
  <2>4. \A u \in Graph!Edges(edge, a) : u = target[a]
    BY <2>1, SuccessorsAre DEF Asking, Unserved
  <2> QED BY <2>1, <2>2, <2>3, <2>4
<1>7. ASSUME NEW a \in Waiters, stage[a] \in Unserved
      PROVE  Graph!Edges(edge, a) = {GroupSlot(GroupOf[a])} /\ GroupSlot(GroupOf[a]) \in K
  <2>1. a \in open /\ GroupSlot(GroupOf[a]) \in Slot
    BY <1>7, SlotsApart, GroupOfIs
  <2>2. GroupSlot(GroupOf[a]) \in Graph!Edges(edge, a)
    BY <1>3, <1>4, <1>7, <2>1, SlotsApart DEF GroupEdgesExact, Asking, Unserved
  <2>3. \A u \in Graph!Edges(edge, a) : u = GroupSlot(GroupOf[a])
    BY <1>7, SuccessorsAre DEF Unserved
  <2> QED BY <1>7, <2>2, <2>3
<1>8. ASSUME NEW a \in Waiters, stage[a] \in Unserved, NEW g, g = GroupSlot(GroupOf[a])
      PROVE  /\ Graph!Edges(edge, g) \subseteq K
             /\ Graph!Cardinality(Graph!Edges(edge, g)) = Graph!GroupWorkers(Workers, SlotTotal, g)
             /\ Graph!Edges(edge, g) # {}
  <2>1. GroupOf[a] \in Group
    BY GroupOfIs
  <2>2. /\ Graph!Edges(edge, g) = Served(GroupOf[a]) /\ Served(GroupOf[a]) \subseteq A
        /\ Served(GroupOf[a]) # {} /\ Cardinality(Served(GroupOf[a])) = Workers[GroupOf[a]]
        /\ \A b \in Served(GroupOf[a]) : stage[b] \in {"polling", "suspect"}
    BY <1>1, <1>8, ServersOfStuck
  <2>3. Graph!GroupWorkers(Workers, SlotTotal, g) = Workers[GroupOf[a]]
    BY <1>3, <1>8, <2>1, SameTable DEF ReadInOrder
  <2>4. \A b \in Served(GroupOf[a]) : b \in Waiters
    BY <2>2 DEF Unserved
  <2> QED BY <2>2, <2>3, <2>4, SameCardinality
<1>9. Graph!Knot(edge, Workers, K)
  <2>1. ASSUME NEW a \in K
        PROVE  a \in Waiters \/ \E b \in Waiters : stage[b] \in Unserved /\ a = GroupSlot(GroupOf[b])
    OBVIOUS
  <2>2. \A a \in Waiters : ~Graph!IsGroup(Workers, a) /\ \E u \in K : Graph!Edges(edge, a) = {u}
    <3>1. \A a \in Waiters : a \in Slot /\ a \in Session
      BY SlotsApart
    <3>2. ASSUME NEW a \in Waiters PROVE \E u \in K : Graph!Edges(edge, a) = {u}
      BY <1>6, <1>7
    <3> QED BY <3>1, <3>2, GroupsAre
  <2>3. ASSUME NEW b \in Waiters, stage[b] \in Unserved
        PROVE  Graph!IsGroup(Workers, GroupSlot(GroupOf[b]))
    BY SlotsApart, GroupOfIs, GroupsAre
  <2> HIDE DEF K, Waiters
  <2> QED BY <1>8, <2>1, <2>2, <2>3 DEF Graph!Knot
<1>10. s \in K /\ ~Graph!IsGroup(Workers, s)
  BY <1>5, SlotsApart, GroupsAre
<1>11. \E u \in Graph!Edges(edge, s) : ~Graph!IsGroup(Workers, u)
  <2>1. s \in Waiters /\ stage[s] \notin Unserved
    BY <1>1 DEF Unserved
  <2>2. target[s] \in Session /\ target[s] \in Graph!Edges(edge, s)
    BY <1>6, <2>1
  <2> QED BY <2>2, SlotsApart, GroupsAre
<1>12. PICK v \in K : /\ ~Graph!IsGroup(Workers, v) /\ Graph!CheckDeadlock(edge, Workers, v)
                      /\ \E u \in Graph!Edges(edge, v) : ~Graph!IsGroup(Workers, u)
  <2> HIDE DEF K
  <2> QED BY <1>4, <1>5, <1>9, <1>10, <1>11, TotalIs, Graph!KnotIsFound
<1>13. v \in Session
  BY <1>4, <1>5, <1>12, GroupsAre
<1>14. v \in A
  <2>1. \A a \in Session : GroupSlot(GroupOf[a]) \notin Session
    BY SlotsApart, GroupOfIs
  <2> QED BY <1>13, <2>1
<1>15. stage[v] \in {"polling", "suspect"}
  <2>1. PICK u \in Graph!Edges(edge, v) : ~Graph!IsGroup(Workers, u)
    BY <1>12
  <2>2. u \in Slot
    BY <1>4, <1>13, <2>1, SlotsApart
  <2>3. u # GroupSlot(GroupOf[v])
    BY <1>13, <2>1, <2>2, GroupsAre, SlotsApart, GroupOfIs
  <2> QED BY <1>13, <2>1, <2>3, SuccessorsAre
<1> QED BY <1>2, <1>12, <1>13, <1>14, <1>15, SameVerdict

\* Whom the search calls deadlocked cannot move, in a table without the edge of a wait that
\* is over and without a group that has some of its servers stuck.
LEMMA DeadlockIsStuck ==
  ASSUME ReadInOrder, EdgeInv, ServerInv, NEW s \in Session, Deadlocked(s), ~EdgeIsStale, ~GroupIsHalfStuck
  PROVE  Stuck(s)
<1>1. TypeOK /\ GroupEdgesExact
  BY DEF EdgeInv, SharedInv
<1>2. /\ Graph!Slot = Slot /\ edge \in Graph!Table /\ Workers \in Graph!Counts
      /\ Graph!GroupsWaitForTrans(edge, Workers)
  BY <1>1, SameTable, SuccessorsAre
<1>3. ASSUME NEW g \in Group
      PROVE  LET W == Graph!Edges(edge, GroupSlot(g))
             IN  /\ W = {b \in Served(g) : stage[b] \in Waiting} /\ W \in SUBSET Served(g)
                 /\ Cardinality(W) \in Nat /\ Cardinality(W) <= Workers[g]
                 /\ Cardinality(W) = Workers[g] => Served(g) = W
  <2> DEFINE W == Graph!Edges(edge, GroupSlot(g))
  <2>1. W = {b \in Served(g) : stage[b] \in Waiting}
    BY SuccessorsAre DEF Served, Waiting, Busy
  <2>2. W \in SUBSET Served(g)
    BY <2>1
  <2> HIDE DEF W
  <2>3. /\ Cardinality(W) \in Nat /\ Cardinality(W) <= Cardinality(Served(g))
        /\ Cardinality(W) = Cardinality(Served(g)) => W = Served(g)
    BY <2>2, ServedIs, FS_Subset, FS_CardinalityType
  <2>4. Cardinality(Served(g)) <= Workers[g] /\ Workers[g] \in Nat
    BY SharedWaitAssumption DEF ServerInv, ServersBounded
  <2>5. /\ Cardinality(W) \in Nat /\ Cardinality(W) <= Workers[g]
        /\ Cardinality(W) = Workers[g] => Served(g) = W
    BY <2>3, <2>4, ServedIs
  <2> QED BY <2>1, <2>2, <2>5 DEF W
<1>4. \A a \in Slot : Graph!IsGroup(Workers, a) =>
        Graph!Cardinality(Graph!Edges(edge, a)) <= Graph!GroupWorkers(Workers, SlotTotal, a)
  <2> SUFFICES ASSUME NEW a \in Slot, Graph!IsGroup(Workers, a)
               PROVE  Graph!Cardinality(Graph!Edges(edge, a)) <= Graph!GroupWorkers(Workers, SlotTotal, a)
    OBVIOUS
  <2>1. PICK g \in Group : a = GroupSlot(g)
    BY SlotIsEither, GroupsAre
  <2>2. Graph!GroupWorkers(Workers, SlotTotal, a) = Workers[g]
    BY <1>1, <2>1, SameTable DEF ReadInOrder
  <2> QED BY <1>3, <2>1, <2>2, SameCardinality
<1>5. PICK E \in SUBSET Slot : s \in E /\ Graph!Held(edge, Workers, E)
  <2>1. Graph!CheckDeadlock(edge, Workers, s) /\ s \in Slot
    BY SameVerdict, SlotsApart
  <2> QED BY <1>2, <1>4, <2>1, TotalIs, Graph!DeadlockIsHeld
<1> DEFINE A == E \cap Session
<1>6. ASSUME NEW a \in A
      PROVE  \/ stage[a] \in {"polling", "suspect"} /\ ~gone[a] /\ target[a] \in A
             \/ /\ stage[a] \in Unserved
                /\ Cardinality(Served(GroupOf[a])) = Workers[GroupOf[a]]
                /\ Served(GroupOf[a]) \subseteq A
  <2>1. PICK u \in Graph!Edges(edge, a) : u \in E
    BY <1>5 DEF Graph!Held
  <2>2. CASE u = target[a] /\ stage[a] \in {"polling", "suspect"} /\ u \in Session
    BY <2>1, <2>2 DEF EdgeIsStale, Waiting
  <2>3. CASE u = GroupSlot(GroupOf[a]) /\ stage[a] \in Asking /\ a \in open
    <3> DEFINE g == GroupOf[a]
               W == Graph!Edges(edge, u)
    <3>1. g \in Group /\ u \in Slot /\ Graph!IsGroup(Workers, u)
      BY <2>3, GroupOfIs, SlotsApart, GroupsAre
    <3>2. W \subseteq E /\ W # {}
      BY <1>5, <2>1, <3>1 DEF Graph!Held
    <3>3. /\ W = {b \in Served(g) : stage[b] \in Waiting} /\ W \in SUBSET Served(g)
          /\ Cardinality(W) \in Nat /\ Cardinality(W) <= Workers[g]
          /\ Cardinality(W) = Workers[g] => Served(g) = W
      BY <1>3, <2>3, <3>1
    <3>4. HasEdge(edge, a, GroupSlot(g))
      BY <1>1, <2>3 DEF GroupEdgesExact
    <3>5. Workers[g] \in Nat
      BY <3>1, SharedWaitAssumption
    <3>6. ~(Cardinality(W) < Workers[g])
      <4>1. W = {w \in Served(GroupOf[a]) : stage[w] \in Waiting} /\ W # {}
            /\ HasEdge(edge, a, GroupSlot(GroupOf[a])) /\ a \in Session
        BY <3>2, <3>3, <3>4
      <4> HIDE DEF W
      <4> QED BY <4>1 DEF GroupIsHalfStuck
    <3>7. Cardinality(W) = Workers[g]
      BY <3>3, <3>5, <3>6
    <3>8. Served(g) \subseteq Session
      BY DEF Served
    <3>9. stage[a] # "taken"
      BY <3>3, <3>7 DEF Served, Busy, Waiting
    <3> QED BY <2>3, <3>2, <3>3, <3>7, <3>8, <3>9 DEF Asking
  <2>4. \/ u = GroupSlot(GroupOf[a]) /\ stage[a] \in Asking /\ a \in open
        \/ u = target[a] /\ stage[a] \in {"polling", "suspect"} /\ u \in Session
    BY <2>1, SuccessorsAre
  <2> QED BY <2>2, <2>3, <2>4
<1>7. A \in SUBSET Session /\ s \in A
  BY <1>5
<1> HIDE DEF A
<1> QED BY <1>6, <1>7 DEF Stuck

-----------------------------------------------------------------------------
(* The theorems                                                             *)

\* Every variable of the shared sessions keeps its type, and nobody waits for itself.
THEOREM SharedTypes == Spec => []TypeOK
<1>1. SharedInv => TypeOK
  BY DEF SharedInv
<1> QED BY <1>1, SharedInvAlways, PTL

\* The edges of the group slots are those of the requests, from before they are queued
\* until the server that took them has read them, and of the servers that wait, whatever
\* victims are resolved and slots reset meanwhile.
THEOREM GroupEdgesStayExact == Spec => []GroupEdgesExact
<1>1. SharedInv => GroupEdgesExact
  BY DEF SharedInv
<1> QED BY <1>1, SharedInvAlways, PTL

\* A request is in the queue of its own group, once, from sclEnqueueRequest to
\* sclDequeueRequest.
THEOREM RequestsAreQueuedOnce == Spec => []QueueExact
<1>1. SharedInv => QueueExact
  BY DEF SharedInv
<1> QED BY <1>1, SharedInvAlways, PTL

\* A check for deadlocks sees every wait: whoever polls for an open transaction has its
\* edge, with those of the groups the table leaves nothing out.
THEOREM WaitsAreSeen == Spec => []WaitsAreInTable
<1>1. SharedInv => WaitsAreInTable
  BY DEF SharedInv
<1> QED BY <1>1, SharedInvAlways, PTL

\* A server that still waits does so for a transaction that is open: the end of a
\* transaction reaches everybody who waits for it.
THEOREM EndsAreNoticed == Spec => []EndIsNoticed
<1>1. SharedInv => EndIsNoticed
  BY DEF SharedInv
<1> QED BY <1>1, SharedInvAlways, PTL


\* No group has more requests in work than shared servers.
THEOREM ServersAreBounded == Spec => []ServersBounded
<1>1. ServerInv => ServersBounded
  BY DEF ServerInv
<1> QED BY <1>1, ServerInvAlways, PTL

\* A deadlock that goes through the queues of the groups is never one that nobody sees: as
\* long as smklWaitGraph.c:181 finds the servers of the right group, one of the servers that
\* are stuck is told so by its own search, however many groups the deadlock goes through.
THEOREM DeadlocksThroughQueuesAreVisible ==
  ASSUME ReadInOrder
  PROVE  Spec => []DeadlockIsVisible
<1>1. EdgeInv /\ ServerInv => DeadlockIsVisible
  BY StuckIsSeen DEF DeadlockIsVisible
<1> QED BY <1>1, EdgeInvAlways, ServerInvAlways, PTL

\* No statement of a shared session fails with a deadlock unless its session can never go
\* on: a victim's target, or every server of the group that is to serve it, is stuck with it.
\* What VictimIsStuck excepts can happen (a stale edge, a group with the edge of a request
\* and some servers stuck, be the request in the queue or just taken out of it).
THEOREM SharedVictimsAreStuck ==
  ASSUME ReadInOrder
  PROVE  Spec => VictimIsStuck
<1> DEFINE Convicts(s) == stage[s] = "suspect" /\ stage'[s] = "client"
           Justified == \A s \in Session : Convicts(s) => Stuck(s) \/ EdgeIsStale \/ GroupIsHalfStuck
<1>1. EdgeInv /\ ServerInv /\ [Next]_vars => [Justified]_vars
  <2> SUFFICES ASSUME EdgeInv, ServerInv, Next, NEW s \in Session, Convicts(s)
               PROVE  Stuck(s) \/ EdgeIsStale \/ GroupIsHalfStuck
    OBVIOUS
  <2>1. Deadlocked(s)
    <3>1. stage \in [Session -> Stage] /\ queue \in [Group -> Seq(Session)]
      BY DEF EdgeInv, SharedInv, TypeOK
    <3>2. ASSUME NEW t \in Session, NEW l, stage' = [stage EXCEPT ![t] = l]
          PROVE  s = t /\ l = "client"
      BY <3>1, <3>2
    <3>3. ASSUME NEW t \in Session, NEW j \in Rows \cup {"end"}, AddRequestEdge(t, j) \/ Enqueue(t) PROVE FALSE
      BY <3>2, <3>3 DEF AddRequestEdge, Enqueue, At
    <3>4. ASSUME NEW h \in Group, Dequeue(h) PROVE FALSE
      <4>1. queue[h] \in Seq(Session) /\ queue[h] # << >>
        BY <3>1, <3>4 DEF Dequeue
      <4>2. Head(queue[h]) \in Session
        BY <4>1, HeadTailProperties
      <4> QED BY <3>2, <3>4, <4>2 DEF Dequeue, At
    <3>5. ASSUME NEW t \in Session, Serve(t) PROVE Deadlocked(s)
      <4>1. CASE RemoveRequestEdge(t) \/ Change(t) \/ EnterGroup(t) \/ EnterWait(t) \/ Done(t) \/ Suspect(t) \/ End(t)
        BY <3>2, <4>1 DEF RemoveRequestEdge, Change, EnterGroup, EnterWait, Done, Suspect, End, At
      <4>2. CASE Confirm(t)
        BY <3>2, <4>2 DEF Confirm, At
      <4> QED BY <3>5, <4>1, <4>2 DEF Serve
    <3> QED BY <3>3, <3>4, <3>5 DEF Next
  <2> QED BY <2>1, DeadlockIsStuck
<1>2. [][Justified]_vars <=> VictimIsStuck
  BY PTL DEF VictimIsStuck
<1> HIDE DEF Justified
<1> QED BY <1>1, <1>2, EdgeInvAlways, ServerInvAlways, PTL DEF Spec
=============================================================================
