--------------------------- MODULE WaitGraphProofs ---------------------------
(***************************************************************************)
(* The deadlock search of smklWaitGraph.c for wait tables of any size.     *)
(* Without request groups: whoever it calls deadlocked is on a cycle, and  *)
(* when there is a cycle it tells somebody.  With groups, which wait for   *)
(* the sessions all of their servers are stuck with: in a set of slots     *)
(* that wait for each other it tells a session that waits for another one, *)
(* and whoever it tells leads to slots that wait for each other.           *)
(*                                                                         *)
(* The search is a recursive function.  Every frame has a size that the    *)
(* recursion makes smaller, so that the equation of the function has a     *)
(* solution (found size by size), and what holds of a frame is shown by    *)
(* taking a smallest one of which it does not hold.                        *)
(***************************************************************************)
EXTENDS MCWaitGraph, FiniteSetTheorems, SequenceTheorems, WellFoundedInduction, TLAPS

Table == [Slot -> [Slot -> EdgeValue]]
Path  == {p \in Seq(Slot) : p # << >>}

\* The slots of a chain, and the one the search has come to.
On(p)   == {p[k] : k \in 1 .. Len(p)}
Last(p) == p[Len(p)]

Frames == [path : Path, i : 0 .. SlotCount, dead : Nat, last : Verdict]

\* How many servers each group has, with a slot of the table for every group.
Counts == UNION {[0 .. (m - 1) -> Nat] : m \in 0 .. SlotCount}

IsGroup(w, u) == u >= SlotCount - Cardinality(DOMAIN w)

\* Servers run requests of transactions: no group waits for another one.
GroupsWaitForTrans(t, w) ==
  \A a, b \in Slot : IsGroup(w, a) /\ HasEdge(t, a, b) => ~IsGroup(w, b)

\* The next slot of the loop.
Onward(x, dead, last) == [x EXCEPT !.i = @ + 1, !.dead = dead, !.last = last]

\* The end of the loop of a group that has met a successor that is not deadlocked.
Stopped(x) == [x EXCEPT !.i = SlotCount, !.last = "FALSE"]

\* Visit, in the loop of a transaction
Step(t, f, x) ==
  LET below == f[Enter(Append(x.path, x.i))]
  IN  IF x.i = SlotCount THEN x.last
      ELSE IF ~HasEdge(t, Last(x.path), x.i) THEN f[Onward(x, x.dead, x.last)]
      ELSE IF x.i = x.path[1] THEN "TRUE"
      ELSE IF x.i \in On(x.path) THEN "EXIT"
      ELSE IF below = "FALSE" THEN f[Onward(x, x.dead, "FALSE")]
      ELSE below

\* and in that of a group with c servers.
GroupStep(t, c, f, x) ==
  LET below == f[Enter(Append(x.path, x.i))]
  IN  IF c = 0 THEN "FALSE"
      ELSE IF x.i = SlotCount THEN IF x.dead = c THEN "TRUE" ELSE x.last
      ELSE IF ~HasEdge(t, Last(x.path), x.i) THEN f[Onward(x, x.dead, x.last)]
      ELSE IF x.i = x.path[1] THEN f[Onward(x, x.dead + 1, x.last)]
      ELSE IF below = "FALSE" THEN f[Stopped(x)]
      ELSE f[Onward(x, x.dead + 1, below)]

-----------------------------------------------------------------------------
(* Frames                                                                   *)

LEMMA SlotIs ==
  /\ SlotCount \in Nat /\ IsFiniteSet(Slot) /\ Cardinality(Slot) = SlotCount
  /\ \A i \in 0 .. SlotCount : i # SlotCount => i \in Slot /\ i + 1 \in 0 .. SlotCount
  /\ Slot \subseteq 0 .. SlotCount /\ 0 \in 0 .. SlotCount
<1>1. SlotCount \in Nat
  BY SlotAssumption
<1>2. IsFiniteSet(0 .. (SlotCount - 1))
      /\ Cardinality(0 .. (SlotCount - 1)) = IF 0 > SlotCount - 1 THEN 0 ELSE SlotCount - 1 - 0 + 1
  BY <1>1, FS_Interval
<1> QED BY <1>1, <1>2 DEF Slot

LEMMA CountsAre ==
  ASSUME NEW w \in Counts
  PROVE  \E m \in 0 .. SlotCount :
           /\ w \in [0 .. (m - 1) -> Nat] /\ DOMAIN w = 0 .. (m - 1) /\ Cardinality(DOMAIN w) = m
           /\ \A u \in Slot : IsGroup(w, u) <=> u >= SlotCount - m
           /\ \A u \in Slot : IsGroup(w, u) => GroupWorkers(w, SlotCount, u) \in Nat
<1>1. PICK m \in 0 .. SlotCount : w \in [0 .. (m - 1) -> Nat]
  BY DEF Counts
<1>2. m \in Nat /\ SlotCount \in Nat
  BY SlotIs
<1>3. Cardinality(0 .. (m - 1)) = IF 0 > m - 1 THEN 0 ELSE m - 1 - 0 + 1
  BY <1>2, FS_Interval
<1>4. Cardinality(DOMAIN w) = m
  BY <1>1, <1>2, <1>3
<1>5. ASSUME NEW u \in Slot, IsGroup(w, u) PROVE GroupWorkers(w, SlotCount, u) \in Nat
  <2>1. SlotCount - (u + 1) \in 0 .. (m - 1)
    BY <1>2, <1>4, <1>5 DEF IsGroup, Slot
  <2> QED BY <1>1, <2>1 DEF GroupWorkers
<1> QED BY <1>1, <1>4, <1>5 DEF IsGroup

LEMMA NoGroupsIs ==
  /\ NoGroups \in Counts
  /\ \A u \in Slot : ~IsGroup(NoGroups, u)
  /\ \A t : GroupsWaitForTrans(t, NoGroups)
<1>1. NoGroups \in [0 .. (0 - 1) -> Nat] /\ DOMAIN NoGroups = {}
  BY DEF NoGroups
<1>2. NoGroups \in Counts
  BY <1>1, SlotIs DEF Counts
<1>3. \A u \in Slot : ~IsGroup(NoGroups, u)
  BY <1>1, FS_EmptySet, SlotIs DEF IsGroup, Slot
<1> QED BY <1>2, <1>3 DEF GroupsWaitForTrans

LEMMA PathIs ==
  ASSUME NEW p \in Path
  PROVE  /\ p \in Seq(Slot) /\ Len(p) \in Nat \ {0} /\ p[1] \in On(p) /\ Last(p) \in On(p)
         /\ On(p) \subseteq Slot
BY DEF Path, On, Last

LEMMA Longer ==
  ASSUME NEW p \in Path, NEW u \in Slot
  PROVE  /\ Append(p, u) \in Path /\ On(Append(p, u)) = On(p) \cup {u}
         /\ Last(Append(p, u)) = u /\ Append(p, u)[1] = p[1] /\ Len(Append(p, u)) = Len(p) + 1
         /\ \A k \in 1 .. Len(p) : Append(p, u)[k] = p[k]
<1> DEFINE q == Append(p, u)
<1>1. p \in Seq(Slot) /\ Len(p) \in Nat \ {0}
  BY PathIs
<1>2. /\ q \in Seq(Slot) /\ Len(q) = Len(p) + 1 /\ q[Len(p) + 1] = u
      /\ \A k \in 1 .. Len(p) : q[k] = p[k]
  BY <1>1, AppendProperties
<1> HIDE DEF q
<1>3. q \in Path /\ Last(q) = u /\ q[1] = p[1]
  BY <1>1, <1>2 DEF Path, Last
<1>4. On(q) = On(p) \cup {u}
  <2>1. ASSUME NEW k \in 1 .. Len(q) PROVE q[k] \in On(p) \cup {u}
    <3>1. k \in 1 .. Len(p) \/ k = Len(p) + 1
      BY <1>1, <1>2
    <3> QED BY <1>2, <3>1 DEF On
  <2>2. ASSUME NEW k \in 1 .. Len(p) PROVE p[k] \in On(q)
    <3>1. k \in 1 .. Len(q)
      BY <1>1, <1>2
    <3> QED BY <1>2, <3>1 DEF On
  <2>3. u \in On(q)
    BY <1>1, <1>2 DEF On
  <2> QED BY <2>1, <2>2, <2>3 DEF On
<1> QED BY <1>2, <1>3, <1>4 DEF q

LEMMA One ==
  ASSUME NEW u \in Slot
  PROVE  <<u>> \in Path /\ Len(<<u>>) = 1 /\ <<u>>[1] = u /\ Last(<<u>>) = u /\ On(<<u>>) = {u}
BY DEF Path, Last, On

LEMMA EnterIs ==
  ASSUME NEW p \in Path
  PROVE  Enter(p) \in Frames /\ Enter(p).path = p /\ Enter(p).i = 0 /\ Enter(p).last = "FALSE"
         /\ Enter(p).dead = 0
BY SlotIs DEF Enter, Frames, Verdict

LEMMA OnwardIs ==
  ASSUME NEW x \in Frames, x.i # SlotCount, NEW d \in Nat, NEW v \in Verdict
  PROVE  /\ Onward(x, d, v) \in Frames /\ Onward(x, d, v).path = x.path /\ Onward(x, d, v).i = x.i + 1
         /\ Onward(x, d, v).dead = d /\ Onward(x, d, v).last = v
BY SlotIs DEF Onward, Frames

LEMMA StoppedIs ==
  ASSUME NEW x \in Frames
  PROVE  /\ Stopped(x) \in Frames /\ Stopped(x).path = x.path /\ Stopped(x).i = SlotCount
         /\ Stopped(x).dead = x.dead /\ Stopped(x).last = "FALSE"
<1>1. SlotCount \in 0 .. SlotCount /\ "FALSE" \in Verdict
  BY SlotIs DEF Verdict
<1> QED BY <1>1 DEF Stopped, Frames

LEMMA FrameIs ==
  ASSUME NEW t \in Table
  PROVE  Frame(t) = Frames /\ DOMAIN t = Slot /\ Cardinality(DOMAIN t) = SlotCount
BY SlotIs DEF Table, Frame, Frames, Path

LEMMA MetIs ==
  ASSUME NEW p \in Path, NEW u
  PROVE  Met(p, u) = IF u = p[1] THEN "TRUE" ELSE IF u \in On(p) THEN "EXIT" ELSE "DEEPER"
<1>1. DOMAIN p = 1 .. Len(p)
  BY PathIs
<1> QED BY <1>1 DEF Met, On

LEMMA VisitIs ==
  ASSUME NEW t \in Table, NEW w \in Counts, NEW f, NEW x \in Frames
  PROVE  Visit(t, w, f, x) =
           IF IsGroup(w, Last(x.path))
           THEN GroupStep(t, GroupWorkers(w, SlotCount, Last(x.path)), f, x)
           ELSE Step(t, f, x)
<1>1. Cardinality(DOMAIN t) = SlotCount
  BY FrameIs
<1>2. x.path \in Path /\ Last(x.path) = x.path[Len(x.path)]
  BY DEF Frames, Last
<1>3. IsGroup(w, Last(x.path)) <=> x.path[Len(x.path)] >= Cardinality(DOMAIN t) - Cardinality(DOMAIN w)
  BY <1>1 DEF IsGroup, Last
<1>4. CASE IsGroup(w, Last(x.path))
  BY <1>1, <1>2, <1>3, <1>4 DEF Visit, GroupStep, Onward, Stopped
<1>5. CASE ~IsGroup(w, Last(x.path))
  <2>1. Met(x.path, x.i) =
          IF x.i = x.path[1] THEN "TRUE" ELSE IF x.i \in On(x.path) THEN "EXIT" ELSE "DEEPER"
    BY <1>2, MetIs
  <2> QED BY <1>1, <1>2, <1>3, <1>5, <2>1 DEF Visit, Step, Onward
<1> QED BY <1>4, <1>5

-----------------------------------------------------------------------------
(* The size of a frame                                                      *)

\* A transaction adds a slot to the chain.  A group may add one that is there already,
\* but then it is the turn of a transaction.
Left(p)     == SlotCount - Cardinality(On(p))
Depth(w, p) == 2 * Left(p) + (IF IsGroup(w, Last(p)) THEN 1 ELSE 0)
Size(w, x)  == Depth(w, x.path) * (SlotCount + 1) + (SlotCount - x.i)

LEMMA OnIsFinite ==
  ASSUME NEW p \in Path
  PROVE  IsFiniteSet(On(p)) /\ Cardinality(On(p)) \in 0 .. SlotCount /\ Left(p) \in 0 .. SlotCount
<1>1. On(p) \in SUBSET Slot
  BY PathIs
<1>2. IsFiniteSet(On(p)) /\ Cardinality(On(p)) \in 0 .. SlotCount
  BY <1>1, SlotIs, FS_Subset, FS_CardinalityType
<1> QED BY <1>2, SlotIs DEF Left

LEMMA DepthIs ==
  ASSUME NEW w, NEW p \in Path
  PROVE  Depth(w, p) \in 0 .. 2 * SlotCount + 1
BY OnIsFinite, SlotIs DEF Depth

LEMMA SizeIs ==
  ASSUME NEW w, NEW x \in Frames
  PROVE  Size(w, x) \in 0 .. (2 * SlotCount + 1) * (SlotCount + 1) + SlotCount
<1>1. x.path \in Path /\ x.i \in 0 .. SlotCount /\ SlotCount \in Nat
  BY SlotIs DEF Frames
<1>2. PICK c \in 0 .. 2 * SlotCount + 1 : c = Depth(w, x.path)
  BY <1>1, DepthIs
<1>3. c * (SlotCount + 1) \in Nat /\ c * (SlotCount + 1) <= (2 * SlotCount + 1) * (SlotCount + 1)
  BY <1>1
<1> QED BY <1>1, <1>2, <1>3 DEF Size

LEMMA LaterIsSmaller ==
  ASSUME NEW w, NEW x \in Frames, NEW y \in Frames, y.path = x.path, x.i < y.i
  PROVE  Size(w, y) < Size(w, x)
<1>1. x.path \in Path /\ x.i \in 0 .. SlotCount /\ y.i \in 0 .. SlotCount /\ SlotCount \in Nat
  BY SlotIs DEF Frames
<1>2. PICK c \in Int : c = Depth(w, x.path) * (SlotCount + 1)
  BY <1>1, DepthIs
<1>3. Size(w, x) = c + (SlotCount - x.i) /\ Size(w, y) = c + (SlotCount - y.i)
  BY <1>2 DEF Size
<1> QED BY <1>1, <1>3

LEMMA OnwardIsSmaller ==
  ASSUME NEW w, NEW x \in Frames, x.i # SlotCount, NEW d \in Nat, NEW v \in Verdict
  PROVE  Size(w, Onward(x, d, v)) < Size(w, x) /\ Size(w, Stopped(x)) < Size(w, x)
<1>1. x.i \in 0 .. SlotCount /\ SlotCount \in Nat
  BY SlotIs DEF Frames
<1>2. x.i < x.i + 1 /\ x.i < SlotCount
  BY <1>1
<1> QED BY <1>2, OnwardIs, StoppedIs, LaterIsSmaller

LEMMA DeeperIsSmaller ==
  ASSUME NEW w, NEW x \in Frames, NEW q \in Path, Depth(w, q) < Depth(w, x.path)
  PROVE  Size(w, Enter(q)) < Size(w, x)
<1>1. x.path \in Path /\ x.i \in 0 .. SlotCount /\ SlotCount \in Nat
  BY SlotIs DEF Frames
<1>2. PICK b \in Nat, c \in Nat : b = Depth(w, q) /\ c = Depth(w, x.path)
  BY <1>1, DepthIs
<1>3. Size(w, Enter(q)) = b * (SlotCount + 1) + (SlotCount - 0)
      /\ Size(w, x) = c * (SlotCount + 1) + (SlotCount - x.i)
  BY <1>2, EnterIs DEF Size
<1>4. b + 1 <= c
  BY <1>2
<1>5. (b + 1) * (SlotCount + 1) <= c * (SlotCount + 1)
  BY <1>1, <1>4
<1>6. (b + 1) * (SlotCount + 1) = b * (SlotCount + 1) + (SlotCount + 1)
      /\ b * (SlotCount + 1) \in Nat /\ c * (SlotCount + 1) \in Nat
  BY <1>1
<1> QED BY <1>1, <1>3, <1>5, <1>6

LEMMA LongerIsSmaller ==
  ASSUME NEW w, NEW x \in Frames, NEW u \in Slot,
         u \notin On(x.path) \/ (IsGroup(w, Last(x.path)) /\ ~IsGroup(w, u))
  PROVE  Size(w, Enter(Append(x.path, u))) < Size(w, x)
<1> DEFINE p == x.path
           q == Append(p, u)
<1>1. p \in Path
  BY DEF Frames
<1>2. q \in Path /\ On(q) = On(p) \cup {u} /\ Last(q) = u
  BY <1>1, Longer
<1>3. Left(q) = IF u \in On(p) THEN Left(p) ELSE Left(p) - 1
  <2> HIDE DEF q, p
  <2>1. Cardinality(On(q)) = IF u \in On(p) THEN Cardinality(On(p)) ELSE Cardinality(On(p)) + 1
    BY <1>1, <1>2, OnIsFinite, FS_AddElement
  <2> QED BY <1>1, <2>1, OnIsFinite, SlotIs DEF Left
<1>4. Left(p) \in Nat
  BY <1>1, OnIsFinite
<1>5. Depth(w, q) < Depth(w, p)
  <2> HIDE DEF q, p
  <2>1. CASE u \notin On(p)
    BY <1>3, <1>4, <2>1 DEF Depth
  <2>2. CASE u \in On(p)
    <3>1. IsGroup(w, Last(p)) /\ ~IsGroup(w, u)
      BY <2>2 DEF p
    <3> QED BY <1>2, <1>3, <1>4, <2>2, <3>1 DEF Depth
  <2> QED BY <2>1, <2>2
<1> HIDE DEF q
<1>6. Size(w, Enter(q)) < Size(w, x)
  BY <1>2, <1>5, DeeperIsSmaller
<1> QED BY <1>6 DEF q

\* A set of frames has one of the smallest.
LEMMA SmallestFrame ==
  ASSUME NEW w, NEW T \in SUBSET Frames, T # {}
  PROVE  \E x \in T : \A y \in Frames : Size(w, y) < Size(w, x) => y \notin T
<1> DEFINE D == {Size(w, x) : x \in T}
<1>1. D \subseteq Nat /\ D # {}
  <2>1. \A x \in T : Size(w, x) \in Nat
    BY SizeIs, SlotIs
  <2> QED BY <2>1
<1>2. PICK d \in D : \A e \in D : ~(<<e, d>> \in OpToRel(<, Nat))
  <2> HIDE DEF D
  <2> QED BY <1>1, NatLessThanWellFounded, WFMin
<1>3. \A e \in D : ~(e < d)
  <2> HIDE DEF D
  <2> QED BY <1>1, <1>2 DEF OpToRel
<1>4. PICK x \in T : Size(w, x) = d
  OBVIOUS
<1>5. \A y \in T : Size(w, y) \in D
  OBVIOUS
<1> QED BY <1>3, <1>4, <1>5

-----------------------------------------------------------------------------
(* The search exists                                                        *)

\* A visit looks at smaller frames only.
LEMMA VisitLooksDown ==
  ASSUME NEW t \in Table, NEW w \in Counts, GroupsWaitForTrans(t, w), NEW x \in Frames, NEW f, NEW g,
         \A y \in Frames : Size(w, y) < Size(w, x) => f[y] = g[y] /\ f[y] \in Verdict
  PROVE  Visit(t, w, f, x) = Visit(t, w, g, x) /\ Visit(t, w, f, x) \in Verdict
<1>1. x.path \in Path /\ x.last \in Verdict /\ x.dead \in Nat /\ x.dead + 1 \in Nat
      /\ "FALSE" \in Verdict /\ "TRUE" \in Verdict /\ "EXIT" \in Verdict
  BY DEF Frames, Verdict
<1>2. Last(x.path) \in Slot /\ x.path[1] \in On(x.path)
  BY <1>1, PathIs
<1> DEFINE down == Enter(Append(x.path, x.i))
           c == GroupWorkers(w, SlotCount, Last(x.path))
<1>3. ASSUME x.i # SlotCount
      PROVE  \A d \in Nat, v \in Verdict :
               f[Onward(x, d, v)] = g[Onward(x, d, v)] /\ f[Onward(x, d, v)] \in Verdict
  BY <1>3, OnwardIs, OnwardIsSmaller
<1>4. ASSUME x.i # SlotCount, x.i \notin On(x.path) \/ (IsGroup(w, Last(x.path)) /\ ~IsGroup(w, x.i))
      PROVE  f[down] = g[down] /\ f[down] \in Verdict
  <2>1. x.i \in Slot
    BY <1>4, SlotIs DEF Frames
  <2>2. down \in Frames
    BY <1>1, <2>1, Longer, EnterIs
  <2>3. Size(w, down) < Size(w, x)
    BY <1>4, <2>1, LongerIsSmaller
  <2> HIDE DEF down
  <2> QED BY <2>2, <2>3
<1>5. CASE ~IsGroup(w, Last(x.path))
  <2>1. Visit(t, w, f, x) = Step(t, f, x) /\ Visit(t, w, g, x) = Step(t, g, x)
    BY <1>5, VisitIs
  <2>2. Step(t, f, x) = Step(t, g, x) /\ Step(t, f, x) \in Verdict
    <3>1. CASE x.i = SlotCount
      BY <1>1, <3>1 DEF Step
    <3>2. CASE x.i # SlotCount /\ x.i \in On(x.path)
      BY <1>1, <1>3, <3>2 DEF Step
    <3>3. CASE x.i # SlotCount /\ x.i \notin On(x.path)
      BY <1>1, <1>2, <1>3, <1>4, <3>3 DEF Step
    <3> QED BY <3>1, <3>2, <3>3
  <2> QED BY <2>1, <2>2
<1>6. CASE IsGroup(w, Last(x.path))
  <2>1. Visit(t, w, f, x) = GroupStep(t, c, f, x) /\ Visit(t, w, g, x) = GroupStep(t, c, g, x)
    BY <1>6, VisitIs
  <2>2. GroupStep(t, c, f, x) = GroupStep(t, c, g, x) /\ GroupStep(t, c, f, x) \in Verdict
    <3> HIDE DEF c
    <3>1. CASE x.i = SlotCount
      BY <1>1, <3>1 DEF GroupStep
    <3>2. CASE x.i # SlotCount /\ ~HasEdge(t, Last(x.path), x.i)
      BY <1>1, <1>3, <3>2 DEF GroupStep
    <3>3. CASE x.i # SlotCount /\ HasEdge(t, Last(x.path), x.i)
      <4>1. ~IsGroup(w, x.i)
        <5>1. x.i \in Slot
          BY <3>3, SlotIs DEF Frames
        <5> QED BY <1>2, <1>6, <3>3, <5>1 DEF GroupsWaitForTrans
      <4>2. f[down] = g[down] /\ f[down] \in Verdict
        BY <1>4, <1>6, <3>3, <4>1
      <4>3. f[Stopped(x)] = g[Stopped(x)] /\ f[Stopped(x)] \in Verdict
        BY <1>1, <3>3, StoppedIs, OnwardIsSmaller
      <4> QED BY <1>1, <1>3, <3>3, <4>2, <4>3 DEF GroupStep
    <3> QED BY <3>1, <3>2, <3>3
  <2> QED BY <2>1, <2>2
<1> QED BY <1>5, <1>6

\* f solves the equation of the search for the frames below a size.
Solves(t, w, f, k) ==
  \A x \in Frames : Size(w, x) < k => f[x] = Visit(t, w, f, x) /\ f[x] \in Verdict

LEMMA SolvesMore ==
  ASSUME NEW t \in Table, NEW w \in Counts, GroupsWaitForTrans(t, w),
         NEW k \in Nat, NEW f, Solves(t, w, f, k)
  PROVE  Solves(t, w, [x \in Frames |-> Visit(t, w, f, x)], k + 1)
<1> DEFINE g == [x \in Frames |-> Visit(t, w, f, x)]
<1> SUFFICES ASSUME NEW x \in Frames, Size(w, x) < k + 1
             PROVE  g[x] = Visit(t, w, g, x) /\ g[x] \in Verdict
  BY DEF Solves
<1>1. Size(w, x) \in Nat
  BY SizeIs, SlotIs
<1>2. ASSUME NEW y \in Frames, Size(w, y) < Size(w, x) PROVE f[y] = g[y] /\ f[y] \in Verdict
  <2>1. Size(w, y) < k
    BY <1>1, <1>2, SizeIs, SlotIs
  <2> QED BY <2>1 DEF Solves
<1>3. g[x] = Visit(t, w, f, x)
  OBVIOUS
<1> HIDE DEF g
<1> QED BY <1>2, <1>3, VisitLooksDown

LEMMA SolvesAll ==
  ASSUME NEW t \in Table, NEW w \in Counts, GroupsWaitForTrans(t, w)
  PROVE  \A k \in Nat : \E f : Solves(t, w, f, k)
<1> DEFINE D == {k \in Nat : ~\E f : Solves(t, w, f, k)}
<1>1. CASE D = {}
  BY <1>1
<1>2. CASE D # {}
  <2>1. PICK d \in D : \A e \in D : ~(<<e, d>> \in OpToRel(<, Nat))
    <3>1. D \subseteq Nat
      OBVIOUS
    <3> HIDE DEF D
    <3> QED BY <1>2, <3>1, NatLessThanWellFounded, WFMin
  <2>2. d \in Nat /\ ~\E f : Solves(t, w, f, d)
    OBVIOUS
  <2>3. \A e \in D : ~(e < d)
    BY <2>1 DEF OpToRel
  <2>4. d # 0
    <3>1. Solves(t, w, << >>, 0)
      BY SizeIs, SlotIs DEF Solves
    <3> QED BY <2>2, <3>1
  <2>5. d - 1 \in Nat /\ d - 1 < d /\ (d - 1) + 1 = d
    BY <2>2, <2>4
  <2>6. PICK f : Solves(t, w, f, d - 1)
    BY <2>3, <2>5
  <2>7. Solves(t, w, [x \in Frames |-> Visit(t, w, f, x)], (d - 1) + 1)
    BY <2>5, <2>6, SolvesMore
  <2> QED BY <2>2, <2>5, <2>7
<1> QED BY <1>1, <1>2

\* What the search finds from a frame follows from what it finds from smaller ones.
LEMMA SearchIs ==
  ASSUME NEW t \in Table, NEW w \in Counts, GroupsWaitForTrans(t, w)
  PROVE  \A x \in Frames : /\ Search(t, w)[x] = Visit(t, w, Search(t, w), x)
                           /\ Search(t, w)[x] \in Verdict
<1> DEFINE S == Search(t, w)
<1> DEFINE k == (2 * SlotCount + 1) * (SlotCount + 1) + SlotCount + 1
<1>1. k \in Nat /\ \A x \in Frames : Size(w, x) < k
  BY SizeIs, SlotIs
<1> HIDE DEF k
<1>2. \E f : f = [x \in Frame(t) |-> Visit(t, w, f, x)]
  <2>2. PICK h : Solves(t, w, h, k)
    BY <1>1, SolvesAll
  <2> DEFINE f == [x \in Frames |-> h[x]]
  <2>3. \A x \in Frames : f[x] = h[x] /\ h[x] \in Verdict
    BY <1>1, <2>2 DEF Solves
  <2> HIDE DEF f
  <2>4. ASSUME NEW x \in Frames PROVE f[x] = Visit(t, w, f, x)
    <3>1. f[x] = Visit(t, w, h, x)
      BY <1>1, <2>2, <2>3 DEF Solves
    <3>2. Visit(t, w, h, x) = Visit(t, w, f, x)
      BY <2>3, VisitLooksDown
    <3> QED BY <3>1, <3>2
  <2>5. f = [x \in Frames |-> Visit(t, w, f, x)]
    BY <2>4 DEF f
  <2> QED BY <2>5, FrameIs
<1>3. S = [x \in Frame(t) |-> Visit(t, w, S, x)]
  BY <1>2 DEF Search
<1> HIDE DEF S
<1>4. \A x \in Frames : S[x] = Visit(t, w, S, x)
  BY <1>3, FrameIs
<1>5. \A x \in Frames : S[x] \in Verdict
  <2> DEFINE T == {x \in Frames : S[x] \notin Verdict}
  <2>1. CASE T # {}
    <3>1. PICK x \in T : \A y \in Frames : Size(w, y) < Size(w, x) => y \notin T
      <4>1. T \in SUBSET Frames
        OBVIOUS
      <4> HIDE DEF T
      <4> QED BY <2>1, <4>1, SmallestFrame
    <3>2. \A y \in Frames : Size(w, y) < Size(w, x) => S[y] = S[y] /\ S[y] \in Verdict
      BY <3>1
    <3>3. Visit(t, w, S, x) \in Verdict
      BY <3>2, VisitLooksDown
    <3> QED BY <1>4, <3>3
  <2> QED BY <2>1
<1> QED BY <1>4, <1>5 DEF S

-----------------------------------------------------------------------------
(* What the search finds from slot i on, behind chain p                     *)

At(p, i) == [path |-> p, i |-> i, dead |-> 0, last |-> "FALSE"]

Found(t, w, p, i) == Search(t, w)[At(p, i)]
Find(t, p, i)     == Found(t, NoGroups, p, i)

LEMMA AtIs ==
  ASSUME NEW p \in Path, NEW i \in 0 .. SlotCount
  PROVE  /\ At(p, i) \in Frames /\ At(p, i).path = p /\ At(p, i).i = i /\ Enter(p) = At(p, 0)
         /\ i # SlotCount => Onward(At(p, i), 0, "FALSE") = At(p, i + 1)
         /\ \A w : /\ i # SlotCount => Size(w, At(p, i + 1)) < Size(w, At(p, i))
                   /\ \A u \in Slot \ On(p) : Size(w, At(Append(p, u), 0)) < Size(w, At(p, i))
<1>1. /\ At(p, i) \in Frames /\ At(p, i).path = p /\ At(p, i).i = i /\ Enter(p) = At(p, 0)
      /\ i # SlotCount => Onward(At(p, i), 0, "FALSE") = At(p, i + 1)
  <2>1. /\ At(p, i) \in Frames /\ At(p, i).path = p /\ At(p, i).i = i /\ Enter(p) = At(p, 0)
    BY SlotIs DEF At, Frames, Enter, Verdict
  <2>2. ASSUME i # SlotCount PROVE Onward(At(p, i), 0, "FALSE") = At(p, i + 1)
    <3>1. \A x, y \in Frames :
            x.path = y.path /\ x.i = y.i /\ x.dead = y.dead /\ x.last = y.last => x = y
      BY DEF Frames
    <3>2. /\ At(p, i + 1).path = p /\ At(p, i + 1).i = i + 1
          /\ At(p, i + 1).dead = 0 /\ At(p, i + 1).last = "FALSE"
      BY DEF At
    <3>3. At(p, i + 1) \in Frames
      BY <2>2, SlotIs DEF At, Frames, Verdict
    <3> QED BY <2>1, <2>2, <3>1, <3>2, <3>3, OnwardIs DEF Verdict
  <2> QED BY <2>1, <2>2
<1>2. ASSUME NEW w, i # SlotCount PROVE Size(w, At(p, i + 1)) < Size(w, At(p, i))
  BY <1>1, <1>2, OnwardIsSmaller DEF Verdict
<1>3. ASSUME NEW w, NEW u \in Slot \ On(p) PROVE Size(w, At(Append(p, u), 0)) < Size(w, At(p, i))
  BY <1>1, LongerIsSmaller DEF Enter, At
<1> QED BY <1>1, <1>2, <1>3

\* The loop of smklCheckDeadlockInternal.
LEMMA FoundIs ==
  ASSUME NEW t \in Table, NEW w \in Counts, GroupsWaitForTrans(t, w),
         NEW p \in Path, NEW i \in 0 .. SlotCount, ~IsGroup(w, Last(p))
  PROVE  /\ i = SlotCount => Found(t, w, p, i) = "FALSE"
         /\ i # SlotCount /\ ~HasEdge(t, Last(p), i) => Found(t, w, p, i) = Found(t, w, p, i + 1)
         /\ i # SlotCount /\ HasEdge(t, Last(p), i) =>
              /\ i = p[1] => Found(t, w, p, i) = "TRUE"
              /\ i # p[1] /\ i \in On(p) => Found(t, w, p, i) = "EXIT"
              /\ i \notin On(p) =>
                   Found(t, w, p, i) = IF Found(t, w, Append(p, i), 0) = "FALSE"
                                       THEN Found(t, w, p, i + 1) ELSE Found(t, w, Append(p, i), 0)
<1>1. /\ At(p, i) \in Frames /\ At(p, i).path = p /\ At(p, i).i = i /\ At(p, i).last = "FALSE"
      /\ At(p, i).dead = 0
  BY AtIs DEF At
<1>2. Found(t, w, p, i) = Step(t, Search(t, w), At(p, i))
  BY <1>1, SearchIs, VisitIs DEF Found
<1>3. i # SlotCount => Search(t, w)[Onward(At(p, i), 0, "FALSE")] = Found(t, w, p, i + 1)
  BY AtIs DEF Found
<1>4. i # SlotCount => Search(t, w)[Enter(Append(p, i))] = Found(t, w, Append(p, i), 0)
  BY DEF Found, Enter, At
<1>5. p[1] \in On(p)
  BY PathIs
<1> QED BY <1>1, <1>2, <1>3, <1>4, <1>5 DEF Step

LEMMA FindIs ==
  ASSUME NEW t \in Table, NEW p \in Path, NEW i \in 0 .. SlotCount
  PROVE  /\ i = SlotCount => Find(t, p, i) = "FALSE"
         /\ i # SlotCount /\ ~HasEdge(t, Last(p), i) => Find(t, p, i) = Find(t, p, i + 1)
         /\ i # SlotCount /\ HasEdge(t, Last(p), i) =>
              /\ i = p[1] => Find(t, p, i) = "TRUE"
              /\ i # p[1] /\ i \in On(p) => Find(t, p, i) = "EXIT"
              /\ i \notin On(p) =>
                   Find(t, p, i) = IF Find(t, Append(p, i), 0) = "FALSE" THEN Find(t, p, i + 1)
                                   ELSE Find(t, Append(p, i), 0)
         /\ Find(t, p, i) \in Verdict
<1>1. NoGroups \in Counts /\ GroupsWaitForTrans(t, NoGroups) /\ ~IsGroup(NoGroups, Last(p))
  BY NoGroupsIs, PathIs
<1>2. Find(t, p, i) \in Verdict
  BY <1>1, AtIs, SearchIs DEF Find, Found
<1> QED BY <1>1, <1>2, FoundIs DEF Find

\* What holds of a chain and a slot when it holds of those the search goes on to holds of all.
LEMMA FindAll ==
  ASSUME NEW Holds \in SUBSET (Path \X (0 .. SlotCount)),
         \A p \in Path, i \in 0 .. SlotCount :
           /\ \A u \in Slot \ On(p) : <<Append(p, u), 0>> \in Holds
           /\ i # SlotCount => <<p, i + 1>> \in Holds
           => <<p, i>> \in Holds
  PROVE  \A p \in Path, i \in 0 .. SlotCount : <<p, i>> \in Holds
<1> DEFINE T == {x \in Frames : x = At(x.path, x.i) /\ <<x.path, x.i>> \notin Holds}
<1>1. CASE T = {}
  <2>1. ASSUME NEW p \in Path, NEW i \in 0 .. SlotCount, <<p, i>> \notin Holds PROVE FALSE
    <3>1. At(p, i) \in T
      BY <2>1, AtIs
    <3> QED BY <1>1, <3>1
  <2> QED BY <2>1
<1>2. CASE T # {}
  <2>1. PICK x \in T : \A y \in Frames : Size(NoGroups, y) < Size(NoGroups, x) => y \notin T
    <3> HIDE DEF T
    <3>1. T \in SUBSET Frames
      BY DEF T
    <3> QED BY <1>2, <3>1, SmallestFrame
  <2>2. PICK p \in Path, i \in 0 .. SlotCount : p = x.path /\ i = x.i
    BY DEF Frames
  <2>3. x = At(p, i) /\ <<p, i>> \notin Holds
    BY <2>2
  <2>4. ASSUME NEW q \in Path, NEW j \in 0 .. SlotCount, Size(NoGroups, At(q, j)) < Size(NoGroups, At(p, i))
        PROVE  <<q, j>> \in Holds
    <3>1. At(q, j) \notin T
      BY <2>1, <2>3, <2>4, AtIs
    <3> QED BY <3>1, AtIs
  <2>5. ASSUME NEW u \in Slot \ On(p) PROVE <<Append(p, u), 0>> \in Holds
    BY <2>4, AtIs, Longer, SlotIs
  <2>6. i # SlotCount => <<p, i + 1>> \in Holds
    BY <2>4, AtIs, SlotIs
  <2> QED BY <2>3, <2>5, <2>6
<1> QED BY <1>1, <1>2

\* The search finds nothing from a slot on if and only if no edge from there leads back to
\* the chain, and it finds nothing behind any of them.
LEMMA FindsNothing ==
  ASSUME NEW t \in Table, NEW p \in Path, NEW i \in 0 .. SlotCount
  PROVE  Find(t, p, i) = "FALSE" <=>
           \A u \in Slot : u >= i /\ HasEdge(t, Last(p), u) =>
             u \notin On(p) /\ Find(t, Append(p, u), 0) = "FALSE"
<1> DEFINE Free(q, j) == \A u \in Slot : u >= j /\ HasEdge(t, Last(q), u) =>
                           u \notin On(q) /\ Find(t, Append(q, u), 0) = "FALSE"
           Holds == {h \in Path \X (0 .. SlotCount) : Find(t, h[1], h[2]) = "FALSE" <=> Free(h[1], h[2])}
<1>1. ASSUME NEW q \in Path, NEW j \in 0 .. SlotCount, j # SlotCount => <<q, j + 1>> \in Holds
      PROVE  <<q, j>> \in Holds
  <2>1. CASE j = SlotCount
    <3>1. Free(q, j)
      BY <2>1, SlotIs DEF Slot
    <3> QED BY <2>1, <3>1, FindIs
  <2>2. CASE j # SlotCount
    <3>1. Find(t, q, j + 1) = "FALSE" <=> Free(q, j + 1)
      BY <1>1, <2>2
    <3>2. \A u \in Slot : u >= j <=> u = j \/ u >= j + 1
      BY SlotIs DEF Slot
    <3>3. j \in Slot
      BY <2>2, SlotIs
    <3>4. CASE ~HasEdge(t, Last(q), j)
      <4>1. Free(q, j) <=> Free(q, j + 1)
        BY <3>2, <3>4
      <4> HIDE DEF Free
      <4> QED BY <2>2, <3>1, <3>4, <4>1, FindIs
    <3>5. CASE HasEdge(t, Last(q), j) /\ j \in On(q)
      <4>1. ~Free(q, j)
        BY <3>2, <3>3, <3>5
      <4>2. Find(t, q, j) # "FALSE"
        BY <2>2, <3>5, FindIs
      <4> HIDE DEF Free
      <4> QED BY <4>1, <4>2
    <3>6. CASE HasEdge(t, Last(q), j) /\ j \notin On(q)
      <4>1. Free(q, j) <=> Find(t, Append(q, j), 0) = "FALSE" /\ Free(q, j + 1)
        BY <3>2, <3>3, <3>6
      <4>2. Find(t, q, j) = "FALSE" <=> Find(t, Append(q, j), 0) = "FALSE" /\ Find(t, q, j + 1) = "FALSE"
        BY <2>2, <3>6, FindIs
      <4> HIDE DEF Free
      <4> QED BY <3>1, <4>1, <4>2
    <3> QED BY <3>4, <3>5, <3>6
  <2> QED BY <2>1, <2>2
<1>2. \A q \in Path, j \in 0 .. SlotCount : <<q, j>> \in Holds
  <2>1. Holds \in SUBSET (Path \X (0 .. SlotCount))
    OBVIOUS
  <2> HIDE DEF Holds
  <2> QED BY <1>1, <2>1, FindAll
<1> QED BY <1>2

-----------------------------------------------------------------------------
(* The search is sound: what it finds leads back to the head of the chain   *)

LEMMA FindIsSound ==
  ASSUME NEW t \in Table, NEW s \in Slot, NEW A \in SUBSET Slot,
         \A a \in A \cup {s}, u \in Slot : HasEdge(t, a, u) => u \in A
  PROVE  \A p \in Path, i \in 0 .. SlotCount :
           p[1] = s /\ Last(p) \in A \cup {s} /\ Find(t, p, i) = "TRUE" => s \in A
<1> DEFINE Sound(p, i) == p[1] = s /\ Last(p) \in A \cup {s} /\ Find(t, p, i) = "TRUE" => s \in A
           Holds == {h \in Path \X (0 .. SlotCount) : Sound(h[1], h[2])}
<1>1. ASSUME NEW p \in Path, NEW i \in 0 .. SlotCount,
             \A u \in Slot \ On(p) : <<Append(p, u), 0>> \in Holds,
             i # SlotCount => <<p, i + 1>> \in Holds
      PROVE  <<p, i>> \in Holds
  <2> SUFFICES ASSUME p[1] = s, Last(p) \in A \cup {s}, Find(t, p, i) = "TRUE" PROVE s \in A
    OBVIOUS
  <2>1. i # SlotCount
    BY FindIs
  <2>2. i \in Slot
    BY <2>1, SlotIs
  <2>3. i # SlotCount => Sound(p, i + 1)
    BY <1>1
  <2>4. CASE ~HasEdge(t, Last(p), i)
    BY <2>1, <2>3, <2>4, FindIs
  <2>5. CASE HasEdge(t, Last(p), i) /\ i \in On(p)
    <3>1. i = p[1]
      BY <2>1, <2>5, FindIs
    <3> QED BY <2>2, <2>5, <3>1
  <2>6. CASE HasEdge(t, Last(p), i) /\ i \notin On(p)
    <3>1. CASE Find(t, Append(p, i), 0) = "FALSE"
      BY <2>1, <2>3, <2>6, <3>1, FindIs
    <3>2. CASE Find(t, Append(p, i), 0) # "FALSE"
      <4>1. Find(t, Append(p, i), 0) = "TRUE"
        BY <2>1, <2>6, <3>2, FindIs
      <4>2. Append(p, i)[1] = s /\ Last(Append(p, i)) \in A
        BY <2>2, <2>6, Longer
      <4>3. Sound(Append(p, i), 0)
        BY <1>1, <2>2, <2>6
      <4> QED BY <4>1, <4>2, <4>3
    <3> QED BY <3>1, <3>2
  <2> QED BY <2>4, <2>5, <2>6
<1>2. \A p \in Path, i \in 0 .. SlotCount : <<p, i>> \in Holds
  <2>1. Holds \in SUBSET (Path \X (0 .. SlotCount))
    OBVIOUS
  <2> HIDE DEF Holds
  <2> QED BY <1>1, <2>1, FindAll
<1> QED BY <1>2

LEMMA CheckIs ==
  ASSUME NEW t \in Table, NEW s \in Slot
  PROVE  CheckDeadlock(t, NoGroups, s) <=> Find(t, <<s>>, 0) = "TRUE"
BY AtIs, One, SlotIs DEF CheckDeadlock, Find, Found

LEMMA DeadlockIsCycle ==
  ASSUME table \in Table, NEW s \in Slot, CheckDeadlock(table, NoGroups, s)
  PROVE  OnCycle(s)
<1>1. Find(table, <<s>>, 0) = "TRUE"
  BY CheckIs
<1> SUFFICES ASSUME NEW A \in SUBSET Slot, Successors(A \cup {s}) \subseteq A PROVE s \in A
  BY DEF OnCycle, Reachable
<1>2. \A a \in A \cup {s}, u \in Slot : HasEdge(table, a, u) => u \in A
  BY DEF Successors
<1> QED BY <1>1, <1>2, FindIsSound, One, SlotIs

-----------------------------------------------------------------------------
(* Somebody on a cycle finds it                                             *)

\* From a slot on a cycle the search finds something.
LEMMA CycleIsMet ==
  ASSUME table \in Table, NEW s \in Slot, OnCycle(s)
  PROVE  Find(table, <<s>>, 0) # "FALSE"
<1> SUFFICES ASSUME Find(table, <<s>>, 0) = "FALSE" PROVE FALSE
  OBVIOUS
<1> DEFINE A == {u \in Slot : u # s /\ \E p \in Path : p[1] = s /\ Last(p) = u /\ Find(table, p, 0) = "FALSE"}
<1>1. ASSUME NEW p \in Path, p[1] = s, Find(table, p, 0) = "FALSE", NEW u \in Slot, HasEdge(table, Last(p), u)
      PROVE  u \in A
  <2>1. u \notin On(p) /\ Find(table, Append(p, u), 0) = "FALSE"
    <3>1. u >= 0 /\ 0 \in 0 .. SlotCount
      BY SlotIs DEF Slot
    <3> QED BY <1>1, <3>1, FindsNothing
  <2>2. u # s
    BY <1>1, <2>1, PathIs
  <2>3. Append(p, u) \in Path /\ Append(p, u)[1] = s /\ Last(Append(p, u)) = u
    BY <1>1, Longer
  <2> QED BY <2>1, <2>2, <2>3
<1>2. Successors(A \cup {s}) \subseteq A
  <2> SUFFICES ASSUME NEW a \in A \cup {s}, NEW u \in Slot, HasEdge(table, a, u) PROVE u \in A
    BY DEF Successors
  <2>1. CASE a = s
    BY <1>1, <2>1, One
  <2>2. CASE a \in A
    BY <1>1, <2>2
  <2> QED BY <2>1, <2>2
<1>3. s \in A
  <2>1. A \in SUBSET Slot
    OBVIOUS
  <2> HIDE DEF A
  <2> QED BY <1>2, <2>1 DEF OnCycle, Reachable
<1> QED BY <1>3

\* A search behind fewer slots finds nothing, either.
LEMMA FewerFindNothing ==
  ASSUME NEW t \in Table
  PROVE  \A q \in Path, i \in 0 .. SlotCount :
           \A p \in Path : /\ On(q) \subseteq On(p) /\ Last(q) = Last(p)
                           /\ Find(t, p, i) = "FALSE"
                           => Find(t, q, i) = "FALSE"
<1> DEFINE Fewer(q, i) == \A p \in Path : /\ On(q) \subseteq On(p) /\ Last(q) = Last(p)
                                          /\ Find(t, p, i) = "FALSE"
                                          => Find(t, q, i) = "FALSE"
           Holds == {h \in Path \X (0 .. SlotCount) : Fewer(h[1], h[2])}
<1>1. ASSUME NEW q \in Path, NEW i \in 0 .. SlotCount,
             \A u \in Slot \ On(q) : <<Append(q, u), 0>> \in Holds
      PROVE  <<q, i>> \in Holds
  <2> SUFFICES ASSUME NEW p \in Path, On(q) \subseteq On(p), Last(q) = Last(p), Find(t, p, i) = "FALSE"
               PROVE  Find(t, q, i) = "FALSE"
    OBVIOUS
  <2>1. ASSUME NEW u \in Slot, u >= i, HasEdge(t, Last(q), u)
        PROVE  u \notin On(q) /\ Find(t, Append(q, u), 0) = "FALSE"
    <3>1. u \notin On(p) /\ Find(t, Append(p, u), 0) = "FALSE"
      BY <2>1, FindsNothing
    <3>2. Fewer(Append(q, u), 0)
      BY <1>1, <3>1
    <3>3. /\ Append(p, u) \in Path /\ On(Append(q, u)) \subseteq On(Append(p, u))
          /\ Last(Append(q, u)) = Last(Append(p, u))
      BY Longer
    <3> QED BY <3>1, <3>2, <3>3
  <2> QED BY <2>1, FindsNothing
<1>2. \A q \in Path, i \in 0 .. SlotCount : <<q, i>> \in Holds
  <2>1. Holds \in SUBSET (Path \X (0 .. SlotCount))
    OBVIOUS
  <2> HIDE DEF Holds
  <2> QED BY <1>1, <2>1, FindAll
<1> QED BY <1>2

\* The chain from its k-th slot on.
From(p, k) == SubSeq(p, k, Len(p))

LEMMA FromIs ==
  ASSUME NEW p \in Path, NEW k \in 1 .. Len(p)
  PROVE  /\ From(p, k) \in Path /\ From(p, k)[1] = p[k] /\ Last(From(p, k)) = Last(p)
         /\ On(From(p, k)) \subseteq On(p)
         /\ \A u \in Slot : From(Append(p, u), k) = Append(From(p, k), u)
<1> DEFINE q == From(p, k)
<1>1. p \in Seq(Slot) /\ Len(p) \in Nat \ {0}
  BY PathIs
<1>2. \A j \in k .. Len(p) : p[j] \in Slot
  BY <1>1
<1>3. /\ q \in Seq(Slot) /\ Len(q) = Len(p) - k + 1
      /\ \A j \in 1 .. Len(p) - k + 1 : q[j] = p[k + j - 1]
  BY <1>1, <1>2, SubSeqProperties DEF From
<1> HIDE DEF q
<1>4. q \in Path /\ q[1] = p[k] /\ Last(q) = Last(p) /\ On(q) \subseteq On(p)
  BY <1>1, <1>3 DEF Path, Last, On
<1>5. ASSUME NEW u \in Slot PROVE From(Append(p, u), k) = Append(q, u)
  <2> DEFINE r == Append(p, u)
  <2>1. /\ r \in Seq(Slot) /\ Len(r) = Len(p) + 1 /\ r[Len(p) + 1] = u
        /\ \A j \in 1 .. Len(p) : r[j] = p[j]
    BY <1>1, AppendProperties
  <2> HIDE DEF r
  <2>2. \A j \in k .. Len(r) : r[j] \in Slot
    BY <1>1, <2>1
  <2>3. /\ From(r, k) \in Seq(Slot) /\ Len(From(r, k)) = Len(p) + 1 - k + 1
        /\ \A j \in 1 .. Len(p) + 1 - k + 1 : From(r, k)[j] = r[k + j - 1]
    BY <1>1, <2>1, <2>2, SubSeqProperties DEF From
  <2>4. /\ Append(q, u) \in Seq(Slot) /\ Len(Append(q, u)) = Len(q) + 1
        /\ Append(q, u)[Len(q) + 1] = u
        /\ \A j \in 1 .. Len(q) : Append(q, u)[j] = q[j]
    <3>1. q \in Seq(Slot) /\ u \in Slot
      BY <1>3
    <3> QED BY <3>1, AppendProperties
  <2>5. ASSUME NEW j \in 1 .. Len(p) + 1 - k + 1 PROVE From(r, k)[j] = Append(q, u)[j]
    <3>1. CASE j = Len(q) + 1
      <4>1. k + j - 1 = Len(p) + 1
        BY <1>1, <1>3, <3>1
      <4>2. From(r, k)[j] = u
        BY <2>1, <2>3, <4>1
      <4> QED BY <2>4, <3>1, <4>2
    <3>2. CASE j # Len(q) + 1
      <4>1. j \in 1 .. Len(q) /\ k + j - 1 \in 1 .. Len(p)
        BY <1>1, <1>3, <3>2
      <4> QED BY <1>3, <2>1, <2>3, <2>4, <4>1
    <3> QED BY <3>1, <3>2
  <2>6. Len(From(r, k)) = Len(Append(q, u))
    BY <1>1, <1>3, <2>3, <2>4
  <2> QED BY <2>3, <2>4, <2>5, <2>6, SeqEqual DEF r
<1> QED BY <1>4, <1>5 DEF q

LEMMA FromEnd ==
  ASSUME NEW p \in Path, NEW u \in Slot
  PROVE  From(Append(p, u), Len(p) + 1) = <<u>>
<1>1. Append(p, u) \in Path /\ Len(Append(p, u)) = Len(p) + 1 /\ Len(p) \in Nat \ {0}
  BY Longer, PathIs
<1>2. Append(p, u)[Len(p) + 1] = u /\ Append(p, u) \in Seq(Slot)
  BY <1>1, PathIs, AppendProperties
<1>3. /\ From(Append(p, u), Len(p) + 1) \in Seq(Slot)
      /\ Len(From(Append(p, u), Len(p) + 1)) = 1
      /\ From(Append(p, u), Len(p) + 1)[1] = u
  BY <1>1, <1>2, SubSeqProperties DEF From
<1> QED BY <1>3

\* A search that gives up has met a cycle without its head: it would have found it from a
\* later slot of its chain, or from a slot further down.
LEMMA ExitShowsCycle ==
  ASSUME NEW t \in Table, \A v \in Slot : Find(t, <<v>>, 0) # "TRUE"
  PROVE  \A p \in Path, i \in 0 .. SlotCount :
           Find(t, p, i) = "EXIT" => \E k \in 2 .. Len(p) : Find(t, From(p, k), i) = "TRUE"
<1> DEFINE Shows(p, i) ==
             Find(t, p, i) = "EXIT" => \E k \in 2 .. Len(p) : Find(t, From(p, k), i) = "TRUE"
           Holds == {h \in Path \X (0 .. SlotCount) : Shows(h[1], h[2])}
<1>1. ASSUME NEW p \in Path, NEW i \in 0 .. SlotCount,
             \A u \in Slot \ On(p) : <<Append(p, u), 0>> \in Holds,
             i # SlotCount => <<p, i + 1>> \in Holds
      PROVE  <<p, i>> \in Holds
  <2> SUFFICES ASSUME Find(t, p, i) = "EXIT" PROVE \E k \in 2 .. Len(p) : Find(t, From(p, k), i) = "TRUE"
    OBVIOUS
  <2>1. i # SlotCount
    BY FindIs
  <2>2. i \in Slot /\ i + 1 \in 0 .. SlotCount
    BY <2>1, SlotIs
  <2>3. Shows(p, i + 1)
    BY <1>1, <2>1
  <2>4. ASSUME NEW k \in 2 .. Len(p)
        PROVE  /\ k \in 1 .. Len(p) /\ From(p, k) \in Path /\ From(p, k)[1] = p[k]
               /\ Last(From(p, k)) = Last(p) /\ On(From(p, k)) \subseteq On(p)
               /\ From(Append(p, i), k) = Append(From(p, k), i)
    <3>1. k \in 1 .. Len(p)
      BY PathIs
    <3> QED BY <2>2, <3>1, FromIs
  <2>5. CASE ~HasEdge(t, Last(p), i)
    <3>1. Find(t, p, i + 1) = "EXIT"
      BY <2>1, <2>5, FindIs
    <3>2. PICK k \in 2 .. Len(p) : Find(t, From(p, k), i + 1) = "TRUE"
      BY <2>3, <3>1
    <3>3. Find(t, From(p, k), i) = "TRUE"
      BY <2>1, <2>4, <2>5, <3>2, FindIs
    <3> QED BY <3>3
  <2>6. CASE HasEdge(t, Last(p), i) /\ i \in On(p)
    <3>1. i # p[1]
      BY <2>1, <2>6, FindIs
    <3>2. PICK k \in 1 .. Len(p) : p[k] = i
      BY <2>6 DEF On
    <3>3. k \in 2 .. Len(p)
      BY <3>1, <3>2, PathIs
    <3>4. Find(t, From(p, k), i) = "TRUE"
      BY <2>1, <2>4, <2>6, <3>2, <3>3, FindIs
    <3> QED BY <3>3, <3>4
  <2>7. CASE HasEdge(t, Last(p), i) /\ i \notin On(p)
    <3>1. CASE Find(t, Append(p, i), 0) = "FALSE"
      <4>1. Find(t, p, i + 1) = "EXIT"
        BY <2>1, <2>7, <3>1, FindIs
      <4>2. PICK k \in 2 .. Len(p) : Find(t, From(p, k), i + 1) = "TRUE"
        BY <2>3, <4>1
      <4>3. i \notin On(From(p, k))
        BY <2>4, <2>7
      <4>4. Find(t, Append(From(p, k), i), 0) = "FALSE"
        <5>1. /\ Append(From(p, k), i) \in Path /\ Append(p, i) \in Path
              /\ On(Append(From(p, k), i)) \subseteq On(Append(p, i))
              /\ Last(Append(From(p, k), i)) = Last(Append(p, i))
          BY <2>2, <2>4, Longer
        <5> QED BY <3>1, <5>1, FewerFindNothing, SlotIs
      <4>5. Find(t, From(p, k), i) = "TRUE"
        BY <2>1, <2>4, <2>7, <4>2, <4>3, <4>4, FindIs
      <4> QED BY <4>5
    <3>2. CASE Find(t, Append(p, i), 0) # "FALSE"
      <4>1. Find(t, Append(p, i), 0) = "EXIT"
        BY <2>1, <2>7, <3>2, FindIs
      <4>2. Shows(Append(p, i), 0)
        BY <1>1, <2>2, <2>7
      <4>3. PICK k \in 2 .. Len(Append(p, i)) : Find(t, From(Append(p, i), k), 0) = "TRUE"
        BY <4>1, <4>2
      <4>4. k # Len(p) + 1
        BY <2>2, <4>3, FromEnd
      <4>5. k \in 2 .. Len(p)
        BY <2>2, <4>3, <4>4, Longer, PathIs
      <4>6. Find(t, Append(From(p, k), i), 0) = "TRUE"
        BY <2>4, <4>3, <4>5
      <4>7. i \notin On(From(p, k))
        BY <2>4, <2>7, <4>5
      <4>8. Find(t, From(p, k), i) = "TRUE"
        BY <2>1, <2>4, <2>7, <4>5, <4>6, <4>7, FindIs
      <4> QED BY <4>5, <4>8
    <3> QED BY <3>1, <3>2
  <2> QED BY <2>5, <2>6, <2>7
<1>2. \A p \in Path, i \in 0 .. SlotCount : <<p, i>> \in Holds
  <2>1. Holds \in SUBSET (Path \X (0 .. SlotCount))
    OBVIOUS
  <2> HIDE DEF Holds
  <2> QED BY <1>1, <2>1, FindAll
<1> QED BY <1>2

LEMMA CycleIsFound ==
  ASSUME table \in Table, NEW s \in Slot, OnCycle(s)
  PROVE  \E v \in Slot : CheckDeadlock(table, NoGroups, v)
<1> SUFFICES ASSUME \A v \in Slot : Find(table, <<v>>, 0) # "TRUE" PROVE FALSE
  BY CheckIs
<1>1. Find(table, <<s>>, 0) # "FALSE"
  BY CycleIsMet
<1>2. <<s>> \in Path /\ Len(<<s>>) = 1 /\ 0 \in 0 .. SlotCount
  BY One, SlotIs
<1>3. Find(table, <<s>>, 0) = "EXIT"
  BY <1>1, <1>2, FindIs DEF Verdict
<1>4. \E k \in 2 .. Len(<<s>>) : Find(table, From(<<s>>, k), 0) = "TRUE"
  BY <1>2, <1>3, ExitShowsCycle
<1> QED BY <1>2, <1>4

-----------------------------------------------------------------------------
(* Groups                                                                   *)

\* Whom a slot waits for, all of them and those below slot i.
Edges(t, a)    == {u \in Slot : HasEdge(t, a, u)}
Below(t, a, i) == {u \in Edges(t, a) : u < i}

LEMMA BelowIs ==
  ASSUME NEW t, NEW a, NEW i \in 0 .. SlotCount
  PROVE  /\ IsFiniteSet(Edges(t, a)) /\ Cardinality(Edges(t, a)) \in Nat
         /\ IsFiniteSet(Below(t, a, i)) /\ Cardinality(Below(t, a, i)) \in Nat
         /\ Cardinality(Below(t, a, 0)) = 0
         /\ Below(t, a, SlotCount) = Edges(t, a)
         /\ i # SlotCount /\ HasEdge(t, a, i) =>
              /\ Cardinality(Below(t, a, i + 1)) = Cardinality(Below(t, a, i)) + 1
              /\ Cardinality(Below(t, a, i)) < Cardinality(Edges(t, a))
         /\ i # SlotCount /\ ~HasEdge(t, a, i) => Below(t, a, i + 1) = Below(t, a, i)
<1>1. \A j \in 0 .. SlotCount : Below(t, a, j) \in SUBSET Edges(t, a)
  BY DEF Below
<1>2. IsFiniteSet(Edges(t, a)) /\ Cardinality(Edges(t, a)) \in Nat
  <2>1. Edges(t, a) \in SUBSET Slot
    BY DEF Edges
  <2> QED BY <2>1, SlotIs, FS_Subset, FS_CardinalityType
<1>3. \A j \in 0 .. SlotCount : /\ IsFiniteSet(Below(t, a, j)) /\ Cardinality(Below(t, a, j)) \in Nat
                                /\ Cardinality(Below(t, a, j)) <= Cardinality(Edges(t, a))
  BY <1>1, <1>2, FS_Subset, FS_CardinalityType
<1>4. Below(t, a, 0) = {} /\ Below(t, a, SlotCount) = Edges(t, a)
  BY SlotIs DEF Below, Edges, Slot
<1>5. ASSUME i # SlotCount
      PROVE  Below(t, a, i + 1) = IF HasEdge(t, a, i) THEN Below(t, a, i) \cup {i} ELSE Below(t, a, i)
  <2>1. i \in Slot
    BY <1>5, SlotIs
  <2>2. \A u \in Slot : u < i + 1 <=> u < i \/ u = i
    BY SlotIs DEF Slot
  <2> QED BY <2>1, <2>2 DEF Below, Edges
<1>6. i \notin Below(t, a, i)
  BY SlotIs DEF Below
<1>7. ASSUME i # SlotCount, HasEdge(t, a, i)
      PROVE  /\ Cardinality(Below(t, a, i + 1)) = Cardinality(Below(t, a, i)) + 1
             /\ Cardinality(Below(t, a, i)) < Cardinality(Edges(t, a))
  <2>1. Cardinality(Below(t, a, i + 1)) = Cardinality(Below(t, a, i)) + 1
    BY <1>3, <1>5, <1>6, <1>7, FS_AddElement
  <2>2. Cardinality(Below(t, a, i + 1)) <= Cardinality(Edges(t, a))
    BY <1>3, <1>7, SlotIs
  <2> QED BY <1>2, <1>3, <2>1, <2>2
<1>8. Cardinality(Below(t, a, 0)) = 0
  BY <1>4, FS_EmptySet
<1> QED BY <1>2, <1>3, <1>4, <1>5, <1>7, <1>8

\* The loop of smklCheckRequestGroupDeadlockInternal.
LEMMA GroupFoundIs ==
  ASSUME NEW t \in Table, NEW w \in Counts, GroupsWaitForTrans(t, w),
         NEW x \in Frames, IsGroup(w, Last(x.path)),
         NEW c, c = GroupWorkers(w, SlotCount, Last(x.path))
  PROVE  /\ c = 0 => Search(t, w)[x] = "FALSE"
         /\ c # 0 /\ x.i = SlotCount => Search(t, w)[x] = IF x.dead = c THEN "TRUE" ELSE x.last
         /\ c # 0 /\ x.i # SlotCount =>
              /\ ~HasEdge(t, Last(x.path), x.i) =>
                   Search(t, w)[x] = Search(t, w)[Onward(x, x.dead, x.last)]
              /\ HasEdge(t, Last(x.path), x.i) /\ x.i = x.path[1] =>
                   Search(t, w)[x] = Search(t, w)[Onward(x, x.dead + 1, x.last)]
              /\ HasEdge(t, Last(x.path), x.i) /\ x.i # x.path[1] =>
                   Search(t, w)[x] =
                     IF Found(t, w, Append(x.path, x.i), 0) = "FALSE"
                     THEN IF x.dead = c THEN "TRUE" ELSE "FALSE"
                     ELSE Search(t, w)[Onward(x, x.dead + 1, Found(t, w, Append(x.path, x.i), 0))]
<1>1. \A y \in Frames : y.path = x.path => Search(t, w)[y] = GroupStep(t, c, Search(t, w), y)
  BY SearchIs, VisitIs
<1>2. Stopped(x) \in Frames /\ Stopped(x).path = x.path /\ Stopped(x).i = SlotCount
      /\ Stopped(x).dead = x.dead /\ Stopped(x).last = "FALSE"
  BY StoppedIs
<1>3. c # 0 => Search(t, w)[Stopped(x)] = IF x.dead = c THEN "TRUE" ELSE "FALSE"
  BY <1>1, <1>2 DEF GroupStep
<1>4. Search(t, w)[Enter(Append(x.path, x.i))] = Found(t, w, Append(x.path, x.i), 0)
  BY DEF Found, Enter, At
<1>5. Search(t, w)[x] = GroupStep(t, c, Search(t, w), x)
  BY <1>1
<1> QED BY <1>3, <1>4, <1>5 DEF GroupStep

-----------------------------------------------------------------------------
(* A knot of waits is met                                                   *)

\* Slots that can only wait for each other: a transaction waits for one of them, and a
\* group has every server stuck with one.
Knot(t, w, K) ==
  \A a \in K :
    /\ ~IsGroup(w, a) => \E u \in K : Edges(t, a) = {u}
    /\ IsGroup(w, a) => /\ Edges(t, a) \subseteq K
                        /\ Cardinality(Edges(t, a)) = GroupWorkers(w, SlotCount, a)
                        /\ Edges(t, a) # {}

\* What a frame of a slot of a knot is sure of.
Sure(t, w, x) ==
  /\ ~IsGroup(w, Last(x.path)) =>
       ((\E u \in Edges(t, Last(x.path)) : u >= x.i) => Search(t, w)[x] # "FALSE")
  /\ IsGroup(w, Last(x.path)) =>
       (x.dead = Cardinality(Below(t, Last(x.path), x.i)) => Search(t, w)[x] = "TRUE")

LEMMA KnotStep ==
  ASSUME NEW t \in Table, NEW w \in Counts, GroupsWaitForTrans(t, w),
         NEW K \in SUBSET Slot, Knot(t, w, K), NEW x \in Frames, Last(x.path) \in K,
         \A y \in Frames : Size(w, y) < Size(w, x) /\ Last(y.path) \in K => Sure(t, w, y)
  PROVE  Sure(t, w, x)
<1> DEFINE p == x.path
           a == Last(p)
           i == x.i
           q == Append(p, i)
<1>1. p \in Path /\ i \in 0 .. SlotCount /\ x.dead \in Nat /\ x.last \in Verdict /\ a \in Slot
  <2>1. p \in Path
    BY DEF Frames
  <2> QED BY <2>1, PathIs DEF Frames
<1>2. ASSUME NEW d \in Nat, NEW v \in Verdict, i # SlotCount
      PROVE  /\ Onward(x, d, v) \in Frames /\ Onward(x, d, v).path = p /\ Onward(x, d, v).i = i + 1
             /\ Onward(x, d, v).dead = d /\ Sure(t, w, Onward(x, d, v))
  <2>1. /\ Onward(x, d, v) \in Frames /\ Onward(x, d, v).path = p /\ Onward(x, d, v).i = i + 1
        /\ Onward(x, d, v).dead = d
    BY <1>2, OnwardIs
  <2>2. Size(w, Onward(x, d, v)) < Size(w, x)
    BY <1>2, OnwardIsSmaller
  <2>3. Last(Onward(x, d, v).path) \in K
    BY <2>1
  <2> QED BY <2>1, <2>2, <2>3
<1>3. ASSUME i # SlotCount, HasEdge(t, a, i), i \notin On(p) \/ IsGroup(w, a)
      PROVE  /\ i \in K /\ Found(t, w, q, 0) \in Verdict /\ Found(t, w, q, 0) # "FALSE"
  <2>1. i \in Slot /\ i \in Edges(t, a)
    BY <1>1, <1>3, SlotIs DEF Edges
  <2>2. i \in K
    BY <2>1 DEF Knot
  <2>3. q \in Path /\ Last(q) = i
    BY <1>1, <2>1, Longer
  <2>4. Enter(q) = At(q, 0) /\ Enter(q) \in Frames /\ Enter(q).path = q /\ Enter(q).i = 0 /\ Enter(q).dead = 0
    BY <2>3, EnterIs, AtIs, SlotIs
  <2>5. Size(w, Enter(q)) < Size(w, x)
    <3>1. IsGroup(w, a) => ~IsGroup(w, i)
      BY <1>1, <1>3, <2>1 DEF GroupsWaitForTrans
    <3> QED BY <1>3, <2>1, <3>1, LongerIsSmaller
  <2> HIDE DEF q
  <2>6. Sure(t, w, Enter(q))
    BY <2>2, <2>3, <2>4, <2>5
  <2>7. Search(t, w)[Enter(q)] # "FALSE"
    <3>1. CASE IsGroup(w, i)
      <4>1. Enter(q).dead = Cardinality(Below(t, i, 0))
        BY <2>4, BelowIs, SlotIs
      <4> QED BY <2>3, <2>4, <2>6, <3>1, <4>1 DEF Sure
    <3>2. CASE ~IsGroup(w, i)
      <4>1. PICK u \in K : Edges(t, i) = {u}
        BY <2>2, <3>2 DEF Knot
      <4>2. u \in Edges(t, i) /\ u >= 0
        BY <4>1, SlotIs DEF Slot
      <4> QED BY <2>3, <2>4, <2>6, <3>2, <4>2 DEF Sure
    <3> QED BY <3>1, <3>2
  <2> QED BY <2>2, <2>4, <2>7, SearchIs DEF Found
<1>4. ASSUME ~IsGroup(w, a), NEW u \in Edges(t, a), u >= i PROVE Search(t, w)[x] # "FALSE"
  <2>1. i # SlotCount
    BY <1>1, <1>4, SlotIs DEF Edges, Slot
  <2>2. Search(t, w)[x] = Step(t, Search(t, w), x)
    BY <1>4, SearchIs, VisitIs
  <2>3. p[1] \in On(p)
    BY <1>1, PathIs
  <2>4. CASE ~HasEdge(t, a, i)
    <3>1. u >= i + 1
      <4>1. u \in Slot /\ u # i
        BY <1>4, <2>4 DEF Edges
      <4> QED BY <1>1, <1>4, <4>1 DEF Slot
    <3>2. Search(t, w)[Onward(x, x.dead, x.last)] # "FALSE"
      BY <1>1, <1>2, <1>4, <2>1, <3>1 DEF Sure
    <3> QED BY <2>1, <2>2, <2>4, <3>2 DEF Step
  <2>5. CASE HasEdge(t, a, i) /\ i \in On(p)
    BY <2>1, <2>2, <2>5 DEF Step
  <2>6. CASE HasEdge(t, a, i) /\ i \notin On(p)
    <3>1. Found(t, w, q, 0) # "FALSE"
      BY <1>3, <2>1, <2>6
    <3>2. Search(t, w)[Enter(q)] = Found(t, w, q, 0)
      BY DEF Found, Enter, At
    <3> QED BY <2>1, <2>2, <2>3, <2>6, <3>1, <3>2 DEF Step
  <2> QED BY <2>4, <2>5, <2>6
<1>5. ASSUME IsGroup(w, a), x.dead = Cardinality(Below(t, a, i)) PROVE Search(t, w)[x] = "TRUE"
  <2> DEFINE c == GroupWorkers(w, SlotCount, a)
  <2>1. c = Cardinality(Edges(t, a)) /\ c # 0
    <3>1. c = Cardinality(Edges(t, a)) /\ Edges(t, a) # {}
      BY <1>5 DEF Knot
    <3> QED BY <1>1, <3>1, BelowIs, FS_EmptySet
  <2> HIDE DEF c
  <2>2. CASE i = SlotCount
    <3>1. x.dead = c
      BY <1>1, <1>5, <2>1, <2>2, BelowIs
    <3> QED BY <1>5, <2>1, <2>2, <3>1, GroupFoundIs DEF c
  <2>3. CASE i # SlotCount /\ ~HasEdge(t, a, i)
    <3>1. x.dead = Cardinality(Below(t, a, i + 1))
      BY <1>1, <1>5, <2>3, BelowIs
    <3>2. Search(t, w)[Onward(x, x.dead, x.last)] = "TRUE"
      BY <1>1, <1>2, <1>5, <2>3, <3>1 DEF Sure
    <3> QED BY <1>5, <2>1, <2>3, <3>2, GroupFoundIs DEF c
  <2>4. CASE i # SlotCount /\ HasEdge(t, a, i)
    <3>1. x.dead + 1 = Cardinality(Below(t, a, i + 1)) /\ x.dead + 1 \in Nat
      BY <1>1, <1>5, <2>4, BelowIs
    <3>2. \A v \in Verdict : Search(t, w)[Onward(x, x.dead + 1, v)] = "TRUE"
      BY <1>2, <1>5, <2>4, <3>1 DEF Sure
    <3>3. Found(t, w, q, 0) \in Verdict /\ Found(t, w, q, 0) # "FALSE"
      BY <1>3, <1>5, <2>4
    <3>4. CASE i = p[1]
      BY <1>1, <1>5, <2>1, <2>4, <3>2, <3>4, GroupFoundIs DEF c
    <3>5. CASE i # p[1]
      BY <1>1, <1>5, <2>1, <2>4, <3>2, <3>3, <3>5, GroupFoundIs DEF c
    <3> QED BY <3>4, <3>5
  <2> QED BY <2>2, <2>3, <2>4
<1> QED BY <1>4, <1>5 DEF Sure

LEMMA KnotIsMet ==
  ASSUME NEW t \in Table, NEW w \in Counts, GroupsWaitForTrans(t, w),
         NEW K \in SUBSET Slot, Knot(t, w, K), NEW p \in Path, Last(p) \in K
  PROVE  /\ Found(t, w, p, 0) # "FALSE"
         /\ IsGroup(w, Last(p)) => Found(t, w, p, 0) = "TRUE"
<1> DEFINE T == {x \in Frames : Last(x.path) \in K /\ ~Sure(t, w, x)}
<1>1. T = {}
  <2> SUFFICES ASSUME T # {} PROVE FALSE
    OBVIOUS
  <2>1. PICK x \in T : \A y \in Frames : Size(w, y) < Size(w, x) => y \notin T
    <3>1. T \in SUBSET Frames
      OBVIOUS
    <3> HIDE DEF T
    <3> QED BY <3>1, SmallestFrame
  <2>2. x \in Frames /\ Last(x.path) \in K /\ ~Sure(t, w, x)
    OBVIOUS
  <2>3. \A y \in Frames : Size(w, y) < Size(w, x) /\ Last(y.path) \in K => Sure(t, w, y)
    BY <2>1
  <2> QED BY <2>2, <2>3, KnotStep
<1>2. At(p, 0) \in Frames /\ At(p, 0).path = p /\ At(p, 0).i = 0 /\ At(p, 0).dead = 0
  BY AtIs, SlotIs DEF At
<1>3. Sure(t, w, At(p, 0))
  BY <1>1, <1>2
<1>4. CASE IsGroup(w, Last(p))
  <2>1. Cardinality(Below(t, Last(p), 0)) = 0
    BY BelowIs, SlotIs
  <2> QED BY <1>2, <1>3, <1>4, <2>1 DEF Sure, Found
<1>5. CASE ~IsGroup(w, Last(p))
  <2>1. PICK u \in K : Edges(t, Last(p)) = {u}
    BY <1>5 DEF Knot
  <2>2. u \in Edges(t, Last(p)) /\ u >= 0
    BY <2>1, SlotIs DEF Slot
  <2> QED BY <1>2, <1>3, <1>5, <2>2 DEF Sure, Found
<1> QED BY <1>4, <1>5

-----------------------------------------------------------------------------
(* and somebody in it finds it                                              *)

\* A transaction that waits for one other slot.
LEMMA NextIs ==
  ASSUME NEW t \in Table, NEW w \in Counts, GroupsWaitForTrans(t, w),
         NEW p \in Path, ~IsGroup(w, Last(p)), NEW u \in Slot, Edges(t, Last(p)) = {u}
  PROVE  /\ u = p[1] => Found(t, w, p, 0) = "TRUE"
         /\ u \notin On(p) /\ Found(t, w, Append(p, u), 0) # "FALSE" =>
              Found(t, w, p, 0) = Found(t, w, Append(p, u), 0)
<1> DEFINE Skips(q, i) == q = p /\ i <= u => Found(t, w, q, i) = Found(t, w, p, u)
           Holds == {h \in Path \X (0 .. SlotCount) : Skips(h[1], h[2])}
<1>1. ASSUME NEW q \in Path, NEW i \in 0 .. SlotCount, i # SlotCount => <<q, i + 1>> \in Holds
      PROVE  <<q, i>> \in Holds
  <2> SUFFICES ASSUME q = p, i <= u, i # u PROVE Found(t, w, p, i) = Found(t, w, p, u)
    OBVIOUS
  <2>1. i # SlotCount /\ i + 1 <= u /\ i \in Slot
    BY SlotIs DEF Slot
  <2>2. Skips(p, i + 1)
    BY <1>1, <2>1
  <2>3. ~HasEdge(t, Last(p), i)
    BY <2>1 DEF Edges
  <2> QED BY <2>1, <2>2, <2>3, FoundIs
<1>2. \A q \in Path, i \in 0 .. SlotCount : <<q, i>> \in Holds
  <2>1. Holds \in SUBSET (Path \X (0 .. SlotCount))
    OBVIOUS
  <2> HIDE DEF Holds
  <2> QED BY <1>1, <2>1, FindAll
<1>3. Found(t, w, p, 0) = Found(t, w, p, u)
  <2>1. 0 \in 0 .. SlotCount /\ 0 <= u
    BY SlotIs DEF Slot
  <2>2. <<p, 0>> \in Holds
    BY <1>2, <2>1
  <2> QED BY <2>1, <2>2
<1>4. u \in 0 .. SlotCount /\ u # SlotCount /\ HasEdge(t, Last(p), u)
  BY SlotIs DEF Slot, Edges
<1> HIDE DEF Holds
<1> QED BY <1>3, <1>4, FoundIs

\* A search that gives up in a knot shows, as without groups, who would have found it;
\* it never gives up behind a group.
LEMMA ExitShowsKnot ==
  ASSUME NEW t \in Table, NEW w \in Counts, GroupsWaitForTrans(t, w),
         NEW K \in SUBSET Slot, Knot(t, w, K),
         \A v \in K : /\ ~IsGroup(w, v)
                      /\ \E u \in Edges(t, v) : ~IsGroup(w, u)
                      => Found(t, w, <<v>>, 0) # "TRUE"
  PROVE  \A p \in Path :
           /\ \A u \in On(p) : ~IsGroup(w, u)
           /\ Last(p) \in K /\ Found(t, w, p, 0) = "EXIT"
           => \E k \in 2 .. Len(p) : Found(t, w, From(p, k), 0) = "TRUE"
<1> DEFINE Shows(p) == /\ \A u \in On(p) : ~IsGroup(w, u)
                       /\ Last(p) \in K /\ Found(t, w, p, 0) = "EXIT"
                       => \E k \in 2 .. Len(p) : Found(t, w, From(p, k), 0) = "TRUE"
           Holds == {h \in Path \X (0 .. SlotCount) : Shows(h[1])}
<1>1. ASSUME NEW p \in Path, NEW i \in 0 .. SlotCount,
             \A u \in Slot \ On(p) : <<Append(p, u), 0>> \in Holds
      PROVE  <<p, i>> \in Holds
  <2> SUFFICES ASSUME \A u \in On(p) : ~IsGroup(w, u), Last(p) \in K, Found(t, w, p, 0) = "EXIT"
               PROVE  \E k \in 2 .. Len(p) : Found(t, w, From(p, k), 0) = "TRUE"
    OBVIOUS
  <2>1. Last(p) \in On(p) /\ On(p) \subseteq Slot /\ Len(p) \in Nat \ {0}
    BY PathIs
  <2>2. PICK u \in K : Edges(t, Last(p)) = {u}
    BY <2>1 DEF Knot
  <2>3. u \in Slot /\ u # p[1] /\ ~IsGroup(w, Last(p))
    BY <2>1, <2>2, NextIs
  <2>4. Append(p, u) \in Path /\ Last(Append(p, u)) = u /\ On(Append(p, u)) = On(p) \cup {u}
        /\ Len(Append(p, u)) = Len(p) + 1
    BY <2>3, Longer
  <2>5. Found(t, w, Append(p, u), 0) # "FALSE" /\ (IsGroup(w, u) => Found(t, w, Append(p, u), 0) = "TRUE")
    BY <2>4, KnotIsMet
  <2>6. ASSUME NEW k \in 2 .. Len(p)
        PROVE  /\ k \in 1 .. Len(p) /\ From(p, k) \in Path /\ From(p, k)[1] = p[k]
               /\ Last(From(p, k)) = Last(p) /\ On(From(p, k)) \subseteq On(p)
               /\ From(Append(p, u), k) = Append(From(p, k), u)
    <3>1. k \in 1 .. Len(p)
      BY <2>1
    <3> QED BY <2>3, <3>1, FromIs
  <2>7. CASE u \in On(p)
    <3>1. PICK k \in 1 .. Len(p) : p[k] = u
      BY <2>7 DEF On
    <3>2. k \in 2 .. Len(p)
      BY <2>1, <2>3, <3>1
    <3>3. Found(t, w, From(p, k), 0) = "TRUE"
      BY <2>2, <2>3, <2>6, <3>1, <3>2, NextIs
    <3> QED BY <3>2, <3>3
  <2>8. CASE u \notin On(p)
    <3>1. Found(t, w, Append(p, u), 0) = "EXIT"
      BY <2>2, <2>3, <2>5, <2>8, NextIs
    <3>2. ~IsGroup(w, u)
      BY <2>5, <3>1
    <3>3. Shows(Append(p, u))
      BY <1>1, <2>3, <2>8
    <3>4. PICK k \in 2 .. Len(Append(p, u)) : Found(t, w, From(Append(p, u), k), 0) = "TRUE"
      BY <2>4, <3>1, <3>2, <3>3
    <3>5. k # Len(p) + 1
      <4> SUFFICES ASSUME k = Len(p) + 1 PROVE FALSE
        OBVIOUS
      <4>1. Found(t, w, <<u>>, 0) = "TRUE"
        BY <2>3, <3>4, FromEnd
      <4>2. PICK g \in K : Edges(t, u) = {g}
        BY <2>2, <3>2 DEF Knot
      <4>3. IsGroup(w, g)
        BY <3>2, <4>1, <4>2
      <4>4. g \in Slot /\ g \notin On(Append(p, u))
        BY <2>4, <3>2, <4>3
      <4>5. Append(Append(p, u), g) \in Path /\ Last(Append(Append(p, u), g)) = g
        BY <2>4, <4>4, Longer
      <4>6. Found(t, w, Append(Append(p, u), g), 0) = "TRUE"
        BY <4>3, <4>5, KnotIsMet
      <4>7. Found(t, w, Append(p, u), 0) = "TRUE"
        BY <2>4, <3>2, <4>2, <4>4, <4>6, NextIs
      <4> QED BY <3>1, <4>7
    <3>6. k \in 2 .. Len(p)
      BY <2>1, <2>4, <3>4, <3>5
    <3>7. Found(t, w, Append(From(p, k), u), 0) = "TRUE" /\ u \notin On(From(p, k))
      BY <2>6, <2>8, <3>4, <3>6
    <3>8. Found(t, w, From(p, k), 0) = "TRUE"
      BY <2>2, <2>3, <2>6, <3>6, <3>7, NextIs
    <3> QED BY <3>6, <3>8
  <2> QED BY <2>7, <2>8
<1>2. \A q \in Path, i \in 0 .. SlotCount : <<q, i>> \in Holds
  <2>1. Holds \in SUBSET (Path \X (0 .. SlotCount))
    OBVIOUS
  <2> HIDE DEF Holds
  <2> QED BY <1>1, <2>1, FindAll
<1>3. 0 \in 0 .. SlotCount
  BY SlotIs
<1> QED BY <1>2, <1>3

\* No deadlock through request groups is missed by all: in a knot, where a transaction
\* waits for one slot of it and a group has all of its servers stuck with it, the search of
\* smklWaitGraph.c tells a transaction that waits for another one that it is deadlocked.
THEOREM KnotIsFound ==
  ASSUME NEW t \in Table, NEW w \in Counts, GroupsWaitForTrans(t, w),
         NEW K \in SUBSET Slot, Knot(t, w, K),
         NEW s \in K, ~IsGroup(w, s), \E u \in Edges(t, s) : ~IsGroup(w, u)
  PROVE  \E v \in K : /\ ~IsGroup(w, v) /\ CheckDeadlock(t, w, v)
                      /\ \E u \in Edges(t, v) : ~IsGroup(w, u)
<1>1. \A v \in Slot : CheckDeadlock(t, w, v) <=> Found(t, w, <<v>>, 0) = "TRUE"
  BY One, AtIs, SlotIs DEF CheckDeadlock, Found
<1> SUFFICES ASSUME \A v \in K : ~IsGroup(w, v) /\ (\E u \in Edges(t, v) : ~IsGroup(w, u))
                                   => Found(t, w, <<v>>, 0) # "TRUE"
             PROVE  FALSE
  BY <1>1
<1>2. s \in Slot /\ <<s>> \in Path /\ Len(<<s>>) = 1 /\ Last(<<s>>) = s /\ On(<<s>>) = {s}
  BY One
<1>3. Found(t, w, <<s>>, 0) # "FALSE" /\ Found(t, w, <<s>>, 0) # "TRUE"
  BY <1>2, KnotIsMet
<1>4. Found(t, w, <<s>>, 0) \in Verdict
  BY <1>2, AtIs, SearchIs, SlotIs DEF Found
<1>5. Found(t, w, <<s>>, 0) = "EXIT"
  BY <1>3, <1>4 DEF Verdict
<1>6. \E k \in 2 .. Len(<<s>>) : Found(t, w, From(<<s>>, k), 0) = "TRUE"
  BY <1>2, <1>5, ExitShowsKnot
<1> QED BY <1>2, <1>6

-----------------------------------------------------------------------------
(* Whoever is told that it is deadlocked leads to slots that cannot move    *)

LEMMA TransFinds ==
  ASSUME NEW t \in Table, NEW w \in Counts, GroupsWaitForTrans(t, w),
         NEW p \in Path, ~IsGroup(w, Last(p)), Found(t, w, p, 0) # "FALSE"
  PROVE  \E u \in Edges(t, Last(p)) : u \in On(p) \/ Found(t, w, Append(p, u), 0) # "FALSE"
<1> SUFFICES ASSUME \A u \in Edges(t, Last(p)) : u \notin On(p) /\ Found(t, w, Append(p, u), 0) = "FALSE"
             PROVE  FALSE
  OBVIOUS
<1> DEFINE Holds == {h \in Path \X (0 .. SlotCount) : h[1] = p => Found(t, w, p, h[2]) = "FALSE"}
<1>1. ASSUME NEW q \in Path, NEW i \in 0 .. SlotCount, i # SlotCount => <<q, i + 1>> \in Holds
      PROVE  <<q, i>> \in Holds
  <2> SUFFICES ASSUME q = p PROVE Found(t, w, p, i) = "FALSE"
    OBVIOUS
  <2>1. i # SlotCount => Found(t, w, p, i + 1) = "FALSE" /\ i \in Slot
    BY <1>1, SlotIs
  <2>2. i # SlotCount /\ HasEdge(t, Last(p), i) => i \notin On(p) /\ Found(t, w, Append(p, i), 0) = "FALSE"
    BY <2>1 DEF Edges
  <2> QED BY <2>1, <2>2, FoundIs
<1>2. \A q \in Path, i \in 0 .. SlotCount : <<q, i>> \in Holds
  <2>1. Holds \in SUBSET (Path \X (0 .. SlotCount))
    OBVIOUS
  <2> HIDE DEF Holds
  <2> QED BY <1>1, <2>1, FindAll
<1>3. <<p, 0>> \in Holds
  BY <1>2, SlotIs
<1> QED BY <1>3

\* A frame of a group that is going to meet a successor that is not deadlocked, or none.
LEMMA GroupFinds ==
  ASSUME NEW t \in Table, NEW w \in Counts, GroupsWaitForTrans(t, w),
         NEW p \in Path, IsGroup(w, Last(p)), Found(t, w, p, 0) # "FALSE",
         Cardinality(Edges(t, Last(p))) <= GroupWorkers(w, SlotCount, Last(p))
  PROVE  /\ Edges(t, Last(p)) # {}
         /\ \A u \in Edges(t, Last(p)) : u = p[1] \/ Found(t, w, Append(p, u), 0) # "FALSE"
<1> DEFINE a == Last(p)
           c == GroupWorkers(w, SlotCount, a)
           Free(u) == u \in Edges(t, a) /\ u # p[1] /\ Found(t, w, Append(p, u), 0) = "FALSE"
           Lost(x) == /\ x.path = p /\ x.dead = Cardinality(Below(t, a, x.i))
                      /\ \/ \E u \in Slot : u >= x.i /\ Free(u)
                         \/ Edges(t, a) = {} /\ x.last = "FALSE"
           T == {x \in Frames : Lost(x) /\ Search(t, w)[x] # "FALSE"}
<1>1. a \in Slot
  BY PathIs
<1>2. /\ At(p, 0) \in Frames /\ At(p, 0).path = p /\ At(p, 0).i = 0 /\ At(p, 0).last = "FALSE"
      /\ At(p, 0).dead = Cardinality(Below(t, a, 0))
  <2>1. Cardinality(Below(t, a, 0)) = 0
    BY BelowIs, SlotIs
  <2> QED BY <2>1, AtIs, SlotIs DEF At
<1>3. ASSUME NEW x \in Frames, Lost(x), \A y \in Frames : Size(w, y) < Size(w, x) => y \notin T
      PROVE  Search(t, w)[x] = "FALSE"
  <2> HIDE DEF c, Free
  <2>1. x.i \in 0 .. SlotCount /\ x.dead \in Nat /\ x.last \in Verdict
    BY DEF Frames
  <2>2. IsGroup(w, Last(x.path)) /\ c = GroupWorkers(w, SlotCount, Last(x.path)) /\ Last(x.path) = a
    BY <1>3 DEF c
  <2>3. CASE c = 0
    BY <2>2, <2>3, GroupFoundIs
  <2>4. CASE c # 0 /\ x.i = SlotCount
    <3>1. \A u \in Slot : ~(u >= x.i)
      BY <2>4, SlotIs DEF Slot
    <3>2. Edges(t, a) = {} /\ x.last = "FALSE"
      BY <1>3, <3>1
    <3>3. x.dead = 0
      <4>1. Below(t, a, x.i) = {}
        BY <3>2 DEF Below
      <4> QED BY <1>3, <4>1, FS_EmptySet
    <3> QED BY <2>2, <2>4, <3>2, <3>3, GroupFoundIs
  <2>5. CASE c # 0 /\ x.i # SlotCount
    <3>1. ASSUME NEW d \in Nat, NEW v \in Verdict, d = Cardinality(Below(t, a, x.i + 1)),
                 (\E u \in Slot : u >= x.i + 1 /\ Free(u)) \/ (Edges(t, a) = {} /\ v = "FALSE")
          PROVE  Search(t, w)[Onward(x, d, v)] = "FALSE"
      <4>1. /\ Onward(x, d, v) \in Frames /\ Onward(x, d, v).path = p /\ Onward(x, d, v).i = x.i + 1
            /\ Onward(x, d, v).dead = d /\ Onward(x, d, v).last = v
        BY <1>3, <2>5, OnwardIs
      <4>2. Size(w, Onward(x, d, v)) < Size(w, x)
        BY <2>5, OnwardIsSmaller
      <4>3. Lost(Onward(x, d, v))
        BY <3>1, <4>1
      <4> QED BY <1>3, <4>1, <4>2, <4>3
    <3>2. \A u \in Slot : u >= x.i => u = x.i \/ u >= x.i + 1
      BY <2>1, SlotIs DEF Slot
    <3>3. x.i \in Slot
      BY <2>1, <2>5, SlotIs
    <3>4. CASE ~HasEdge(t, a, x.i)
      <4>1. ~Free(x.i)
        BY <3>4 DEF Free, Edges
      <4>2. x.dead = Cardinality(Below(t, a, x.i + 1))
        BY <1>3, <2>1, <2>5, <3>4, BelowIs
      <4>3. Search(t, w)[Onward(x, x.dead, x.last)] = "FALSE"
        BY <1>3, <2>1, <3>1, <3>2, <4>1, <4>2
      <4> QED BY <2>2, <2>5, <3>4, <4>3, GroupFoundIs
    <3>5. CASE HasEdge(t, a, x.i)
      <4>1. x.i \in Edges(t, a)
        BY <3>3, <3>5 DEF Edges
      <4>2. x.dead + 1 = Cardinality(Below(t, a, x.i + 1)) /\ x.dead + 1 \in Nat
            /\ x.dead < Cardinality(Edges(t, a))
        BY <1>3, <2>1, <2>5, <3>5, BelowIs
      <4>3. PICK u \in Slot : u >= x.i /\ Free(u)
        BY <1>3, <4>1
      <4>4. CASE x.i = p[1]
        <5>1. u >= x.i + 1
          BY <3>2, <4>3, <4>4 DEF Free
        <5>2. Search(t, w)[Onward(x, x.dead + 1, x.last)] = "FALSE"
          BY <2>1, <3>1, <4>2, <4>3, <5>1
        <5> QED BY <1>3, <2>2, <2>5, <3>5, <4>4, <5>2, GroupFoundIs
      <4>5. CASE x.i # p[1] /\ Found(t, w, Append(p, x.i), 0) = "FALSE"
        <5>1. x.dead # c
          <6>1. c \in Nat /\ Cardinality(Edges(t, a)) \in Nat
            BY <1>1, CountsAre, BelowIs, SlotIs DEF c
          <6>2. Cardinality(Edges(t, a)) <= c
            BY DEF c
          <6> QED BY <2>1, <4>2, <6>1, <6>2
        <5> QED BY <1>3, <2>2, <2>5, <3>5, <4>5, <5>1, GroupFoundIs
      <4>6. CASE x.i # p[1] /\ Found(t, w, Append(p, x.i), 0) # "FALSE"
        <5>1. u >= x.i + 1
          BY <3>2, <4>3, <4>6 DEF Free
        <5>2. Found(t, w, Append(p, x.i), 0) \in Verdict
          <6>1. At(Append(p, x.i), 0) \in Frames
            BY <3>3, Longer, AtIs, SlotIs
          <6> QED BY <6>1, SearchIs DEF Found
        <5>3. Search(t, w)[Onward(x, x.dead + 1, Found(t, w, Append(p, x.i), 0))] = "FALSE"
          BY <3>1, <4>2, <4>3, <5>1, <5>2
        <5> QED BY <1>3, <2>2, <2>5, <3>5, <4>6, <5>3, GroupFoundIs
      <4> QED BY <4>4, <4>5, <4>6
    <3> QED BY <3>4, <3>5
  <2> QED BY <2>3, <2>4, <2>5
<1>4. T = {}
  <2> SUFFICES ASSUME T # {} PROVE FALSE
    OBVIOUS
  <2>1. PICK x \in T : \A y \in Frames : Size(w, y) < Size(w, x) => y \notin T
    <3>1. T \in SUBSET Frames
      OBVIOUS
    <3> HIDE DEF T
    <3> QED BY <3>1, SmallestFrame
  <2>2. x \in Frames /\ Lost(x) /\ Search(t, w)[x] # "FALSE"
    OBVIOUS
  <2> HIDE DEF T, Lost
  <2> QED BY <1>3, <2>1, <2>2
<1>5. ~Lost(At(p, 0))
  BY <1>2, <1>4 DEF Found
<1>6. Edges(t, a) # {}
  BY <1>2, <1>5
<1>7. ASSUME NEW u \in Edges(t, a) PROVE u = p[1] \/ Found(t, w, Append(p, u), 0) # "FALSE"
  <2>1. u \in Slot /\ u >= 0
    BY SlotIs DEF Edges, Slot
  <2> QED BY <1>2, <1>5, <2>1
<1> QED BY <1>6, <1>7

\* Slots each of which waits for one of them, a group for nobody else.
Held(t, w, E) ==
  \A a \in E : /\ \E u \in Edges(t, a) : u \in E
               /\ IsGroup(w, a) => Edges(t, a) \subseteq E

\* No transaction is called deadlocked for servers that are none of its business: whoever
\* smklCheckDeadlock calls deadlocked is in a set of slots each of which waits for one of
\* it, and a group in it for nobody outside.
THEOREM DeadlockIsHeld ==
  ASSUME NEW t \in Table, NEW w \in Counts, GroupsWaitForTrans(t, w),
         \A g \in Slot : IsGroup(w, g) => Cardinality(Edges(t, g)) <= GroupWorkers(w, SlotCount, g),
         NEW s \in Slot, CheckDeadlock(t, w, s)
  PROVE  \E E \in SUBSET Slot : s \in E /\ Held(t, w, E)
<1> DEFINE Closed(L) == /\ <<s>> \in L
                        /\ \A q \in L, u \in Slot :
                             Found(t, w, Append(q, u), 0) # "FALSE" => Append(q, u) \in L
           Live == {p \in Path : \A L \in SUBSET Path : Closed(L) => p \in L}
           E == {Last(p) : p \in Live}
<1>1. <<s>> \in Path /\ <<s>>[1] = s /\ Last(<<s>>) = s /\ On(<<s>>) = {s}
  BY One
<1>2. Found(t, w, <<s>>, 0) = "TRUE"
  BY <1>1, AtIs, SlotIs DEF CheckDeadlock, Found
<1>3. <<s>> \in Live
  BY <1>1
<1>4. ASSUME NEW q \in Live, NEW u \in Slot, Found(t, w, Append(q, u), 0) # "FALSE"
      PROVE  Append(q, u) \in Live
  <2>1. Append(q, u) \in Path
    BY Longer
  <2>2. \A L \in SUBSET Path : Closed(L) => q \in L
    OBVIOUS
  <2>3. ASSUME NEW L \in SUBSET Path, Closed(L) PROVE Append(q, u) \in L
    BY <1>4, <2>2, <2>3
  <2> QED BY <2>1, <2>3
<1>5. \A p \in Live : p[1] = s /\ Found(t, w, p, 0) # "FALSE" /\ On(p) \subseteq E
  <2> DEFINE L == {p \in Live : p[1] = s /\ Found(t, w, p, 0) # "FALSE" /\ On(p) \subseteq E}
  <2>1. <<s>> \in L
    <3>1. s \in E
      BY <1>1, <1>3
    <3> QED BY <1>1, <1>2, <1>3, <3>1
  <2>2. ASSUME NEW q \in L, NEW u \in Slot, Found(t, w, Append(q, u), 0) # "FALSE"
        PROVE  Append(q, u) \in L
    <3>1. q \in Live /\ q \in Path /\ q[1] = s /\ On(q) \subseteq E
      OBVIOUS
    <3>2. Append(q, u) \in Live
      BY <1>4, <2>2, <3>1
    <3>3. Append(q, u)[1] = s /\ On(Append(q, u)) = On(q) \cup {u} /\ Last(Append(q, u)) = u
      BY <3>1, Longer
    <3>4. u \in E
      BY <3>2, <3>3
    <3> HIDE DEF Live, E
    <3> QED BY <2>2, <3>1, <3>2, <3>3, <3>4
  <2>3. L \in SUBSET Path
    OBVIOUS
  <2>4. Closed(L)
    <3> HIDE DEF L
    <3> QED BY <2>1, <2>2
  <2>5. \A p \in Live : p \in L
    <3> HIDE DEF L
    <3> QED BY <2>3, <2>4
  <2> QED BY <2>5
<1>6. ASSUME NEW p \in Live
      PROVE  /\ p \in Path /\ p[1] \in E /\ On(p) \subseteq E /\ Found(t, w, p, 0) # "FALSE"
             /\ \A u \in Slot : Found(t, w, Append(p, u), 0) # "FALSE" => u \in E
  <2>1. p \in Path /\ On(p) \subseteq E /\ Found(t, w, p, 0) # "FALSE"
    BY <1>5
  <2>2. p[1] \in E
    BY <2>1, PathIs
  <2>3. ASSUME NEW u \in Slot, Found(t, w, Append(p, u), 0) # "FALSE" PROVE u \in E
    <3>1. Append(p, u) \in Live /\ Last(Append(p, u)) = u
      BY <1>4, <2>1, <2>3, Longer
    <3> QED BY <3>1
  <2> QED BY <2>1, <2>2, <2>3
<1>7. Held(t, w, E)
  <2> SUFFICES ASSUME NEW p \in Live
               PROVE  /\ \E u \in Edges(t, Last(p)) : u \in E
                      /\ IsGroup(w, Last(p)) => Edges(t, Last(p)) \subseteq E
    BY DEF Held
  <2>1. /\ p \in Path /\ p[1] \in E /\ On(p) \subseteq E /\ Found(t, w, p, 0) # "FALSE"
        /\ \A u \in Slot : Found(t, w, Append(p, u), 0) # "FALSE" => u \in E
    BY <1>6
  <2> HIDE DEF Live, E
  <2>2. Edges(t, Last(p)) \subseteq Slot /\ Last(p) \in Slot
    BY <2>1, PathIs DEF Edges
  <2>3. CASE IsGroup(w, Last(p))
    BY <2>1, <2>2, <2>3, GroupFinds
  <2>4. CASE ~IsGroup(w, Last(p))
    BY <2>1, <2>2, <2>4, TransFinds
  <2> QED BY <2>3, <2>4
<1>8. s \in E
  BY <1>1, <1>3
<1>9. E \in SUBSET Slot
  BY PathIs
<1> HIDE DEF E
<1> QED BY <1>7, <1>8, <1>9

-----------------------------------------------------------------------------
(* The theorems                                                             *)

LEMMA TableAlways == Spec => [](table \in Table)
<1>1. Init => table \in Table
  BY DEF Init, Table, EdgeValue
<1>2. table \in Table /\ [Next]_vars => (table \in Table)'
  <2> SUFFICES ASSUME table \in Table, NEW s \in Slot, table' = ResolveDeadlock(table, s)
               PROVE  table' \in Table
    BY DEF Next, Confirm, vars
  <2>1. [u \in DOMAIN table |-> IF HasEdge(table, s, u) THEN DeadlockEdge ELSE table[s][u]]
          \in [Slot -> EdgeValue]
    BY DEF Table, EdgeValue, DeadlockEdge
  <2> QED BY <2>1 DEF Table, ResolveDeadlock
<1> QED BY <1>1, <1>2, PTL DEF Spec

\* No transaction is aborted for a cycle of others: in every table that arises while
\* victims are resolved, whoever smklCheckDeadlock calls deadlocked is on a cycle.
THEOREM SearchIsSound == Spec => []CheckIsSound
<1>1. table \in Table => CheckIsSound
  BY DeadlockIsCycle DEF CheckIsSound
<1> QED BY <1>1, TableAlways, PTL

\* The search gives up at the first cycle without the asking slot, and still no cycle is
\* missed by all: in a table with a cycle somebody is told that it is deadlocked.
THEOREM SearchIsComplete == Spec => []SomeoneDetects
<1>1. table \in Table => SomeoneDetects
  BY CycleIsFound DEF SomeoneDetects
<1> QED BY <1>1, TableAlways, PTL
=============================================================================
