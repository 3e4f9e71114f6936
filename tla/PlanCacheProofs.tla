--------------------------- MODULE PlanCacheProofs ---------------------------
(***************************************************************************)
(* PlanCache for any number of sessions, texts, plans, clocks and flanges: *)
(* no reference is lost or counted twice, and what a session has fixed is  *)
(* not freed; and a text is cached once.                                  *)
(***************************************************************************)
EXTENDS PlanCache, FiniteSetTheorems, SequenceTheorems, TLAPS

CacheInv == PlanInv /\ RefCountExact /\ HandlesAreValid

-----------------------------------------------------------------------------
(* Counting the users of a flange *)

LEMMA UsersAreFinite ==
  ASSUME NEW f
  PROVE  IsFiniteSet(Users(f)) /\ Cardinality(Users(f)) \in 0 .. RefLimit - 1
<1>1. IsFiniteSet(Session) /\ Cardinality(Session) < RefLimit /\ RefLimit \in Nat
  BY PlanCacheAssumption
<1>2. Users(f) \in SUBSET Session
  BY DEF Users
<1> QED BY <1>1, <1>2, FS_Subset, FS_CardinalityType

\* What a session with this handle and pc adds to the count of f.
Use(h, p, f) == IF h = f /\ p \in Using THEN 1 ELSE 0

\* A step of one session moves at most one user.
LEMMA RefAfter ==
  ASSUME CallTypes, RefCountExact, NEW s \in Session, NEW p, NEW h, NEW f \in Flange,
         pc' = [pc EXCEPT ![s] = p], handle' = [handle EXCEPT ![s] = h]
  PROVE  /\ Cardinality(Users(f)') \in 0 .. RefLimit - 1
         /\ Cardinality(Users(f)') =
              flange[f].ref + Use(h, p, f) - Use(handle[s], pc[s], f)
<1>1. IsFiniteSet(Users(f)) /\ Cardinality(Users(f)) \in Nat /\ flange[f].ref = Cardinality(Users(f))
  BY UsersAreFinite DEF RefCountExact
<1>2. Users(f)' = IF h = f /\ p \in Using THEN Users(f) \cup {s} ELSE Users(f) \ {s}
  BY DEF Users, Using, CallTypes
<1>3. s \in Users(f) <=> handle[s] = f /\ pc[s] \in Using
  BY DEF Users
<1>4. Cardinality(Users(f) \cup {s}) = IF s \in Users(f) THEN Cardinality(Users(f)) ELSE Cardinality(Users(f)) + 1
  BY <1>1, FS_AddElement
<1>5. Cardinality(Users(f) \ {s}) = IF s \in Users(f) THEN Cardinality(Users(f)) - 1 ELSE Cardinality(Users(f))
  BY <1>1, FS_RemoveElement
<1>6. Cardinality(Users(f)') =
        flange[f].ref + Use(h, p, f) - Use(handle[s], pc[s], f)
  BY <1>1, <1>2, <1>3, <1>4, <1>5 DEF Use
<1>7. Users(f)' \in SUBSET Session
  BY DEF Users
<1>8. IsFiniteSet(Session) /\ Cardinality(Session) < RefLimit /\ RefLimit \in Nat
  BY PlanCacheAssumption
<1>9. Cardinality(Users(f)') <= Cardinality(Session) /\ Cardinality(Users(f)') \in Nat
  BY <1>7, <1>8, FS_Subset, FS_CardinalityType
<1> QED BY <1>6, <1>8, <1>9, FS_CardinalityType

\* Who uses a flange is counted.
LEMMA UserIsCounted ==
  ASSUME CacheTypes, RefCountExact, NEW s \in Session, pc[s] \in Using, handle[s] \in Flange
  PROVE  flange[handle[s]].ref > 0
<1>1. s \in Users(handle[s])
  BY DEF Users
<1>2. Cardinality(Users(handle[s])) # 0
  BY <1>1, UsersAreFinite, FS_EmptySet
<1> QED BY <1>2, UsersAreFinite DEF RefCountExact

\* A flange with one user has no other.
LEMMA OneUser ==
  ASSUME RefCountExact, NEW s \in Session, NEW t \in Session, NEW f \in Flange, flange[f].ref = 1,
         handle[s] = f, handle[t] = f, pc[s] \in Using, pc[t] \in Using
  PROVE  s = t
<1>1. {s, t} \subseteq Users(f)
  BY DEF Users
<1>2. Cardinality(Users(f)) = 1
  BY DEF RefCountExact
<1>3. PICK x : Users(f) = {x}
  BY <1>2, UsersAreFinite, FS_Singleton
<1> QED BY <1>1, <1>3

-----------------------------------------------------------------------------
(* The flanges.  Each lemma is one action of a session, or one branch of it. *)

FlangeInv == CacheTypes /\ FlangesSound /\ RefCountExact /\ HandlesAreValid

\* Flanges keep what they are for; ref may be out of its range.
FlangeType ==
  [sql : Sql \cup {NoSql}, ref : Int, plans : SUBSET Plan, age : Nat, dropped : BOOLEAN, findable : BOOLEAN]

KeptFlanges ==
  /\ flange' \in [Flange -> FlangeType]
  /\ \A f \in Flange : flange'[f].sql = flange[f].sql
  /\ \A f \in Flange : flange'[f].ref = flange[f].ref
  /\ \A f \in Flange : flange'[f].plans = flange[f].plans

\* Steps after which each flange has the users it had.
LEMMA KeepStep ==
  ASSUME CacheInv, NEW s \in Session, NEW p, NEW h, NEW q, KeptFlanges, linked' \subseteq linked,
         pc' = [pc EXCEPT ![s] = p], handle' = [handle EXCEPT ![s] = h], stmt' = [stmt EXCEPT ![s] = q],
         \/ pc[s] \notin Using /\ p \notin Using
         \/ {pc[s], p} \subseteq {"fixing", "fixed", "giveBack"} /\ h = handle[s] /\ q = stmt[s]
  PROVE  FlangeInv'
<1> USE DEF CacheInv, PlanInv, TypeOK
<1>a. flange' \in [Flange -> FlangeType]
  BY DEF KeptFlanges
<1>b. \A f \in Flange : flange'[f].sql = flange[f].sql /\ flange'[f].ref = flange[f].ref /\ flange'[f].plans = flange[f].plans
  BY DEF KeptFlanges
<1>1. CacheTypes'
  BY <1>a, <1>b DEF CacheTypes, FlangeType
<1>2. RefCountExact'
  <2> SUFFICES ASSUME NEW f \in Flange PROVE flange'[f].ref = Cardinality(Users(f)')
    BY DEF RefCountExact
  <2>1. CallTypes /\ RefCountExact
    OBVIOUS
  <2>2. Cardinality(Users(f)') = flange[f].ref + Use(h, p, f) - Use(handle[s], pc[s], f)
    BY <2>1, RefAfter
  <2> QED BY <2>2, <1>b DEF Use, CacheTypes, Using
<1>3. \A t \in Session : pc'[t] \in Using =>
        /\ pc[t] \in Using /\ handle'[t] = handle[t] /\ stmt'[t] = stmt[t]
        /\ pc[t] = "insert" <=> pc'[t] = "insert"
  BY DEF CallTypes, Using
<1>4. FlangesSound'
  <2>1. ASSUME NEW t \in Session, pc'[t] = "insert" PROVE NewFlange(t)'
    <3>1. pc[t] = "insert" /\ handle'[t] = handle[t] /\ stmt'[t] = stmt[t] /\ handle[t] \in Flange
      BY <2>1, <1>3 DEF Using, FlangesSound
    <3> QED BY <3>1, <1>b DEF FlangesSound, NewFlange
  <2> QED BY <2>1, <1>3, <1>b DEF FlangesSound, CacheTypes
<1>5. HandlesAreValid'
  BY <1>3, <1>b DEF HandlesAreValid, Using, FlangesSound
<1> QED BY <1>1, <1>2, <1>4, <1>5 DEF FlangeInv

OneMoreUser(k) ==
  /\ flange' \in [Flange -> FlangeType]
  /\ \A f \in Flange : flange'[f].sql = flange[f].sql
  /\ \A f \in Flange : f # k => flange'[f].ref = flange[f].ref /\ flange'[f].plans = flange[f].plans
  /\ flange'[k].ref = flange[k].ref + 1 /\ flange'[k].plans # {}

\* A session that is counted into a flange which has a plan for its text.
LEMMA JoinFlange ==
  ASSUME CacheInv, NEW s \in Session, NEW k \in Flange, NEW q \in Sql \cup {NoSql}, NEW p, p = "fixing",
         pc' = [pc EXCEPT ![s] = p], handle' = [handle EXCEPT ![s] = k], stmt' = [stmt EXCEPT ![s] = q],
         pc[s] \notin Using, linked' = linked, OneMoreUser(k), flange[k].sql # NoSql, flange[k].plans # {},
         q # NoSql => flange[k].sql = q
  PROVE  FlangeInv'
<1> USE DEF CacheInv, PlanInv, TypeOK
<1>a. flange' \in [Flange -> FlangeType]
  BY DEF OneMoreUser
<1>b. \A f \in Flange : flange'[f].sql = flange[f].sql
  BY DEF OneMoreUser
<1>c. \A f \in Flange : f # k => flange'[f].ref = flange[f].ref /\ flange'[f].plans = flange[f].plans
  BY DEF OneMoreUser
<1>d. flange'[k].ref = flange[k].ref + 1 /\ flange'[k].plans # {}
  BY DEF OneMoreUser
<1>1. ASSUME NEW f \in Flange
      PROVE  Cardinality(Users(f)') \in 0 .. RefLimit - 1 /\ flange'[f].ref = Cardinality(Users(f)')
  <2>1. CallTypes /\ RefCountExact
    OBVIOUS
  <2>2. Cardinality(Users(f)') =
          flange[f].ref + Use(k, p, f) - Use(handle[s], pc[s], f)
    BY <2>1, RefAfter
  <2>3. Cardinality(Users(f)') \in 0 .. RefLimit - 1
    BY <2>1, RefAfter
  <2> QED BY <2>2, <2>3, <1>c, <1>d DEF Use, CacheTypes, Using
<1>2. RefCountExact' /\ \A f \in Flange : flange'[f].ref \in 0 .. RefLimit - 1
  BY <1>1 DEF RefCountExact
<1>3. CacheTypes'
  BY <1>2, <1>a DEF CacheTypes, FlangeType
<1>4. \A t \in Session : IF t = s THEN pc'[t] = "fixing" /\ handle'[t] = k /\ stmt'[t] = q
                         ELSE pc'[t] = pc[t] /\ handle'[t] = handle[t] /\ stmt'[t] = stmt[t]
  BY DEF CallTypes
<1>5. \A t \in Session : pc[t] = "insert" => handle[t] # k
  BY DEF FlangesSound, NewFlange
<1>6. FlangesSound'
  <2>1. \A f \in Flange : flange'[f].sql = NoSql => flange'[f].ref = 0
    BY <1>b, <1>c, <1>d DEF FlangesSound, CacheTypes
  <2>2. \A f \in Flange : flange'[f].sql # NoSql => flange'[f].ref > 0 \/ flange'[f].plans # {}
    BY <1>b, <1>c, <1>d DEF FlangesSound, CacheTypes
  <2>3. \A f \in linked' : flange'[f].sql # NoSql /\ flange'[f].plans # {}
    BY <1>b, <1>c, <1>d DEF FlangesSound, CacheTypes
  <2>4. \A t \in Session : pc'[t] \in Using => handle'[t] \in Flange
    BY <1>4 DEF FlangesSound, Using
  <2>5. ASSUME NEW t \in Session, pc'[t] = "insert" PROVE NewFlange(t)'
    <3>1. t # s /\ pc[t] = "insert" /\ handle[t] \in Flange /\ handle[t] # k
      BY <1>4, <1>5, <2>5 DEF FlangesSound, Using
    <3> QED BY <1>4, <1>b, <1>c, <1>d, <3>1 DEF FlangesSound, NewFlange, CacheTypes
  <2> QED BY <2>1, <2>2, <2>3, <2>4, <2>5 DEF FlangesSound
<1>7. HandlesAreValid'
  <2> SUFFICES ASSUME NEW t \in Session, pc'[t] \in {"fixing", "fixed", "giveBack"}
               PROVE  /\ flange'[handle'[t]].plans # {} /\ flange'[handle'[t]].sql # NoSql
                      /\ stmt'[t] # NoSql => flange'[handle'[t]].sql = stmt'[t]
    BY DEF HandlesAreValid
  <2>1. CASE t = s
    BY <2>1, <1>4, <1>b, <1>c, <1>d
  <2>2. CASE t # s
    <3>1. pc[t] \in {"fixing", "fixed", "giveBack"} /\ handle[t] \in Flange
      BY <2>2, <1>4 DEF FlangesSound, Using
    <3> QED BY <2>2, <3>1, <1>4, <1>b, <1>c, <1>d DEF HandlesAreValid
  <2> QED BY <2>1, <2>2
<1> QED BY <1>2, <1>3, <1>6, <1>7 DEF FlangeInv

LEMMA UnfixStep ==
  ASSUME CacheInv, NEW s \in Session, UnfixSql(s)
  PROVE  FlangeInv'
<1> USE DEF CacheInv, PlanInv, TypeOK
<1> DEFINE k == handle[s]
<1>1. k \in Flange /\ flange[k].ref > 0 /\ flange[k].plans # {}
  <2>1. pc[s] \in Using /\ k \in Flange
    BY DEF UnfixSql, FlangesSound, Using
  <2> QED BY <2>1, UserIsCounted DEF HandlesAreValid, UnfixSql
<1>2. /\ flange' \in [Flange -> FlangeType] /\ linked' = linked
      /\ \A f \in Flange : flange'[f].sql = flange[f].sql /\ flange'[f].plans = flange[f].plans
      /\ \A f \in Flange : f # k => flange'[f].ref = flange[f].ref
      /\ flange'[k].ref = flange[k].ref - 1
  BY <1>1 DEF UnfixSql, CacheTypes, FlangeType, Decrement
<1>3. /\ pc' = [pc EXCEPT ![s] = "unfixed"] /\ handle' = [handle EXCEPT ![s] = k] /\ UNCHANGED <<handle, stmt>>
      /\ pc[s] \in {"fixed", "giveBack"}
  BY DEF UnfixSql, Goto, callVars, CallTypes
<1>4. CacheTypes'
  <2>1. \A f \in Flange : flange'[f].ref \in 0 .. RefLimit - 1
    <3> HIDE DEF k
    <3>1. \A f \in Flange : flange[f].ref \in 0 .. RefLimit - 1
      BY DEF CacheTypes
    <3>2. RefLimit \in Nat
      BY PlanCacheAssumption
    <3>3. flange'[k].ref \in 0 .. RefLimit - 1
      BY <1>1, <1>2, <3>1, <3>2
    <3> QED BY <1>2, <3>1, <3>3
  <2> QED BY <1>2, <2>1 DEF CacheTypes, FlangeType
<1>5. RefCountExact'
  <2> SUFFICES ASSUME NEW f \in Flange PROVE flange'[f].ref = Cardinality(Users(f)')
    BY DEF RefCountExact
  <2> HIDE DEF k
  <2>1. CallTypes /\ RefCountExact
    OBVIOUS
  <2>2. pc' = [pc EXCEPT ![s] = "unfixed"] /\ handle' = [handle EXCEPT ![s] = k]
    BY <1>3
  <2>3. Cardinality(Users(f)') = flange[f].ref + Use(k, "unfixed", f) - Use(handle[s], pc[s], f)
    BY <2>1, <2>2, RefAfter
  <2> QED BY <2>3, <1>2, <1>3 DEF Use, CacheTypes, Using, k
<1>6. \A t \in Session : pc'[t] \in Using => t # s /\ pc'[t] = pc[t]
  BY <1>3 DEF CallTypes, Using
<1>7. FlangesSound'
  <2> HIDE DEF k
  <2>1. ASSUME NEW t \in Session, pc'[t] = "insert" PROVE NewFlange(t)'
    <3>1. pc[t] = "insert" /\ handle[t] \in Flange
      BY <2>1, <1>6 DEF Using, FlangesSound
    <3>2. handle[t] # k
      BY <3>1, <1>1 DEF FlangesSound, NewFlange
    <3>3. /\ handle'[t] = handle[t] /\ stmt'[t] = stmt[t] /\ linked' = linked
          /\ flange'[handle[t]].sql = flange[handle[t]].sql /\ flange'[handle[t]].ref = flange[handle[t]].ref
          /\ flange'[handle[t]].plans = flange[handle[t]].plans
      BY <3>1, <3>2, <1>2, <1>3
    <3>4. NewFlange(t)
      BY <3>1 DEF FlangesSound
    <3> QED BY <3>3, <3>4 DEF NewFlange
  <2>2. \A t \in Session : pc'[t] \in Using => handle'[t] \in Flange
    BY <1>3, <1>6 DEF FlangesSound
  <2>3. flange'[k].sql # NoSql
    BY <1>1, <1>2 DEF FlangesSound
  <2>4. \A f \in Flange : flange'[f].sql = NoSql => flange'[f].ref = 0
    BY <2>3, <1>2 DEF FlangesSound
  <2>5. \A f \in Flange : flange'[f].sql # NoSql => flange'[f].ref > 0 \/ flange'[f].plans # {}
    BY <1>1, <1>2 DEF FlangesSound
  <2>6. \A f \in linked' : flange'[f].sql # NoSql /\ flange'[f].plans # {}
    BY <1>2 DEF FlangesSound, CacheTypes
  <2> QED BY <2>1, <2>2, <2>4, <2>5, <2>6 DEF FlangesSound
<1>8. HandlesAreValid'
  BY <1>2, <1>3, <1>6 DEF HandlesAreValid, FlangesSound, Using
<1> QED BY <1>4, <1>5, <1>7, <1>8 DEF FlangeInv

\* A flange that nobody uses, or only a session that lets it go, is emptied.
LEMMA FreeStep ==
  ASSUME CacheInv, NEW s \in Session, NEW k \in Flange, NEW p, p \notin Using,
         pc' = [pc EXCEPT ![s] = p], UNCHANGED <<handle, stmt>>,
         flange' = [flange EXCEPT ![k] = EmptyFlange], linked' = linked \ {k},
         \/ flange[k].ref = 0 /\ pc[s] \notin Using
         \/ handle[s] = k /\ pc[s] = "insert"
  PROVE  FlangeInv'
<1> USE DEF CacheInv, PlanInv, TypeOK
<1>1. /\ flange'[k] = EmptyFlange
      /\ \A f \in Flange : f # k => flange'[f] = flange[f]
  BY DEF CacheTypes
<1>2. CacheTypes'
  BY PlanCacheAssumption DEF CacheTypes, EmptyFlange
<1>3. \A t \in Session : pc'[t] \in Using => t # s /\ pc'[t] = pc[t]
  BY DEF CallTypes
<1>4. ASSUME NEW t \in Session, pc'[t] \in Using PROVE handle[t] \in Flange \ {k}
  <2>1. handle[t] \in Flange /\ flange[handle[t]].ref > 0
    BY <1>3, <1>4, UserIsCounted DEF FlangesSound
  <2>2. CASE flange[k].ref = 0
    BY <2>1, <2>2
  <2>3. CASE handle[s] = k /\ pc[s] = "insert"
    <3>1. flange[k].ref = 1
      BY <2>3 DEF FlangesSound, NewFlange
    <3> QED BY <2>1, <2>3, <3>1, <1>3, <1>4, OneUser DEF Using
  <2> QED BY <2>2, <2>3
<1>5. RefCountExact'
  <2> SUFFICES ASSUME NEW f \in Flange PROVE flange'[f].ref = Cardinality(Users(f)')
    BY DEF RefCountExact
  <2>1. CASE f = k
    <3>1. Users(f)' = {}
      BY <2>1, <1>4 DEF Users
    <3> QED BY <2>1, <3>1, <1>1, FS_EmptySet DEF EmptyFlange
  <2>2. CASE f # k
    <3>1. s \notin Users(f)
      BY <2>2 DEF Users, FlangesSound, NewFlange, Using
    <3>2. Users(f)' = Users(f)
      BY <3>1, <1>3 DEF Users, CallTypes
    <3> QED BY <2>2, <3>2, <1>1 DEF RefCountExact
  <2> QED BY <2>1, <2>2
<1>6. FlangesSound'
  <2>1. ASSUME NEW t \in Session, pc'[t] = "insert" PROVE NewFlange(t)'
    <3>1. pc[t] = "insert" /\ handle[t] \in Flange \ {k}
      BY <2>1, <1>3, <1>4 DEF Using
    <3>2. /\ handle'[t] = handle[t] /\ stmt'[t] = stmt[t] /\ flange'[handle[t]] = flange[handle[t]]
          /\ linked' \subseteq linked
      BY <3>1, <1>1
    <3>3. NewFlange(t)
      BY <3>1 DEF FlangesSound
    <3> QED BY <3>2, <3>3 DEF NewFlange
  <2>2. \A t \in Session : pc'[t] \in Using => handle'[t] \in Flange
    BY <1>4
  <2>3. \A f \in Flange : flange'[f].sql = NoSql => flange'[f].ref = 0
    BY <1>1 DEF FlangesSound, EmptyFlange
  <2>4. \A f \in Flange : flange'[f].sql # NoSql => flange'[f].ref > 0 \/ flange'[f].plans # {}
    BY <1>1 DEF FlangesSound, EmptyFlange
  <2>5. \A f \in linked' : flange'[f].sql # NoSql /\ flange'[f].plans # {}
    BY <1>1 DEF FlangesSound, CacheTypes
  <2> QED BY <2>1, <2>2, <2>3, <2>4, <2>5 DEF FlangesSound
<1>7. HandlesAreValid'
  BY <1>1, <1>3, <1>4 DEF HandlesAreValid, Using
<1> QED BY <1>2, <1>5, <1>6, <1>7 DEF FlangeInv

\* A session takes an empty flange.
LEMMA NewStep ==
  ASSUME CacheInv, NEW s \in Session, NEW k \in Flange, NEW p, p = "insert",
         pc' = [pc EXCEPT ![s] = p], handle' = [handle EXCEPT ![s] = k], stmt' = stmt, linked' = linked,
         flange[k].sql = NoSql, pc[s] \notin Using, stmt[s] \in Sql,
         flange' = [flange EXCEPT ![k] = [EmptyFlange EXCEPT !.sql = stmt[s], !.ref = 1, !.findable = TRUE]]
  PROVE  FlangeInv'
<1> USE DEF CacheInv, PlanInv, TypeOK
<1>1. /\ flange'[k] = [sql |-> stmt[s], ref |-> 1, plans |-> {}, age |-> 0, dropped |-> FALSE, findable |-> TRUE]
      /\ \A f \in Flange : f # k => flange'[f] = flange[f]
  BY DEF CacheTypes, EmptyFlange
<1>2. flange[k].ref = 0 /\ k \notin linked /\ stmt[s] # NoSql
  BY PlanCacheAssumption DEF FlangesSound
<1>3. ASSUME NEW f \in Flange
      PROVE  Cardinality(Users(f)') \in 0 .. RefLimit - 1 /\ flange'[f].ref = Cardinality(Users(f)')
  <2>1. CallTypes /\ RefCountExact
    OBVIOUS
  <2>2. Cardinality(Users(f)') = flange[f].ref + Use(k, p, f) - Use(handle[s], pc[s], f)
    BY <2>1, RefAfter
  <2>3. Cardinality(Users(f)') \in 0 .. RefLimit - 1
    BY <2>1, RefAfter
  <2>4. CASE f = k
    BY <2>2, <2>3, <2>4, <1>1, <1>2 DEF Use, Using
  <2>5. CASE f # k
    BY <2>2, <2>3, <2>5, <1>1 DEF Use, Using, CacheTypes
  <2> QED BY <2>4, <2>5
<1>4. RefCountExact'
  BY <1>3 DEF RefCountExact
<1>5. CacheTypes'
  <2>1. 1 \in 0 .. RefLimit - 1
    BY <1>1, <1>3
  <2> QED BY <2>1 DEF CacheTypes, EmptyFlange
<1>6. \A t \in Session : pc'[t] \in Using /\ t # s =>
        pc'[t] = pc[t] /\ handle'[t] = handle[t] /\ handle[t] \in Flange \ {k}
  <2> SUFFICES ASSUME NEW t \in Session, pc'[t] \in Using, t # s
               PROVE  pc'[t] = pc[t] /\ handle'[t] = handle[t] /\ handle[t] \in Flange \ {k}
    OBVIOUS
  <2>1. pc'[t] = pc[t] /\ handle'[t] = handle[t]
    BY DEF CallTypes
  <2>2. handle[t] \in Flange /\ flange[handle[t]].ref > 0
    BY <2>1, UserIsCounted DEF FlangesSound
  <2> QED BY <2>1, <2>2, <1>2
<1>7. pc'[s] = "insert" /\ handle'[s] = k
  BY DEF CallTypes
<1>8. FlangesSound'
  <2>1. ASSUME NEW t \in Session, pc'[t] = "insert" PROVE NewFlange(t)'
    <3>1. CASE t = s
      <4>1. handle'[t] = k /\ stmt'[t] = stmt[s]
        BY <3>1, <1>7
      <4>2. k \notin linked'
        BY <1>2
      <4>3. flange'[k].sql = stmt[s] /\ flange'[k].plans = {} /\ flange'[k].ref = 1
        BY DEF CacheTypes, EmptyFlange
      <4> QED BY <4>1, <4>2, <4>3 DEF NewFlange
    <3>2. CASE t # s
      <4>1. pc[t] = "insert" /\ handle'[t] = handle[t] /\ flange'[handle[t]] = flange[handle[t]]
        BY <2>1, <3>2, <1>1, <1>6 DEF Using
      <4>2. NewFlange(t)
        BY <4>1 DEF FlangesSound
      <4>3. stmt'[t] = stmt[t] /\ handle[t] \notin linked'
        BY <4>2 DEF NewFlange
      <4> QED BY <4>1, <4>2, <4>3 DEF NewFlange
    <3> QED BY <3>1, <3>2
  <2>2. \A t \in Session : pc'[t] \in Using => handle'[t] \in Flange
    BY <1>6, <1>7
  <2>3. \A f \in Flange : flange'[f].sql = NoSql => flange'[f].ref = 0
    BY <1>1, <1>2 DEF FlangesSound
  <2>4. \A f \in Flange : flange'[f].sql # NoSql => flange'[f].ref > 0 \/ flange'[f].plans # {}
    BY <1>1 DEF FlangesSound
  <2>5. \A f \in linked' : flange'[f].sql # NoSql /\ flange'[f].plans # {}
    BY <1>1, <1>2 DEF FlangesSound, CacheTypes
  <2> QED BY <2>1, <2>2, <2>3, <2>4, <2>5 DEF FlangesSound
<1>9. HandlesAreValid'
  BY <1>1, <1>6, <1>7 DEF HandlesAreValid, Using
<1> QED BY <1>4, <1>5, <1>8, <1>9 DEF FlangeInv

\* The new flange gets its plan and enters the hash.
LEMMA PublishStep ==
  ASSUME CacheInv, NEW s \in Session, NEW k \in Flange, NEW x \in Plan, NEW p, p = "fixing",
         pc[s] = "insert", handle[s] = k, pc' = [pc EXCEPT ![s] = p], UNCHANGED <<handle, stmt>>,
         flange' = [flange EXCEPT ![k].plans = {x}], linked' = linked \cup {k}
  PROVE  FlangeInv'
<1> USE DEF CacheInv, PlanInv, TypeOK
<1>1. /\ flange'[k].sql = flange[k].sql /\ flange'[k].ref = flange[k].ref /\ flange'[k].plans = {x}
      /\ \A f \in Flange : f # k => flange'[f] = flange[f]
  BY DEF CacheTypes
<1>2. CacheTypes'
  BY DEF CacheTypes
<1>3. NewFlange(s) /\ stmt[s] \in Sql
  BY DEF FlangesSound
<1>4. flange[k].ref = 1 /\ flange[k].sql = stmt[s] /\ flange[k].sql # NoSql
  BY <1>3, PlanCacheAssumption DEF NewFlange
<1>5. RefCountExact'
  <2> SUFFICES ASSUME NEW f \in Flange PROVE flange'[f].ref = Cardinality(Users(f)')
    BY DEF RefCountExact
  <2>1. Users(f)' = Users(f)
    BY DEF Users, Using, CallTypes
  <2> QED BY <2>1, <1>1 DEF RefCountExact
<1>6. \A t \in Session : pc'[t] \in Using /\ t # s => pc'[t] = pc[t] /\ handle[t] \in Flange \ {k}
  <2> SUFFICES ASSUME NEW t \in Session, pc'[t] \in Using, t # s
               PROVE  pc'[t] = pc[t] /\ handle[t] \in Flange \ {k}
    OBVIOUS
  <2>1. pc'[t] = pc[t]
    BY DEF CallTypes
  <2>2. handle[t] \in Flange
    BY <2>1 DEF FlangesSound
  <2> QED BY <2>1, <2>2, <1>4, OneUser DEF Using
<1>7. pc'[s] = "fixing"
  BY DEF CallTypes
<1>8. FlangesSound'
  <2>1. ASSUME NEW t \in Session, pc'[t] = "insert" PROVE NewFlange(t)'
    <3>1. pc[t] = "insert" /\ flange'[handle[t]] = flange[handle[t]] /\ handle[t] # k
      BY <2>1, <1>1, <1>6, <1>7 DEF Using
    <3>2. NewFlange(t) /\ handle'[t] = handle[t] /\ stmt'[t] = stmt[t]
      BY <3>1 DEF FlangesSound
    <3> QED BY <3>1, <3>2 DEF NewFlange
  <2>2. \A t \in Session : pc'[t] \in Using => handle'[t] \in Flange
    BY <1>6, <1>7
  <2>3. \A f \in Flange : flange'[f].sql = NoSql => flange'[f].ref = 0
    BY <1>1, <1>4 DEF FlangesSound
  <2>4. \A f \in Flange : flange'[f].sql # NoSql => flange'[f].ref > 0 \/ flange'[f].plans # {}
    BY <1>1 DEF FlangesSound
  <2>5. \A f \in linked' : flange'[f].sql # NoSql /\ flange'[f].plans # {}
    BY <1>1, <1>4 DEF FlangesSound, CacheTypes
  <2> QED BY <2>1, <2>2, <2>3, <2>4, <2>5 DEF FlangesSound
<1>9. HandlesAreValid'
  <2> SUFFICES ASSUME NEW t \in Session, pc'[t] \in {"fixing", "fixed", "giveBack"}
               PROVE  /\ flange'[handle[t]].plans # {} /\ flange'[handle[t]].sql # NoSql
                      /\ stmt[t] # NoSql => flange'[handle[t]].sql = stmt[t]
    BY DEF HandlesAreValid
  <2>1. CASE t = s
    BY <2>1, <1>1, <1>4
  <2>2. CASE t # s
    BY <2>2, <1>1, <1>6 DEF HandlesAreValid, Using
  <2> QED BY <2>1, <2>2
<1> QED BY <1>2, <1>5, <1>8, <1>9 DEF FlangeInv

-----------------------------------------------------------------------------
(* The ring of blocks *)

LEMMA BlocksOf ==
  ASSUME NEW S, NEW q \in Seq(S)
  PROVE  ToSet(q) \subseteq S /\ Len(q) \in Nat
BY DEF ToSet

LEMMA RingBlocks ==
  ASSUME ClockTypes, NEW c \in Clock
  PROVE  ToSet(ring[c]) \subseteq 1 .. MaxBlocks /\ Len(ring[c]) \in Nat
<1>1. ring[c] \in Seq(1 .. MaxBlocks)
  BY DEF ClockTypes
<1> QED BY <1>1, BlocksOf

LEMMA PositionInRing ==
  ASSUME ClockTypes, NEW c \in Clock, NEW b \in ToSet(ring[c])
  PROVE  Position(c, b) \in 1 .. Len(ring[c]) /\ ring[c][Position(c, b)] = b
<1>1. ring[c] \in Seq(1 .. MaxBlocks)
  BY DEF ClockTypes
<1>2. \E i \in 1 .. Len(ring[c]) : ring[c][i] = b
  BY <1>1 DEF ToSet
<1> QED BY <1>2 DEF Position

LEMMA AfterInRing ==
  ASSUME ClockTypes, NEW c \in Clock, NEW b \in ToSet(ring[c])
  PROVE  After(c, b) \in ToSet(ring[c])
<1> DEFINE i == CHOOSE i \in 1 .. Len(ring[c]) : ring[c][i] = b
<1>1. ring[c] \in Seq(1 .. MaxBlocks)
  BY DEF ClockTypes
<1>2. i \in 1 .. Len(ring[c])
  BY PositionInRing DEF Position
<1>3. After(c, b) = ring[c][IF i = Len(ring[c]) THEN 1 ELSE i + 1]
  BY DEF After
<1> HIDE DEF i
<1>4. (IF i = Len(ring[c]) THEN 1 ELSE i + 1) \in 1 .. Len(ring[c])
  BY <1>1, <1>2
<1> QED BY <1>1, <1>3, <1>4 DEF ToSet

LEMMA BlockInRing ==
  ASSUME ClockTypes, NEW c \in Clock
  PROVE  Distance(c) \in Nat /\ \A d \in Nat : BlockAt(c, d) \in ToSet(ring[c])
<1> DEFINE n == Len(ring[c])
           i == Position(c, free[c].block)
           j == Position(c, hand[c])
<1>1. ring[c] \in Seq(1 .. MaxBlocks) /\ n \in Nat
  BY DEF ClockTypes
<1>2. i \in 1 .. n /\ j \in 1 .. n
  <2>1. free[c].block \in ToSet(ring[c]) /\ hand[c] \in ToSet(ring[c])
    BY DEF ClockTypes
  <2> QED BY <2>1, PositionInRing
<1>3. Distance(c) = (j - i - 1) % n
  BY DEF Distance
<1>4. \A d \in Nat : BlockAt(c, d) = ring[c][((i - 1 + d) % n) + 1]
  BY DEF BlockAt
<1> HIDE DEF i, j, n
<1>5. \A x \in Int : x % n \in 0 .. n - 1
  BY <1>1, <1>2
<1>6. Distance(c) \in Nat
  BY <1>1, <1>2, <1>3, <1>5
<1>7. ASSUME NEW d \in Nat PROVE BlockAt(c, d) \in ToSet(ring[c])
  <2>1. ((i - 1 + d) % n) + 1 \in 1 .. n
    <3>1. (i - 1 + d) \in Int
      BY <1>2, <1>1
    <3>2. (i - 1 + d) % n \in 0 .. n - 1
      BY <3>1, <1>5
    <3> QED BY <3>2, <1>1
  <2> QED BY <1>1, <1>4, <2>1 DEF ToSet, n
<1> QED BY <1>6, <1>7

LEMMA InsertKeepsBlocks ==
  ASSUME NEW S, NEW q \in Seq(S), NEW i \in 1 .. Len(q) + 1, NEW x \in S
  PROVE  InsertAt(q, i, x) \in Seq(S) /\ ToSet(q) \subseteq ToSet(InsertAt(q, i, x))
<1> DEFINE a == SubSeq(q, 1, i - 1)
           b == SubSeq(q, i, Len(q))
<1>1. a \in Seq(S) /\ Len(a) = i - 1 /\ \A k \in 1 .. i - 1 : a[k] = q[k]
  OBVIOUS
<1>2. b \in Seq(S) /\ Len(b) = Len(q) - i + 1 /\ \A k \in 1 .. Len(q) - i + 1 : b[k] = q[i + k - 1]
  OBVIOUS
<1> HIDE DEF a, b
<1>3. a \o <<x>> \in Seq(S) /\ Len(a \o <<x>>) = i /\ \A k \in 1 .. i - 1 : (a \o <<x>>)[k] = q[k]
  BY <1>1
<1> DEFINE r == (a \o <<x>>) \o b
<1>4. r \in Seq(S) /\ Len(r) = Len(q) + 1
  <2>1. r \in Seq(S) /\ Len(r) = Len(a \o <<x>>) + Len(b)
    BY <1>2, <1>3, ConcatProperties
  <2>2. Len(q) \in Nat /\ i \in Int
    OBVIOUS
  <2>3. Len(r) = i + (Len(q) - i + 1)
    BY <2>1, <1>2, <1>3
  <2> HIDE DEF r
  <2> QED BY <2>1, <2>2, <2>3
<1>5. \A k \in 1 .. i - 1 : r[k] = q[k]
  BY <1>2, <1>3
<1>6. \A k \in i .. Len(q) : r[k + 1] = q[k]
  <2> SUFFICES ASSUME NEW k \in i .. Len(q) PROVE r[k + 1] = q[k]
    OBVIOUS
  <2>1. k \in Int /\ i \in Int /\ Len(q) \in Nat /\ i <= k /\ k <= Len(q) /\ Len(b) = Len(q) - i + 1
    BY <1>2
  <2>2. k + 1 - i \in 1 .. Len(b) /\ k + 1 - i \in 1 .. Len(q) - i + 1
    BY <2>1
  <2>3. r[i + (k + 1 - i)] = b[k + 1 - i]
    <3> DEFINE m == k + 1 - i
    <3>1. m \in 1 .. Len(b)
      BY <2>2
    <3> HIDE DEF m
    <3>2. r[i + m] = b[m]
      BY <1>2, <1>3, <3>1
    <3> QED BY <3>2 DEF m
  <2>4. b[k + 1 - i] = q[i + (k + 1 - i) - 1]
    BY <1>2, <2>2
  <2>5. i + (k + 1 - i) = k + 1 /\ i + (k + 1 - i) - 1 = k
    BY <2>1
  <2> QED BY <2>3, <2>4, <2>5
<1>7. InsertAt(q, i, x) = r
  BY <1>1, <1>2 DEF InsertAt, a, b
<1> HIDE DEF r
<1>8. ASSUME NEW y \in ToSet(q) PROVE y \in ToSet(r)
  <2>1. PICK k \in 1 .. Len(q) : q[k] = y
    BY DEF ToSet
  <2>2. CASE k < i
    BY <1>4, <1>5, <2>1, <2>2 DEF ToSet
  <2>3. CASE k >= i
    <3>1. k + 1 \in 1 .. Len(r) /\ r[k + 1] = y
      BY <1>4, <1>6, <2>1, <2>3
    <3> QED BY <1>4, <3>1 DEF ToSet
  <2> QED BY <2>1, <2>2, <2>3
<1> QED BY <1>4, <1>7, <1>8

-----------------------------------------------------------------------------
(* The flanges, for each action *)

\* A step that leaves the flanges alone.
LEMMA QuietStep ==
  ASSUME CacheInv, NEW s \in Session, NEW p, NEW h, NEW q, UNCHANGED cacheVars,
         pc' = [pc EXCEPT ![s] = p], handle' = [handle EXCEPT ![s] = h], stmt' = [stmt EXCEPT ![s] = q],
         \/ pc[s] \notin Using /\ p \notin Using
         \/ {pc[s], p} \subseteq {"fixing", "fixed", "giveBack"} /\ h = handle[s] /\ q = stmt[s]
  PROVE  FlangeInv'
<1>1. KeptFlanges /\ linked' \subseteq linked
  <2>1. flange' = flange /\ linked' = linked
    BY DEF cacheVars
  <2>2. flange \in [Flange -> FlangeType]
    BY DEF CacheInv, PlanInv, TypeOK, CacheTypes, FlangeType
  <2> QED BY <2>1, <2>2 DEF KeptFlanges
<1> QED BY <1>1, KeepStep

\* What a step does not change.
LEMMA SameCall ==
  ASSUME CacheInv, NEW s \in Session
  PROVE  /\ pc = [pc EXCEPT ![s] = pc[s]] /\ handle = [handle EXCEPT ![s] = handle[s]]
         /\ stmt = [stmt EXCEPT ![s] = stmt[s]]
BY DEF CacheInv, PlanInv, TypeOK, CallTypes

LEMMA CountAndRefresh ==
  ASSUME NEW k \in Flange, flange \in [Flange -> FlangeType], flange[k].plans # {},
         flange' = [flange EXCEPT ![k].ref = @ + 1, ![k].age = 0]
  PROVE  OneMoreUser(k)
<1>1. \A f \in Flange : f # k => flange'[f] = flange[f]
  OBVIOUS
<1>2. flange'[k] = [flange[k] EXCEPT !.ref = @ + 1, !.age = 0]
  OBVIOUS
<1>3. flange[k] \in FlangeType /\ flange[k].ref \in Int
  BY DEF FlangeType
<1> DEFINE r == flange[k]
           n == flange'[k]
<1>a. r \in FlangeType /\ n = [[r EXCEPT !.ref = @ + 1] EXCEPT !.age = 0]
  BY <1>2, <1>3
<1> HIDE DEF r, n
<1>b. n.sql = r.sql /\ n.plans = r.plans
  BY <1>a DEF FlangeType
<1>c. n.ref = r.ref + 1
  BY <1>a DEF FlangeType
<1>d. n \in FlangeType
  <2>1. n = [sql |-> r.sql, ref |-> r.ref + 1, plans |-> r.plans, age |-> 0,
             dropped |-> r.dropped, findable |-> r.findable]
    BY <1>a DEF FlangeType
  <2>2. /\ r.sql \in Sql \cup {NoSql} /\ r.ref + 1 \in Int /\ r.plans \in SUBSET Plan
        /\ r.dropped \in BOOLEAN /\ r.findable \in BOOLEAN
    BY <1>a DEF FlangeType
  <2> QED BY <2>1, <2>2 DEF FlangeType
<1>4. flange'[k] \in FlangeType /\ flange'[k].sql = flange[k].sql /\ flange'[k].ref = flange[k].ref + 1
      /\ flange'[k].plans = flange[k].plans
  BY <1>b, <1>c, <1>d DEF r, n
<1>5. flange' = [f \in Flange |-> flange'[f]]
  OBVIOUS
<1>6. \A f \in Flange : flange'[f] \in FlangeType
  BY <1>1, <1>4
<1>7. flange' \in [Flange -> FlangeType]
  BY <1>5, <1>6
<1> QED BY <1>1, <1>4, <1>7 DEF OneMoreUser

LEMMA FixFlanges ==
  ASSUME CacheInv, NEW s \in Session, NEW q \in Sql, FixSql(s, q)
  PROVE  FlangeInv'
<1>1. pc[s] \notin Using /\ stmt' = [stmt EXCEPT ![s] = q] /\ linked' = linked /\ q # NoSql
  BY PlanCacheAssumption DEF FixSql, Using
<1>2. ASSUME NEW f \in Found(q),
             flange' = [flange EXCEPT ![f].ref = @ + 1, ![f].age = 0],
             handle' = [handle EXCEPT ![s] = f], Goto(s, "fixing")
      PROVE  FlangeInv'
  <2>1. f \in Flange /\ flange[f].sql = q /\ flange[f].plans # {}
    BY DEF Found, Match, CacheInv, PlanInv, TypeOK, CacheTypes, FlangesSound
  <2>2. flange \in [Flange -> FlangeType]
    BY DEF FlangeType, CacheInv, PlanInv, TypeOK, CacheTypes
  <2>3. flange' = [flange EXCEPT ![f].ref = @ + 1, ![f].age = 0]
    BY <1>2
  <2>4. OneMoreUser(f)
    BY <2>1, <2>2, <2>3, CountAndRefresh
  <2> QED BY <1>1, <1>2, <2>1, <2>4, JoinFlange DEF Goto
<1>3. ASSUME Goto(s, "compile"), UNCHANGED <<flange, handle>>
      PROVE  FlangeInv'
  <2>1. handle' = [handle EXCEPT ![s] = handle[s]] /\ UNCHANGED cacheVars
    BY <1>1, <1>3, SameCall DEF cacheVars
  <2> QED BY <1>1, <1>3, <2>1, QuietStep DEF Goto, Using
<1> QED BY <1>2, <1>3 DEF FixSql

LEMMA FetchFlanges ==
  ASSUME CacheInv, NEW s \in Session, FlangeFetchNext(s)
  PROVE  FlangeInv'
<1>1. PICK f \in Flange :
        /\ flange[f].sql # NoSql /\ flange[f].plans # {}
        /\ flange' = [flange EXCEPT ![f].ref = @ + 1]
        /\ handle' = [handle EXCEPT ![s] = f]
  BY DEF FlangeFetchNext
<1>2. OneMoreUser(f)
  BY <1>1 DEF OneMoreUser, FlangeType, CacheInv, PlanInv, TypeOK, CacheTypes
<1>3. /\ pc[s] \notin Using /\ pc' = [pc EXCEPT ![s] = "fixing"] /\ linked' = linked
      /\ stmt' = [stmt EXCEPT ![s] = stmt[s]]
  BY SameCall DEF FlangeFetchNext, Goto, Using
<1>4. stmt[s] = NoSql
  BY DEF FlangeFetchNext, CacheInv, PlanInv, TypeOK
<1> QED BY <1>1, <1>2, <1>3, <1>4, JoinFlange

\* Done, where the session has not used a flange, or does not any more.
LEMMA DoneFlanges ==
  ASSUME CacheInv, NEW s \in Session, UNCHANGED cacheVars, pc[s] \notin Using, Done(s)
  PROVE  FlangeInv'
BY QuietStep DEF Done, Goto, Using

\* A step of a session that stays with its flange, or does not use one.
LEMMA StayFlanges ==
  ASSUME CacheInv, NEW s \in Session, NEW p, pc' = [pc EXCEPT ![s] = p],
         UNCHANGED <<handle, stmt>>, KeptFlanges, linked' \subseteq linked,
         \/ pc[s] \notin Using /\ p \notin Using
         \/ {pc[s], p} \subseteq {"fixing", "fixed", "giveBack"}
  PROVE  FlangeInv'
<1>1. handle' = [handle EXCEPT ![s] = handle[s]] /\ stmt' = [stmt EXCEPT ![s] = stmt[s]]
  BY SameCall
<1>2. PICK h, q : h = handle[s] /\ q = stmt[s]
  OBVIOUS
<1>3. handle' = [handle EXCEPT ![s] = h] /\ stmt' = [stmt EXCEPT ![s] = q]
  BY <1>1, <1>2
<1>4. CASE pc[s] \notin Using /\ p \notin Using
  BY <1>3, <1>4, KeepStep
<1>5. CASE {pc[s], p} \subseteq {"fixing", "fixed", "giveBack"}
  BY <1>2, <1>3, <1>5, KeepStep
<1> QED BY <1>4, <1>5

LEMMA MoveFlanges ==
  ASSUME CacheInv, NEW s \in Session, NEW p, pc' = [pc EXCEPT ![s] = p],
         UNCHANGED <<cacheVars, handle, stmt>>, pc[s] \notin Using /\ p \notin Using
  PROVE  FlangeInv'
<1>1. KeptFlanges /\ linked' \subseteq linked
  <2>1. flange' = flange /\ linked' = linked
    BY DEF cacheVars
  <2>2. flange \in [Flange -> FlangeType]
    BY DEF CacheInv, PlanInv, TypeOK, CacheTypes, FlangeType
  <2> QED BY <2>1, <2>2 DEF KeptFlanges
<1> QED BY <1>1, StayFlanges

\* A store into a field of a flange that is not about its use.
LEMMA KeepAge ==
  ASSUME CacheInv, NEW k \in Flange, flange' = [flange EXCEPT ![k].age = @ + 1]
  PROVE  KeptFlanges
<1>1. flange \in [Flange -> FlangeType]
  BY DEF CacheInv, PlanInv, TypeOK, CacheTypes, FlangeType
<1> QED BY <1>1 DEF KeptFlanges, FlangeType

LEMMA KeepDropped ==
  ASSUME CacheInv, NEW k \in Flange, flange' = [flange EXCEPT ![k].dropped = TRUE]
  PROVE  KeptFlanges
<1>1. flange \in [Flange -> FlangeType]
  BY DEF CacheInv, PlanInv, TypeOK, CacheTypes, FlangeType
<1> QED BY <1>1 DEF KeptFlanges, FlangeType

LEMMA FixedFlanges ==
  ASSUME CacheInv, NEW s \in Session, AddFixedSql(s) \/ DiscardSql(s) \/ RemoveFixedSql(s)
  PROVE  FlangeInv'
<1>1. CASE AddFixedSql(s)
  <2>1. PICK p \in {"fixed", "giveBack"} : pc' = [pc EXCEPT ![s] = p]
    BY <1>1 DEF AddFixedSql, Goto
  <2>2. UNCHANGED <<flange, linked, handle, stmt>> /\ pc[s] = "fixing"
    BY <1>1 DEF AddFixedSql, cacheVars
  <2>3. flange \in [Flange -> FlangeType]
    BY DEF CacheInv, PlanInv, TypeOK, CacheTypes, FlangeType
  <2>4. KeptFlanges
    BY <2>2, <2>3 DEF KeptFlanges
  <2> QED BY <2>1, <2>2, <2>4, StayFlanges
<1>2. CASE DiscardSql(s)
  <2>1. /\ pc[s] = "fixed" /\ pc' = [pc EXCEPT ![s] = "giveBack"] /\ linked' \subseteq linked
        /\ UNCHANGED <<handle, stmt>>
        /\ flange' = [flange EXCEPT ![handle[s]].dropped = TRUE]
    BY <1>2 DEF DiscardSql, Goto, callVars
  <2>2. handle[s] \in Flange
    BY <2>1 DEF CacheInv, PlanInv, FlangesSound, Using
  <2>3. KeptFlanges
    BY <2>1, <2>2, KeepDropped
  <2> QED BY <2>1, <2>3, StayFlanges
<1>3. CASE RemoveFixedSql(s)
  <2>1. pc[s] \notin Using /\ UNCHANGED cacheVars
    BY <1>3 DEF RemoveFixedSql, Using
  <2>2. CASE Done(s)
    BY <2>1, <2>2, DoneFlanges
  <2>3. CASE Goto(s, "compile") /\ handle' = [handle EXCEPT ![s] = NoFlange] /\ UNCHANGED stmt
    <3>1. PICK q : stmt' = [stmt EXCEPT ![s] = q]
      BY <2>3, SameCall
    <3> QED BY <2>1, <2>3, <3>1, QuietStep DEF Goto, Using
  <2> QED BY <1>3, <2>2, <2>3 DEF RemoveFixedSql
<1> QED BY <1>1, <1>2, <1>3

LEMMA AgeFlanges ==
  ASSUME CacheInv, NEW s \in Session, AgeFlange(s)
  PROVE  FlangeInv'
<1> DEFINE f == <<ager[s].clock, ager[s].block, ager[s].slot>>
<1>1. /\ pc[s] = "age" /\ ager[s].slot <= BlockSize /\ UNCHANGED <<pc, stmt, handle>>
      /\ pc' = [pc EXCEPT ![s] = "age"]
  BY SameCall DEF AgeFlange
<1>2. f \in Flange
  <2>1. ager[s].clock \in Clock /\ ager[s].block \in 1 .. MaxBlocks /\ ager[s].slot \in 1 .. BlockSize + 1
    BY DEF CacheInv, PlanInv, TypeOK, ClockTypes
  <2> QED BY <1>1, <2>1, PlanCacheAssumption DEF Flange
<1> HIDE DEF f
<1>3. \/ flange[f].ref = 0 /\ linked' = linked \ {f} /\ flange' = [flange EXCEPT ![f] = EmptyFlange]
      \/ flange' = [flange EXCEPT ![f].age = @ + 1] /\ linked' = linked
      \/ UNCHANGED cacheVars
  BY DEF AgeFlange, Unused, cacheVars, f
<1>4. CASE flange[f].ref = 0 /\ linked' = linked \ {f} /\ flange' = [flange EXCEPT ![f] = EmptyFlange]
  <2>1. pc[s] \notin Using /\ "age" \notin Using
    BY <1>1 DEF Using
  <2>2. UNCHANGED <<handle, stmt>>
    BY <1>1
  <2> QED BY <1>1, <1>2, <1>4, <2>1, <2>2, FreeStep
<1>5. CASE flange' = [flange EXCEPT ![f].age = @ + 1] /\ linked' = linked
  <2>1. KeptFlanges
    BY <1>2, <1>5, KeepAge
  <2>2. linked' \subseteq linked /\ pc[s] \notin Using /\ "age" \notin Using
    BY <1>1, <1>5 DEF Using
  <2> QED BY <1>1, <2>1, <2>2, StayFlanges
<1>6. CASE UNCHANGED cacheVars
  BY <1>1, <1>6, MoveFlanges DEF Using
<1> QED BY <1>3, <1>4, <1>5, <1>6

LEMMA AgingFlanges ==
  ASSUME CacheInv, NEW s \in Session, Age(s)
  PROVE  FlangeInv'
<1>1. CASE AgeFlange(s)
  BY <1>1, AgeFlanges
<1>2. CASE AgeForMemory(s) \/ CleanupPlans(s)
  BY <1>2, MoveFlanges DEF AgeForMemory, CleanupPlans, BeginAging, Goto, Using
<1>3. CASE NextBlock(s)
  <2>1. pc' = [pc EXCEPT ![s] = "age"]
    BY <1>3, SameCall DEF NextBlock
  <2> QED BY <1>3, <2>1, MoveFlanges DEF NextBlock, Using
<1>4. CASE EndAging(s)
  <2>1. pc[s] \notin Using /\ UNCHANGED cacheVars
    BY <1>4 DEF EndAging, Using
  <2>2. CASE Done(s)
    BY <2>1, <2>2, DoneFlanges
  <2>3. CASE ~Done(s)
    <3>1. PICK p \in {"find", "giveUp", "compile"} : pc' = [pc EXCEPT ![s] = p] /\ UNCHANGED <<handle, stmt>>
      BY <1>4, <2>3 DEF EndAging, Goto
    <3> QED BY <2>1, <3>1, MoveFlanges DEF Using
  <2> QED BY <2>2, <2>3
<1> QED BY <1>1, <1>2, <1>3, <1>4 DEF Age

LEMMA FindFlanges ==
  ASSUME CacheInv, NEW s \in Session, FindEmpty(s)
  PROVE  FlangeInv'
<1> DEFINE c == ClockOf[s]
<1>1. pc[s] = "find" /\ pc[s] \notin Using /\ UNCHANGED <<linked, stmt>> /\ stmt[s] \in Sql
  BY DEF FindEmpty, Using, CacheInv, PlanInv, TypeOK
<1>2. c \in Clock /\ ClockTypes
  BY PlanCacheAssumption DEF CacheInv, PlanInv, TypeOK
<1>3. ASSUME NEW x \in Empties(c),
             flange' = [flange EXCEPT ![FlangeAt(c, x)] =
               [EmptyFlange EXCEPT !.sql = stmt[s], !.ref = 1, !.findable = TRUE]],
             handle' = [handle EXCEPT ![s] = FlangeAt(c, x)], Goto(s, "insert")
      PROVE  FlangeInv'
  <2>1. x[1] \in Nat /\ x[2] \in 1 .. BlockSize /\ flange[FlangeAt(c, x)].sql = NoSql
    BY <1>2, BlockInRing DEF Empties
  <2>2. BlockAt(c, x[1]) \in 1 .. MaxBlocks
    BY <1>2, <2>1, BlockInRing, RingBlocks
  <2>3. FlangeAt(c, x) \in Flange
    BY <1>2, <2>1, <2>2 DEF FlangeAt, Flange
  <2>4. PICK k \in Flange : k = FlangeAt(c, x)
    BY <2>3
  <2> QED BY <1>1, <1>3, <2>1, <2>4, NewStep DEF Goto
<1>4. ASSUME UNCHANGED <<flange, handle>>, Goto(s, "extend")
      PROVE  FlangeInv'
  BY <1>1, <1>4, MoveFlanges DEF Goto, Using, cacheVars
<1> QED BY <1>3, <1>4 DEF FindEmpty

LEMMA AllocFlanges ==
  ASSUME CacheInv, NEW s \in Session, Alloc(s)
  PROVE  FlangeInv'
<1>1. CASE FindEmpty(s)
  BY <1>1, FindFlanges
<1>2. CASE Compile(s)
  <2>1. pc[s] \notin Using /\ UNCHANGED cacheVars
    BY <1>2 DEF Compile, Using
  <2>2. CASE Done(s)
    BY <2>1, <2>2, DoneFlanges
  <2>3. CASE Goto(s, "find") /\ UNCHANGED <<stmt, handle>>
    BY <2>1, <2>3, MoveFlanges DEF Goto, Using
  <2> QED BY <1>2, <2>2, <2>3 DEF Compile
<1>3. CASE ExtendClock(s)
  <2>1. PICK p \in {"link", "age"} : pc' = [pc EXCEPT ![s] = p]
    BY <1>3 DEF ExtendClock, BeginAging, Goto
  <2>2. pc[s] \notin Using /\ p \notin Using /\ UNCHANGED <<cacheVars, handle, stmt>>
    BY <1>3 DEF ExtendClock, Using
  <2> QED BY <2>1, <2>2, MoveFlanges
<1>4. CASE LinkBlock(s)
  <2>1. PICK p \in {"find", "giveUp"} : pc' = [pc EXCEPT ![s] = p]
    BY <1>4 DEF LinkBlock, Goto
  <2>2. pc[s] \notin Using /\ p \notin Using /\ UNCHANGED <<cacheVars, handle, stmt>>
    BY <1>4 DEF LinkBlock, Using
  <2> QED BY <2>1, <2>2, MoveFlanges
<1>5. CASE GiveUp(s)
  BY <1>5, MoveFlanges DEF GiveUp, Goto, Using
<1>6. CASE GoOnWithout(s)
  BY <1>6, DoneFlanges DEF GoOnWithout, Using
<1> QED BY <1>1, <1>2, <1>3, <1>4, <1>5, <1>6 DEF Alloc

LEMMA InsertFlanges ==
  ASSUME CacheInv, NEW s \in Session, Insert(s)
  PROVE  FlangeInv'
<1>1. pc[s] = "insert" /\ UNCHANGED <<handle, stmt>> /\ handle[s] \in Flange
  BY DEF Insert, CacheInv, PlanInv, FlangesSound, Using
<1>2. PICK k \in Flange : k = handle[s]
  BY <1>1
<1>3. ASSUME NEW x \in Plan, flange' = [flange EXCEPT ![k].plans = {x}],
             linked' = linked \cup {k}, Goto(s, "fixing")
      PROVE  FlangeInv'
  BY <1>1, <1>2, <1>3, PublishStep DEF Goto
<1>4. ASSUME flange' = [flange EXCEPT ![k] = EmptyFlange], linked' = linked, Goto(s, "join")
      PROVE  FlangeInv'
  <2>1. k \notin linked
    BY <1>1, <1>2 DEF CacheInv, PlanInv, FlangesSound, NewFlange
  <2>2. linked' = linked \ {k} /\ "join" \notin Using /\ pc' = [pc EXCEPT ![s] = "join"]
    BY <1>4, <2>1 DEF Using, Goto
  <2> QED BY <1>1, <1>2, <1>4, <2>2, FreeStep
<1> QED BY <1>2, <1>3, <1>4 DEF Insert

LEMMA JoinFlanges ==
  ASSUME CacheInv, NEW s \in Session, Join(s)
  PROVE  FlangeInv'
<1> DEFINE m == [flange EXCEPT ![handle[s]].findable = FALSE]
<1>1. pc[s] = "join" /\ pc[s] \notin Using /\ linked' = linked
  BY DEF Join, Using
<1>f. PICK f \in linked : f = found[s] /\ flange[f].sql = stmt[s]
  BY <1>1 DEF CacheInv, PlanInv, FoundStays
<1>a. PICK x \in Plan :
        \/ /\ flange' = [flange EXCEPT ![handle[s]].findable = FALSE,
                                       ![f].plans = @ \cup {x}, ![f].ref = @ + 1, ![f].age = 0]
           /\ handle' = [handle EXCEPT ![s] = f]
           /\ Goto(s, "fixing") /\ UNCHANGED stmt
        \/ flange' = m /\ Done(s)
  BY <1>f DEF Join
<1>b. [flange EXCEPT ![handle[s]].findable = FALSE, ![f].plans = @ \cup {x}, ![f].ref = @ + 1, ![f].age = 0]
        = [m EXCEPT ![f].plans = @ \cup {x}, ![f].ref = @ + 1, ![f].age = 0]
  OBVIOUS
<1>2. \/ /\ flange' = [m EXCEPT ![f].plans = @ \cup {x}, ![f].ref = @ + 1, ![f].age = 0]
         /\ handle' = [handle EXCEPT ![s] = f]
         /\ Goto(s, "fixing") /\ UNCHANGED stmt
      \/ flange' = m /\ Done(s)
  BY <1>a, <1>b
<1>3. f \in Flange /\ flange[f].sql = stmt[s] /\ flange[f].plans # {} /\ flange[f].sql # NoSql
  BY <1>f DEF CacheInv, PlanInv, TypeOK, CacheTypes, FlangesSound
<1>4. flange \in [Flange -> FlangeType]
  BY DEF FlangeType, CacheInv, PlanInv, TypeOK, CacheTypes
<1>5. /\ m \in [Flange -> FlangeType]
      /\ \A g \in Flange : m[g].sql = flange[g].sql /\ m[g].ref = flange[g].ref /\ m[g].plans = flange[g].plans
  <2>1. CASE handle[s] \in Flange
    BY <2>1, <1>4 DEF FlangeType
  <2>2. CASE handle[s] \notin Flange
    <3>1. m = flange
      BY <2>2, <1>4
    <3> QED BY <3>1, <1>4
  <2> QED BY <2>1, <2>2
<1> HIDE DEF m
<1>6. CASE flange' = m /\ Done(s)
  <2>1. KeptFlanges /\ linked' \subseteq linked
    BY <1>1, <1>5, <1>6 DEF KeptFlanges
  <2> QED BY <1>1, <1>6, <2>1, KeepStep DEF Done, Goto, Using
<1>7. CASE /\ flange' = [m EXCEPT ![f].plans = @ \cup {x}, ![f].ref = @ + 1, ![f].age = 0]
           /\ handle' = [handle EXCEPT ![s] = f]
           /\ Goto(s, "fixing") /\ UNCHANGED stmt
  <2>1. flange'[f] = [m[f] EXCEPT !.plans = @ \cup {x}, !.ref = @ + 1, !.age = 0]
    BY <1>3, <1>5, <1>7
  <2>2. \A g \in Flange : g # f => flange'[g] = m[g]
    BY <1>3, <1>5, <1>7
  <2> DEFINE r == m[f]
             n == flange'[f]
  <2>3. r \in FlangeType /\ n = [[[r EXCEPT !.plans = @ \cup {x}] EXCEPT !.ref = @ + 1] EXCEPT !.age = 0]
    BY <1>3, <1>5, <2>1
  <2> HIDE DEF r, n
  <2>4. n = [sql |-> r.sql, ref |-> r.ref + 1, plans |-> r.plans \cup {x}, age |-> 0,
             dropped |-> r.dropped, findable |-> r.findable]
    BY <2>3 DEF FlangeType
  <2>5. /\ r.sql \in Sql \cup {NoSql} /\ r.ref + 1 \in Int /\ r.plans \cup {x} \in SUBSET Plan
        /\ r.dropped \in BOOLEAN /\ r.findable \in BOOLEAN
    BY <2>3 DEF FlangeType
  <2>6. n \in FlangeType
    BY <2>4, <2>5 DEF FlangeType
  <2>7. \A g \in Flange : flange'[g] \in FlangeType
    BY <1>5, <2>2, <2>6 DEF n
  <2>8. flange' = [g \in Flange |-> flange'[g]]
    BY <1>5, <1>7
  <2>9. flange' \in [Flange -> FlangeType]
    BY <2>7, <2>8
  <2>10. flange'[f].sql = m[f].sql /\ flange'[f].ref = m[f].ref + 1 /\ flange'[f].plans # {}
    BY <2>4 DEF n, r
  <2>11. OneMoreUser(f)
    BY <1>3, <1>5, <2>2, <2>9, <2>10 DEF OneMoreUser
  <2>12. PICK q : q = stmt[s] /\ stmt' = [stmt EXCEPT ![s] = q]
    BY <1>7, SameCall
  <2>13. q \in Sql \cup {NoSql} /\ (q # NoSql => flange[f].sql = q)
    BY <1>3, <2>12 DEF CacheInv, PlanInv, TypeOK, CallTypes
  <2> QED BY <1>1, <1>3, <1>7, <2>11, <2>12, <2>13, JoinFlange DEF Goto
<1> QED BY <1>2, <1>6, <1>7

LEMMA FlangeStep ==
  ASSUME CacheInv, [Next]_vars
  PROVE  FlangeInv'
<1>1. CASE UNCHANGED vars
  BY <1>1 DEF vars, cacheVars, callVars, CacheInv, PlanInv, TypeOK, FlangeInv, CacheTypes, FlangesSound,
              RefCountExact, HandlesAreValid, Users, NewFlange
<1>2. ASSUME NEW s \in Session, \E q \in Sql : FixSql(s, q)
      PROVE  FlangeInv'
  BY <1>2, FixFlanges
<1>3. ASSUME NEW s \in Session, Fix(s)
      PROVE  FlangeInv'
  BY <1>3, FetchFlanges, FixedFlanges, UnfixStep DEF Fix
<1> QED BY <1>1, <1>2, <1>3, AgingFlanges, AllocFlanges, InsertFlanges, JoinFlanges DEF Next

-----------------------------------------------------------------------------
(* The clocks and the sessions *)

LEMMA SameClocks ==
  ASSUME CacheInv, NEW s \in Session, NEW p, pc' = [pc EXCEPT ![s] = p],
         UNCHANGED <<clockVars, ager>>, p # "age"
  PROVE  ClockTypes'
<1>1. ClockTypes /\ CallTypes
  BY DEF CacheInv, PlanInv, TypeOK
<1>2. UNCHANGED <<ring, count, free, hand, ager>>
  BY DEF clockVars
<1>3. \A t \in Session : pc'[t] = "age" => pc[t] = "age"
  BY <1>1 DEF CallTypes
<1> QED BY <1>1, <1>2, <1>3 DEF ClockTypes

\* What a session that ages a clock remembers.
AgerType ==
  [clock : Clock, block : 1 .. MaxBlocks, slot : 1 .. BlockSize + 1, start : 1 .. MaxBlocks,
   freed : Nat, age : Nat, limit : Nat, for : {"idle", "compile", "find"}]

LEMMA AgerClocks ==
  ASSUME CacheInv, NEW s \in Session, NEW p, pc' = [pc EXCEPT ![s] = p], UNCHANGED clockVars,
         NEW a \in AgerType, ager' = [ager EXCEPT ![s] = a], a.block \in ToSet(ring[a.clock])
  PROVE  ClockTypes'
<1>1. ClockTypes /\ CallTypes
  BY DEF CacheInv, PlanInv, TypeOK
<1>2. UNCHANGED <<ring, count, free, hand>>
  BY DEF clockVars
<1>3. ager' \in [Session -> AgerType]
  BY <1>1 DEF ClockTypes, AgerType
<1>4. \A t \in Session : pc'[t] = "age" => ager'[t].block \in ToSet(ring[ager'[t].clock])
  <2> SUFFICES ASSUME NEW t \in Session, pc'[t] = "age"
               PROVE  ager'[t].block \in ToSet(ring[ager'[t].clock])
    OBVIOUS
  <2>1. CASE t = s
    BY <2>1, <1>1 DEF ClockTypes
  <2>2. CASE t # s
    BY <2>2, <1>1 DEF ClockTypes, CallTypes
  <2> QED BY <2>1, <2>2
<1> QED BY <1>1, <1>2, <1>3, <1>4 DEF ClockTypes, AgerType

LEMMA BeginClocks ==
  ASSUME CacheInv, NEW s \in Session, NEW c \in Clock, NEW w \in {"idle", "compile", "find"},
         NEW n \in Nat, NEW m \in Nat, BeginAging(s, c, w, n, m), UNCHANGED clockVars
  PROVE  ClockTypes'
<1> DEFINE a == [clock |-> c, block |-> hand[c], slot |-> 1, start |-> hand[c],
                 freed |-> 0, age |-> n, limit |-> m, for |-> w]
<1>1. hand[c] \in 1 .. MaxBlocks /\ hand[c] \in ToSet(ring[c])
  BY DEF CacheInv, PlanInv, TypeOK, ClockTypes
<1>2. a \in AgerType /\ a.block \in ToSet(ring[a.clock])
  <2>1. 1 \in 1 .. BlockSize + 1
    BY PlanCacheAssumption
  <2> QED BY <1>1, <2>1 DEF AgerType
<1>3. ager' = [ager EXCEPT ![s] = a] /\ pc' = [pc EXCEPT ![s] = "age"]
  BY DEF BeginAging, Goto
<1> HIDE DEF a
<1>4. PICK b \in AgerType : b = a
  BY <1>2
<1> QED BY <1>2, <1>3, <1>4, AgerClocks

LEMMA AgeClocks ==
  ASSUME CacheInv, NEW s \in Session, AgeFlange(s) \/ NextBlock(s)
  PROVE  ClockTypes'
<1> DEFINE r == ager[s]
           n == ager'[s]
<1>1. r \in AgerType /\ r.block \in ToSet(ring[r.clock]) /\ pc[s] = "age"
  BY DEF CacheInv, PlanInv, TypeOK, ClockTypes, AgerType, AgeFlange, NextBlock
<1>2. /\ ager' = [ager EXCEPT ![s] = n] /\ UNCHANGED clockVars
      /\ pc' = [pc EXCEPT ![s] = "age"]
  <2>1. ager \in [Session -> AgerType]
    BY DEF CacheInv, PlanInv, TypeOK, ClockTypes, AgerType
  <2>2. UNCHANGED <<pc, clockVars>>
    BY DEF AgeFlange, NextBlock
  <2>3. pc' = [pc EXCEPT ![s] = "age"]
    BY <1>1, <2>2, SameCall
  <2>4. ager' = [ager EXCEPT ![s] = n]
    BY <2>1 DEF AgeFlange, NextBlock, Advance
  <2> QED BY <2>2, <2>3, <2>4
<1>3. CASE AgeFlange(s)
  <2>1. PICK k \in {0, 1} : ager' = [ager EXCEPT ![s].slot = @ + 1, ![s].freed = @ + k]
    BY <1>3 DEF AgeFlange, Advance
  <2>2. n = [[r EXCEPT !.slot = @ + 1] EXCEPT !.freed = @ + k]
    BY <2>1 DEF CacheInv, PlanInv, TypeOK, ClockTypes
  <2>3. r.slot <= BlockSize
    BY <1>3 DEF AgeFlange
  <2> HIDE DEF r, n
  <2>4. n = [clock |-> r.clock, block |-> r.block, slot |-> r.slot + 1, start |-> r.start,
             freed |-> r.freed + k, age |-> r.age, limit |-> r.limit, for |-> r.for]
    BY <1>1, <2>2 DEF AgerType
  <2>5. /\ r.clock \in Clock /\ r.block \in 1 .. MaxBlocks /\ r.start \in 1 .. MaxBlocks
        /\ r.age \in Nat /\ r.limit \in Nat /\ r.for \in {"idle", "compile", "find"}
    BY <1>1 DEF AgerType
  <2>6. r.slot + 1 \in 1 .. BlockSize + 1 /\ r.freed + k \in Nat
    BY <1>1, <2>1, <2>3, PlanCacheAssumption DEF AgerType
  <2>7. n \in AgerType /\ n.block \in ToSet(ring[n.clock])
    BY <1>1, <2>4, <2>5, <2>6 DEF AgerType
  <2>8. PICK b \in AgerType : b = n
    BY <2>7
  <2> QED BY <1>2, <2>7, <2>8, AgerClocks
<1>4. CASE NextBlock(s)
  <2> DEFINE b == After(r.clock, r.block)
  <2>1. b \in ToSet(ring[r.clock]) /\ b \in 1 .. MaxBlocks
    <3>1. ClockTypes /\ r.clock \in Clock
      BY <1>1 DEF CacheInv, PlanInv, TypeOK, AgerType
    <3> QED BY <1>1, <3>1, AfterInRing, RingBlocks
  <2>2. \/ ager' = [ager EXCEPT ![s].block = b, ![s].slot = 1]
        \/ r.age > 0 /\ ager' = [ager EXCEPT ![s].block = b, ![s].slot = 1, ![s].age = @ - 1]
    BY <1>4 DEF NextBlock
  <2>3. \/ n = [[r EXCEPT !.block = b] EXCEPT !.slot = 1]
        \/ r.age > 0 /\ n = [[[r EXCEPT !.block = b] EXCEPT !.slot = 1] EXCEPT !.age = @ - 1]
    <3> HIDE DEF b
    <3>1. DOMAIN ager = Session
      BY DEF CacheInv, PlanInv, TypeOK, ClockTypes
    <3>2. CASE ager' = [ager EXCEPT ![s].block = b, ![s].slot = 1]
      BY <3>1, <3>2
    <3>3. CASE r.age > 0 /\ ager' = [ager EXCEPT ![s].block = b, ![s].slot = 1, ![s].age = @ - 1]
      BY <3>1, <3>3
    <3> QED BY <2>2, <3>2, <3>3
  <2> HIDE DEF r, n, b
  <2>4. PICK a \in Nat : n = [clock |-> r.clock, block |-> b, slot |-> 1, start |-> r.start,
                              freed |-> r.freed, age |-> a, limit |-> r.limit, for |-> r.for]
    <3>1. CASE n = [[r EXCEPT !.block = b] EXCEPT !.slot = 1]
      BY <1>1, <3>1 DEF AgerType
    <3>2. CASE r.age > 0 /\ n = [[[r EXCEPT !.block = b] EXCEPT !.slot = 1] EXCEPT !.age = @ - 1]
      <4>1. r.age - 1 \in Nat
        BY <1>1, <3>2 DEF AgerType
      <4>2. n = [clock |-> r.clock, block |-> b, slot |-> 1, start |-> r.start,
                 freed |-> r.freed, age |-> r.age - 1, limit |-> r.limit, for |-> r.for]
        BY <1>1, <3>2 DEF AgerType
      <4> QED BY <4>1, <4>2
    <3> QED BY <2>3, <3>1, <3>2
  <2>5. /\ r.clock \in Clock /\ r.start \in 1 .. MaxBlocks /\ r.freed \in Nat
        /\ r.limit \in Nat /\ r.for \in {"idle", "compile", "find"} /\ 1 \in 1 .. BlockSize + 1
    BY <1>1, PlanCacheAssumption DEF AgerType
  <2>6. n \in AgerType /\ n.block \in ToSet(ring[n.clock])
    BY <2>1, <2>4, <2>5 DEF AgerType
  <2>7. PICK x \in AgerType : x = n
    BY <2>6
  <2> QED BY <1>2, <2>6, <2>7, AgerClocks
<1> QED BY <1>3, <1>4

LEMMA EndClocks ==
  ASSUME CacheInv, NEW s \in Session, EndAging(s)
  PROVE  ClockTypes'
<1> DEFINE c == ager[s].clock
           b == After(c, ager[s].block)
<1>1. ClockTypes /\ CallTypes /\ pc[s] = "age" /\ c \in Clock /\ ager[s].block \in ToSet(ring[c])
  BY DEF CacheInv, PlanInv, TypeOK, ClockTypes, EndAging
<1>2. b \in ToSet(ring[c]) /\ b \in 1 .. MaxBlocks
  BY <1>1, AfterInRing, RingBlocks
<1>3. hand' = [hand EXCEPT ![c] = b] /\ ager' = [ager EXCEPT ![s] = NoAger] /\ UNCHANGED <<ring, count, free>>
  BY DEF EndAging
<1>4. pc'[s] # "age" /\ \A t \in Session : t # s => pc'[t] = pc[t]
  <2>1. PICK p \in {"find", "giveUp", "compile", "idle"} : pc' = [pc EXCEPT ![s] = p]
    BY DEF EndAging, Done, Goto
  <2> QED BY <2>1, <1>1 DEF CallTypes
<1> HIDE DEF b, c
<1>5. NoAger \in AgerType
  <2>1. ClockOf[s] \in Clock /\ 1 \in 1 .. MaxBlocks /\ 1 \in 1 .. BlockSize + 1
    BY PlanCacheAssumption
  <2>2. (CHOOSE x \in Clock : TRUE) \in Clock
    BY <2>1
  <2> QED BY <2>1, <2>2 DEF NoAger, AgerType
<1>6. ager \in [Session -> AgerType]
  BY <1>1 DEF ClockTypes, AgerType
<1>7. ager' \in [Session -> AgerType]
  BY <1>3, <1>5, <1>6
<1>8. hand' \in [Clock -> 1 .. MaxBlocks] /\ \A x \in Clock : hand'[x] \in ToSet(ring'[x])
  BY <1>1, <1>2, <1>3 DEF ClockTypes
<1>9. \A t \in Session : pc'[t] = "age" => ager'[t].block \in ToSet(ring'[ager'[t].clock])
  BY <1>1, <1>3, <1>4, <1>6 DEF ClockTypes
<1>10. /\ ring' \in [Clock -> Seq(1 .. MaxBlocks)] /\ count' \in [Clock -> Nat]
       /\ free' \in [Clock -> [block : 1 .. MaxBlocks, slot : 1 .. BlockSize + 1]]
       /\ \A x \in Clock : {free'[x].block, hand'[x]} \subseteq ToSet(ring'[x])
  <2>1. \A x \in Clock : free[x].block \in ToSet(ring[x])
    BY <1>1 DEF ClockTypes
  <2>2. \A x \in Clock : free'[x].block \in ToSet(ring'[x])
    BY <1>3, <2>1
  <2>3. \A x \in Clock : {free'[x].block, hand'[x]} \subseteq ToSet(ring'[x])
    BY <1>8, <2>2
  <2> QED BY <1>1, <1>3, <2>3 DEF ClockTypes
<1> QED BY <1>7, <1>8, <1>9, <1>10 DEF ClockTypes, AgerType

LEMMA FindClocks ==
  ASSUME CacheInv, NEW s \in Session, FindEmpty(s)
  PROVE  ClockTypes'
<1> DEFINE c == ClockOf[s]
<1>1. ClockTypes /\ CallTypes /\ c \in Clock
  BY PlanCacheAssumption DEF CacheInv, PlanInv, TypeOK
<1>2. PICK b, n : b \in ToSet(ring[c]) /\ n \in 1 .. BlockSize + 1
                  /\ free' = [free EXCEPT ![c] = [block |-> b, slot |-> n]]
  <2>1. ASSUME NEW p \in Empties(c), free' = [free EXCEPT ![c] = [block |-> BlockAt(c, p[1]), slot |-> p[2] + 1]]
        PROVE  \E b, n : b \in ToSet(ring[c]) /\ n \in 1 .. BlockSize + 1
                         /\ free' = [free EXCEPT ![c] = [block |-> b, slot |-> n]]
    <3>1. p[1] \in Nat /\ p[2] \in 1 .. BlockSize
      BY <1>1, BlockInRing DEF Empties
    <3>2. p[2] + 1 \in 1 .. BlockSize + 1 /\ BlockAt(c, p[1]) \in ToSet(ring[c])
      BY <1>1, <3>1, BlockInRing, PlanCacheAssumption
    <3> QED BY <2>1, <3>2
  <2>2. ASSUME free' = [free EXCEPT ![c] = [block |-> BlockAt(c, Distance(c)), slot |-> BlockSize + 1]]
        PROVE  \E b, n : b \in ToSet(ring[c]) /\ n \in 1 .. BlockSize + 1
                         /\ free' = [free EXCEPT ![c] = [block |-> b, slot |-> n]]
    <3>1. BlockSize + 1 \in 1 .. BlockSize + 1 /\ BlockAt(c, Distance(c)) \in ToSet(ring[c])
      BY <1>1, BlockInRing, PlanCacheAssumption
    <3> QED BY <2>2, <3>1
  <2> QED BY <2>1, <2>2 DEF FindEmpty
<1>3. UNCHANGED <<ring, count, hand, ager>> /\ \A t \in Session : pc'[t] = "age" => pc[t] = "age"
  BY <1>1 DEF FindEmpty, Goto, CallTypes
<1>4. b \in 1 .. MaxBlocks
  BY <1>1, <1>2, RingBlocks
<1> HIDE DEF c
<1>5. /\ free' \in [Clock -> [block : 1 .. MaxBlocks, slot : 1 .. BlockSize + 1]]
      /\ \A x \in Clock : free'[x].block \in ToSet(ring[x])
  BY <1>1, <1>2, <1>4 DEF ClockTypes
<1> QED BY <1>1, <1>3, <1>5 DEF ClockTypes

LEMMA LinkClocks ==
  ASSUME CacheInv, NEW s \in Session, LinkBlock(s)
  PROVE  ClockTypes'
<1> DEFINE c == ClockOf[s]
           q == ring[c]
           i == Position(c, free[c].block) + 1
<1>1. ClockTypes /\ CallTypes /\ c \in Clock
  BY PlanCacheAssumption DEF CacheInv, PlanInv, TypeOK
<1>2. q \in Seq(1 .. MaxBlocks) /\ i \in 1 .. Len(q) + 1 /\ Len(q) + 1 \in 1 .. MaxBlocks
  <2>1. q \in Seq(1 .. MaxBlocks) /\ free[c].block \in ToSet(q)
    BY <1>1 DEF ClockTypes
  <2>2. Position(c, free[c].block) \in 1 .. Len(q)
    BY <1>1, <2>1, PositionInRing
  <2>3. Len(q) < MaxBlocks /\ Len(q) \in Nat
    BY <2>1 DEF LinkBlock
  <2> QED BY <2>1, <2>2, <2>3, PlanCacheAssumption
<1>3. InsertAt(q, i, Len(q) + 1) \in Seq(1 .. MaxBlocks) /\ ToSet(q) \subseteq ToSet(InsertAt(q, i, Len(q) + 1))
  BY <1>2, InsertKeepsBlocks
<1>4. /\ ring' = [ring EXCEPT ![c] = InsertAt(q, i, Len(q) + 1)]
      /\ count' = [count EXCEPT ![c] = @ + BlockSize] /\ UNCHANGED <<free, hand, ager>>
  BY DEF LinkBlock
<1>5. \A t \in Session : pc'[t] = "age" => pc[t] = "age"
  BY <1>1 DEF LinkBlock, Goto, CallTypes
<1> HIDE DEF i, c
<1>6. ring' \in [Clock -> Seq(1 .. MaxBlocks)] /\ \A x \in Clock : ToSet(ring[x]) \subseteq ToSet(ring'[x])
  <2>1. ring \in [Clock -> Seq(1 .. MaxBlocks)]
    BY <1>1 DEF ClockTypes
  <2> DEFINE r == InsertAt(q, i, Len(q) + 1)
  <2>2. r \in Seq(1 .. MaxBlocks) /\ ToSet(ring[c]) \subseteq ToSet(r) /\ ring' = [ring EXCEPT ![c] = r]
    BY <1>3, <1>4
  <2> HIDE DEF r
  <2>3. ring' \in [Clock -> Seq(1 .. MaxBlocks)]
    BY <1>1, <2>1, <2>2
  <2>4. \A x \in Clock : ring'[x] = IF x = c THEN r ELSE ring[x]
    BY <2>1, <2>2
  <2> QED BY <2>2, <2>3, <2>4
<1>7. count' \in [Clock -> Nat]
  <2>1. count \in [Clock -> Nat] /\ count' = [count EXCEPT ![c] = @ + BlockSize]
    BY <1>1, <1>4 DEF ClockTypes
  <2>2. \A x \in Nat : x + BlockSize \in Nat
    BY PlanCacheAssumption
  <2> QED BY <1>1, <2>1, <2>2
<1>8. \A x \in Clock : {free[x].block, hand[x]} \subseteq ToSet(ring'[x])
  BY <1>1, <1>6 DEF ClockTypes
<1>9. \A t \in Session : pc'[t] = "age" => ager[t].block \in ToSet(ring'[ager[t].clock])
  BY <1>1, <1>5, <1>6 DEF ClockTypes
<1> QED BY <1>1, <1>4, <1>6, <1>7, <1>8, <1>9 DEF ClockTypes

LEMMA ClockStep ==
  ASSUME CacheInv, [Next]_vars
  PROVE  ClockTypes'
<1>1. CASE UNCHANGED vars
  BY <1>1 DEF vars, clockVars, callVars, CacheInv, PlanInv, TypeOK, ClockTypes
<1>2. ASSUME NEW s \in Session, \E q \in Sql : FixSql(s, q)
      PROVE  ClockTypes'
  BY <1>2, SameClocks DEF FixSql, Goto
<1>3. ASSUME NEW s \in Session, Fix(s)
      PROVE  ClockTypes'
  <2>1. UNCHANGED <<clockVars, ager>>
    BY <1>3 DEF Fix, FlangeFetchNext, AddFixedSql, DiscardSql, UnfixSql, RemoveFixedSql, callVars
  <2>2. PICK p \in {"fixing", "fixed", "giveBack", "unfixed", "idle", "compile"} : pc' = [pc EXCEPT ![s] = p]
    BY <1>3 DEF Fix, FlangeFetchNext, AddFixedSql, DiscardSql, UnfixSql, RemoveFixedSql, Done, Goto
  <2> QED BY <2>1, <2>2, SameClocks
<1>4. ASSUME NEW s \in Session, Age(s)
      PROVE  ClockTypes'
  <2>1. CASE AgeForMemory(s)
    BY <2>1, BeginClocks, PlanCacheAssumption DEF AgeForMemory
  <2>2. CASE CleanupPlans(s)
    <3>1. BlockSize * MaxBlocks \in Nat /\ 0 \in Nat
      BY PlanCacheAssumption
    <3>2. PICK c \in Clock : BeginAging(s, c, "idle", 0, BlockSize * MaxBlocks) /\ UNCHANGED clockVars
      BY <2>2 DEF CleanupPlans
    <3> QED BY <3>1, <3>2, BeginClocks
  <2> QED BY <1>4, <2>1, <2>2, AgeClocks, EndClocks DEF Age
<1>5. ASSUME NEW s \in Session, Alloc(s)
      PROVE  ClockTypes'
  <2>1. CASE ExtendClock(s)
    <3>1. CASE BeginAging(s, ClockOf[s], "find", DeadAge, AgingThreshold)
      BY <2>1, <3>1, BeginClocks, PlanCacheAssumption DEF ExtendClock
    <3>2. CASE Goto(s, "link") /\ UNCHANGED ager
      BY <2>1, <3>2, SameClocks DEF ExtendClock, Goto
    <3> QED BY <2>1, <3>1, <3>2 DEF ExtendClock
  <2>2. CASE Compile(s) \/ GiveUp(s) \/ GoOnWithout(s)
    <3>1. UNCHANGED <<clockVars, ager>>
      BY <2>2 DEF Compile, GiveUp, GoOnWithout
    <3>2. PICK p \in {"find", "idle", "without"} : pc' = [pc EXCEPT ![s] = p]
      BY <2>2 DEF Compile, GiveUp, GoOnWithout, Done, Goto
    <3> QED BY <3>1, <3>2, SameClocks
  <2> QED BY <1>5, <2>1, <2>2, FindClocks, LinkClocks DEF Alloc
<1>6. ASSUME NEW s \in Session, Insert(s) \/ Join(s)
      PROVE  ClockTypes'
  <2>1. UNCHANGED <<clockVars, ager>>
    BY <1>6 DEF Insert, Join, callVars
  <2>2. PICK p \in {"fixing", "join", "idle"} : pc' = [pc EXCEPT ![s] = p]
    BY <1>6 DEF Insert, Join, Done, Goto
  <2> QED BY <2>1, <2>2, SameClocks
<1> QED BY <1>1, <1>2, <1>3, <1>4, <1>5, <1>6 DEF Next

\* What a session looks for a flange with.
Statements ==
  /\ \A s \in Session : pc[s] = "idle" => stmt[s] = NoSql
  /\ \A s \in Session :
       pc[s] \in {"compile", "find", "extend", "link", "insert"} \/ (pc[s] = "age" /\ ager[s].for # "idle") =>
         stmt[s] \in Sql

\* The statement ends.
LEMMA DoneCalls ==
  ASSUME CacheInv, NEW s \in Session, Done(s), UNCHANGED fixed \/ fixed' = [fixed EXCEPT ![s] = NoFlange],
         UNCHANGED found \/ found' = [found EXCEPT ![s] = NoFlange],
         UNCHANGED ager \/ ager' = [ager EXCEPT ![s] = NoAger]
  PROVE  CallTypes' /\ Statements'
<1>1. CallTypes /\ Statements /\ DOMAIN ager = Session
  BY DEF CacheInv, PlanInv, TypeOK, Statements, ClockTypes
<1>2. CallTypes'
  BY <1>1 DEF Done, Goto, CallTypes
<1>3. pc'[s] = "idle" /\ stmt'[s] = NoSql
  BY <1>1 DEF Done, Goto, CallTypes
<1>4. \A t \in Session : t # s => pc'[t] = pc[t] /\ stmt'[t] = stmt[t] /\ ager'[t] = ager[t]
  BY <1>1 DEF Done, Goto, CallTypes
<1> QED BY <1>1, <1>2, <1>3, <1>4 DEF Statements

LEMMA FixCalls ==
  ASSUME CacheInv, NEW s \in Session, (\E q \in Sql : FixSql(s, q)) \/ Fix(s)
  PROVE  CallTypes' /\ Statements'
<1>1. CallTypes /\ Statements /\ ager' = ager
  BY DEF CacheInv, PlanInv, TypeOK, Statements, FixSql, Fix, FlangeFetchNext, AddFixedSql,
         DiscardSql, UnfixSql, RemoveFixedSql, callVars
<1>2. CASE \E q \in Sql : FixSql(s, q)
  <2>1. PICK q \in Sql : FixSql(s, q)
    BY <1>2
  <2>2. PICK h \in Flange \cup {NoFlange} : handle' = [handle EXCEPT ![s] = h]
    <3>1. Found(q) \subseteq Flange
      BY DEF Found, CacheInv, PlanInv, TypeOK, CacheTypes
    <3>2. handle = [handle EXCEPT ![s] = handle[s]] /\ handle[s] \in Flange \cup {NoFlange}
      BY <1>1 DEF CallTypes
    <3> QED BY <2>1, <3>1, <3>2 DEF FixSql
  <2>3. PICK p \in {"fixing", "compile"} : pc' = [pc EXCEPT ![s] = p]
    BY <2>1 DEF FixSql, Goto
  <2>4. stmt' = [stmt EXCEPT ![s] = q] /\ UNCHANGED <<found, fixed, text, tries>>
    BY <2>1 DEF FixSql
  <2>5. CallTypes'
    BY <1>1, <2>2, <2>3, <2>4 DEF CallTypes
  <2>6. Statements'
    BY <1>1, <2>3, <2>4 DEF CallTypes, Statements
  <2> QED BY <2>5, <2>6
<1>3. CASE FlangeFetchNext(s)
  BY <1>1, <1>3 DEF FlangeFetchNext, Goto, CallTypes, Statements
<1>4. CASE AddFixedSql(s)
  BY <1>1, <1>4 DEF AddFixedSql, Goto, CallTypes, Statements
<1>5. CASE DiscardSql(s)
  BY <1>1, <1>5 DEF DiscardSql, Goto, CallTypes, Statements, callVars
<1>6. CASE UnfixSql(s)
  BY <1>1, <1>6 DEF UnfixSql, Goto, CallTypes, Statements, callVars
<1>7. CASE RemoveFixedSql(s)
  <2>1. fixed' = [fixed EXCEPT ![s] = NoFlange] /\ found' = found
    BY <1>7 DEF RemoveFixedSql
  <2>2. CASE Done(s)
    BY <1>1, <2>1, <2>2, DoneCalls
  <2>3. CASE /\ stmt[s] # NoSql /\ Goto(s, "compile") /\ handle' = [handle EXCEPT ![s] = NoFlange]
             /\ UNCHANGED <<stmt, text, tries>>
    BY <1>1, <2>1, <2>3 DEF Goto, CallTypes, Statements
  <2> QED BY <1>7, <2>2, <2>3 DEF RemoveFixedSql
<1> QED BY <1>2, <1>3, <1>4, <1>5, <1>6, <1>7 DEF Fix

LEMMA AgeCalls ==
  ASSUME CacheInv, NEW s \in Session, Age(s)
  PROVE  CallTypes' /\ Statements'
<1>1. CallTypes /\ Statements /\ DOMAIN ager = Session /\ ager \in [Session -> AgerType]
  BY DEF CacheInv, PlanInv, TypeOK, Statements, ClockTypes, AgerType
<1>2. CASE AgeForMemory(s)
  BY <1>1, <1>2 DEF AgeForMemory, BeginAging, Goto, CallTypes, Statements
<1>3. CASE CleanupPlans(s)
  <2>1. PICK c \in Clock : BeginAging(s, c, "idle", 0, BlockSize * MaxBlocks)
    BY <1>3 DEF CleanupPlans
  <2>2. pc' = [pc EXCEPT ![s] = "age"] /\ UNCHANGED <<stmt, handle, found, fixed, text, tries>>
    BY <1>3, <2>1 DEF CleanupPlans, BeginAging, Goto
  <2>3. ager'[s].for = "idle" /\ \A t \in Session : t # s => ager'[t] = ager[t]
    BY <1>1, <2>1 DEF BeginAging
  <2>4. CallTypes'
    BY <1>1, <2>2 DEF CallTypes
  <2>5. Statements'
    BY <1>1, <2>2, <2>3 DEF CallTypes, Statements
  <2> QED BY <2>4, <2>5
<1>4. CASE AgeFlange(s) \/ NextBlock(s)
  <2>1. UNCHANGED <<pc, stmt, handle, found, fixed, text, tries>>
    BY <1>4 DEF AgeFlange, NextBlock
  <2>2. \A t \in Session : t # s => ager'[t] = ager[t]
    BY <1>1, <1>4 DEF AgeFlange, NextBlock, Advance
  <2>3. ager'[s].for = ager[s].for
    <3>1. CASE AgeFlange(s)
      BY <1>1, <3>1 DEF AgeFlange, Advance, AgerType
    <3>2. CASE NextBlock(s)
      <4> DEFINE b == After(ager[s].clock, ager[s].block)
      <4>1. \/ ager' = [ager EXCEPT ![s].block = b, ![s].slot = 1]
            \/ ager' = [ager EXCEPT ![s].block = b, ![s].slot = 1, ![s].age = @ - 1]
        BY <3>2 DEF NextBlock
      <4> HIDE DEF b
      <4> QED BY <1>1, <4>1 DEF AgerType
    <3> QED BY <1>4, <3>1, <3>2
  <2> QED BY <1>1, <2>1, <2>2, <2>3 DEF CallTypes, Statements
<1>5. CASE EndAging(s)
  <2>1. ager' = [ager EXCEPT ![s] = NoAger] /\ UNCHANGED <<found, fixed>> /\ pc[s] = "age"
    BY <1>5 DEF EndAging
  <2>2. CASE Done(s)
    BY <2>1, <2>2, DoneCalls
  <2>3. CASE ~Done(s)
    <3>1. PICK p \in {"find", "giveUp", "compile"} : pc' = [pc EXCEPT ![s] = p]
      BY <1>5, <2>3 DEF EndAging, Goto
    <3>2. stmt' = stmt /\ handle' = handle /\ ager[s].for \in {"find", "compile"}
      BY <1>5, <2>3 DEF EndAging
    <3>3. text' \in [Session -> {"none", "held", "freed", "freed again"}] /\ tries' \in [Session -> Nat]
      <4>1. text' = text \/ text' = [text EXCEPT ![s] = "freed"]
        BY <1>5, <2>3 DEF EndAging
      <4>2. tries' = tries \/ tries' = [tries EXCEPT ![s] = @ + 1]
        BY <1>5, <2>3 DEF EndAging
      <4>3. tries \in [Session -> Nat]
        BY <1>1 DEF CallTypes
      <4>4. tries' \in [Session -> Nat]
        BY <4>2, <4>3
      <4> QED BY <1>1, <4>1, <4>4 DEF CallTypes
    <3>4. CallTypes'
      BY <1>1, <2>1, <3>1, <3>2, <3>3 DEF CallTypes
    <3>5. Statements'
      BY <1>1, <2>1, <3>1, <3>2 DEF CallTypes, Statements
    <3> QED BY <3>4, <3>5
  <2> QED BY <2>2, <2>3
<1> QED BY <1>2, <1>3, <1>4, <1>5 DEF Age

LEMMA AllocCalls ==
  ASSUME CacheInv, NEW s \in Session, Alloc(s)
  PROVE  CallTypes' /\ Statements'
<1>1. CallTypes /\ Statements /\ DOMAIN ager = Session
  BY DEF CacheInv, PlanInv, TypeOK, Statements, ClockTypes
<1>2. CASE Compile(s)
  <2>1. CASE Done(s)
    BY <1>2, <2>1, DoneCalls DEF Compile
  <2>2. CASE Goto(s, "find") /\ text' = [text EXCEPT ![s] = "held"] /\ UNCHANGED <<stmt, handle, tries>>
    BY <1>1, <1>2, <2>2 DEF Compile, Goto, CallTypes, Statements
  <2> QED BY <1>2, <2>1, <2>2 DEF Compile
<1>3. CASE FindEmpty(s)
  <2>1. \A x \in Empties(ClockOf[s]) : FlangeAt(ClockOf[s], x) \in Flange
    <3> SUFFICES ASSUME NEW x \in Empties(ClockOf[s]) PROVE FlangeAt(ClockOf[s], x) \in Flange
      OBVIOUS
    <3>1. ClockTypes /\ ClockOf[s] \in Clock
      BY PlanCacheAssumption DEF CacheInv, PlanInv, TypeOK
    <3>2. x[1] \in Nat /\ x[2] \in 1 .. BlockSize
      BY <3>1, BlockInRing DEF Empties
    <3>3. BlockAt(ClockOf[s], x[1]) \in 1 .. MaxBlocks
      BY <3>1, <3>2, BlockInRing, RingBlocks
    <3> QED BY <3>1, <3>2, <3>3 DEF FlangeAt, Flange
  <2>2. handle' \in [Session -> Flange \cup {NoFlange}]
    <3>1. handle' = handle \/ \E x \in Empties(ClockOf[s]) : handle' = [handle EXCEPT ![s] = FlangeAt(ClockOf[s], x)]
      BY <1>3 DEF FindEmpty
    <3>2. handle' = handle \/ \E k \in Flange : handle' = [handle EXCEPT ![s] = k]
      BY <2>1, <3>1
    <3> QED BY <1>1, <3>2 DEF CallTypes
  <2>3. text' \in [Session -> {"none", "held", "freed", "freed again"}]
    BY <1>1, <1>3 DEF FindEmpty, CallTypes
  <2>4. PICK p \in {"insert", "extend"} : pc' = [pc EXCEPT ![s] = p]
    BY <1>3 DEF FindEmpty, Goto
  <2>5. CallTypes'
    BY <1>1, <1>3, <2>2, <2>3, <2>4 DEF FindEmpty, CallTypes
  <2>6. Statements'
    BY <1>1, <1>3 DEF FindEmpty, Goto, CallTypes, Statements
  <2> QED BY <2>5, <2>6
<1>4. CASE ExtendClock(s)
  <2>1. PICK p \in {"link", "age"} : pc' = [pc EXCEPT ![s] = p]
    BY <1>4 DEF ExtendClock, BeginAging, Goto
  <2>2. UNCHANGED <<stmt, handle, found, fixed, text, tries>> /\ pc[s] = "extend"
    BY <1>4 DEF ExtendClock
  <2>3. \A t \in Session : t # s => ager'[t] = ager[t]
    BY <1>1, <1>4 DEF ExtendClock, BeginAging
  <2>4. CallTypes'
    BY <1>1, <2>1, <2>2 DEF CallTypes
  <2>5. Statements'
    BY <1>1, <2>1, <2>2, <2>3 DEF CallTypes, Statements
  <2> QED BY <2>4, <2>5
<1>5. CASE LinkBlock(s)
  <2>1. PICK p \in {"find", "giveUp"} : pc' = [pc EXCEPT ![s] = p]
    BY <1>5 DEF LinkBlock, Goto
  <2>2. /\ UNCHANGED <<stmt, handle, found, fixed, text, ager>> /\ pc[s] = "link"
        /\ tries' = [tries EXCEPT ![s] = @ + 1]
    BY <1>5 DEF LinkBlock
  <2>3. tries' \in [Session -> Nat]
    <3>1. tries \in [Session -> Nat]
      BY <1>1 DEF CallTypes
    <3> QED BY <2>2, <3>1
  <2>4. CallTypes'
    BY <1>1, <2>1, <2>2, <2>3 DEF CallTypes
  <2>5. Statements'
    BY <1>1, <2>1, <2>2 DEF CallTypes, Statements
  <2> QED BY <2>4, <2>5
<1>6. CASE GiveUp(s)
  BY <1>1, <1>6 DEF GiveUp, Goto, CallTypes, Statements
<1>7. CASE GoOnWithout(s)
  BY <1>7, DoneCalls DEF GoOnWithout
<1> QED BY <1>2, <1>3, <1>4, <1>5, <1>6, <1>7 DEF Alloc

LEMMA CacheCalls ==
  ASSUME CacheInv, NEW s \in Session, Insert(s) \/ Join(s)
  PROVE  CallTypes' /\ Statements'
<1>1. CallTypes /\ Statements /\ linked \subseteq Flange
  BY DEF CacheInv, PlanInv, TypeOK, Statements, CacheTypes
<1>2. CASE Insert(s)
  <2>1. found' = found \/ \E f \in Flange : found' = [found EXCEPT ![s] = f]
    BY <1>1, <1>2 DEF Insert, Found
  <2>2. UNCHANGED <<stmt, handle, fixed, text, tries, ager>>
    BY <1>2 DEF Insert
  <2>3. PICK p \in {"fixing", "join"} : pc' = [pc EXCEPT ![s] = p]
    BY <1>2 DEF Insert, Goto
  <2>4. CallTypes'
    BY <1>1, <2>1, <2>2, <2>3 DEF CallTypes
  <2>5. Statements'
    BY <1>1, <2>2, <2>3 DEF CallTypes, Statements
  <2> QED BY <2>4, <2>5
<1>3. CASE Join(s)
  <2>1. CASE Done(s)
    BY <1>3, <2>1, DoneCalls DEF Join
  <2>2. CASE ~Done(s)
    <3>1. PICK f \in Flange : handle' = [handle EXCEPT ![s] = f]
      BY <1>1, <1>3, <2>2 DEF Join, CacheInv, PlanInv, FoundStays
    <3>2. /\ pc' = [pc EXCEPT ![s] = "fixing"] /\ UNCHANGED <<stmt, fixed, text, tries, ager>>
          /\ found' = [found EXCEPT ![s] = NoFlange]
      BY <1>3, <2>2 DEF Join, Goto
    <3>3. CallTypes'
      BY <1>1, <3>1, <3>2 DEF CallTypes
    <3>4. Statements'
      BY <1>1, <3>2 DEF CallTypes, Statements
    <3> QED BY <3>3, <3>4
  <2> QED BY <2>1, <2>2
<1> QED BY <1>2, <1>3

-----------------------------------------------------------------------------
(* What knlCacheSql has found: nobody else frees or drops it under the latch of its bucket. *)

\* Neither what the hash finds nor what is still to be linked changes.
SameTexts ==
  \A f \in Flange : /\ flange'[f].sql = flange[f].sql
                    /\ flange'[f].findable = flange[f].findable
                    /\ flange'[f].dropped = flange[f].dropped

LEMMA InsertHandle ==
  ASSUME CacheInv, NEW s \in Session, pc[s] = "insert"
  PROVE  /\ handle[s] \in Flange /\ handle[s] \notin linked
         /\ flange[handle[s]].sql = stmt[s] /\ flange[handle[s]].plans = {} /\ flange[handle[s]].ref = 1
BY DEF CacheInv, PlanInv, FlangesSound, NewFlange, Using

LEMMA LinkedFlange ==
  ASSUME CacheInv, NEW f \in linked
  PROVE  f \in Flange /\ flange[f].sql # NoSql
BY DEF CacheInv, PlanInv, TypeOK, CacheTypes, FlangesSound

LEMMA SameFlange == ASSUME UNCHANGED flange PROVE SameTexts
BY DEF SameTexts

\* A store into the other fields of a flange.
LEMMA SameStore ==
  ASSUME CacheInv, NEW k, NEW n,
         \/ flange' = [flange EXCEPT ![k].ref = n]
         \/ flange' = [flange EXCEPT ![k].age = n]
         \/ flange' = [flange EXCEPT ![k].ref = n, ![k].age = 0]
         \/ flange' = [flange EXCEPT ![k].plans = n]
  PROVE  SameTexts
<1>1. flange \in [Flange -> FlangeType]
  BY DEF CacheInv, PlanInv, TypeOK, CacheTypes, FlangeType
<1>2. CASE k \in Flange
  <2> DEFINE r == flange[k]
  <2>1. r \in FlangeType
    BY <1>1, <1>2
  <2>2. PICK x : /\ flange' = [flange EXCEPT ![k] = x]
                 /\ x.sql = r.sql /\ x.findable = r.findable /\ x.dropped = r.dropped
    <3>1. CASE flange' = [flange EXCEPT ![k].ref = n]
      <4> DEFINE x == [r EXCEPT !.ref = n]
      <4>1. x.sql = r.sql /\ x.findable = r.findable /\ x.dropped = r.dropped
        BY <2>1 DEF FlangeType
      <4>2. flange' = [flange EXCEPT ![k] = x]
        BY <1>1, <3>1
      <4> QED BY <4>1, <4>2
    <3>2. CASE flange' = [flange EXCEPT ![k].age = n]
      <4> DEFINE x == [r EXCEPT !.age = n]
      <4>1. x.sql = r.sql /\ x.findable = r.findable /\ x.dropped = r.dropped
        BY <2>1 DEF FlangeType
      <4>2. flange' = [flange EXCEPT ![k] = x]
        BY <1>1, <3>2
      <4> QED BY <4>1, <4>2
    <3>3. CASE flange' = [flange EXCEPT ![k].ref = n, ![k].age = 0]
      <4> DEFINE x == [r EXCEPT !.ref = n, !.age = 0]
      <4>1. x.sql = r.sql /\ x.findable = r.findable /\ x.dropped = r.dropped
        BY <2>1 DEF FlangeType
      <4>2. flange' = [flange EXCEPT ![k] = x]
        BY <1>1, <3>3
      <4> QED BY <4>1, <4>2
    <3>4. CASE flange' = [flange EXCEPT ![k].plans = n]
      <4> DEFINE x == [r EXCEPT !.plans = n]
      <4>1. x.sql = r.sql /\ x.findable = r.findable /\ x.dropped = r.dropped
        BY <2>1 DEF FlangeType
      <4>2. flange' = [flange EXCEPT ![k] = x]
        BY <1>1, <3>4
      <4> QED BY <4>1, <4>2
    <3> QED BY <3>1, <3>2, <3>3, <3>4
  <2> QED BY <1>1, <1>2, <2>2 DEF SameTexts
<1>3. CASE k \notin Flange
  BY <1>1, <1>3 DEF SameTexts
<1> QED BY <1>2, <1>3

\* The last store of knpcResetFlange can only hide a flange.
LEMMA JoinTexts ==
  ASSUME CacheInv, NEW s \in Session, Join(s)
  PROVE  \A g \in Flange :
           /\ flange'[g].sql = flange[g].sql
           /\ flange'[g].dropped = flange[g].dropped
           /\ flange'[g].findable => flange[g].findable
<1> DEFINE m == [flange EXCEPT ![handle[s]].findable = FALSE]
<1>2. flange \in [Flange -> FlangeType]
  BY DEF FlangeType, CacheInv, PlanInv, TypeOK, CacheTypes
<1>3. /\ m \in [Flange -> FlangeType]
      /\ \A g \in Flange : m[g].sql = flange[g].sql /\ m[g].dropped = flange[g].dropped
                           /\ (m[g].findable => flange[g].findable)
  <2>1. CASE handle[s] \in Flange
    BY <1>2, <2>1 DEF FlangeType
  <2>2. CASE handle[s] \notin Flange
    <3>1. m = flange
      BY <1>2, <2>2
    <3> QED BY <1>2, <3>1
  <2> QED BY <2>1, <2>2
<1>6. PICK f \in Flange : f = found[s]
  BY LinkedFlange DEF Join, CacheInv, PlanInv, FoundStays
<1>4. PICK x \in Plan :
        \/ flange' = [flange EXCEPT ![handle[s]].findable = FALSE,
                                    ![f].plans = @ \cup {x}, ![f].ref = @ + 1, ![f].age = 0]
        \/ flange' = m
  BY <1>6 DEF Join
<1>5. [flange EXCEPT ![handle[s]].findable = FALSE, ![f].plans = @ \cup {x}, ![f].ref = @ + 1, ![f].age = 0]
        = [m EXCEPT ![f].plans = @ \cup {x}, ![f].ref = @ + 1, ![f].age = 0]
  OBVIOUS
<1> HIDE DEF m
<1>7. \A g \in Flange : flange'[g].sql = m[g].sql /\ flange'[g].dropped = m[g].dropped
                        /\ flange'[g].findable = m[g].findable
  <2>1. CASE flange' = m
    BY <2>1
  <2>2. CASE flange' = [m EXCEPT ![f].plans = @ \cup {x}, ![f].ref = @ + 1, ![f].age = 0]
    <3>1. flange'[f] = [m[f] EXCEPT !.plans = @ \cup {x}, !.ref = @ + 1, !.age = 0]
      BY <1>3, <1>6, <2>2
    <3>2. \A g \in Flange : g # f => flange'[g] = m[g]
      BY <1>3, <1>6, <2>2
    <3> DEFINE r == m[f]
               n == flange'[f]
    <3>3. r \in FlangeType /\ n = [[[r EXCEPT !.plans = @ \cup {x}] EXCEPT !.ref = @ + 1] EXCEPT !.age = 0]
      BY <1>3, <1>6, <3>1
    <3> HIDE DEF r, n
    <3>4. n.sql = r.sql /\ n.dropped = r.dropped /\ n.findable = r.findable
      BY <3>3 DEF FlangeType
    <3> QED BY <3>2, <3>4 DEF n, r
  <2> QED BY <1>4, <1>5, <2>1, <2>2
<1> QED BY <1>3, <1>7

\* A step of a session that finds nothing, and changes or unlinks only what nobody has found.
LEMMA FoundKeep ==
  ASSUME CacheInv, NEW s \in Session, pc'[s] # "join",
         \A t \in Session \ {s} : pc'[t] = pc[t] /\ stmt'[t] = stmt[t] /\ found'[t] = found[t],
         \A f \in linked : Unlatched(flange[f].sql) \/ (f \in linked' /\ flange'[f].sql = flange[f].sql)
  PROVE  FoundStays'
<1> SUFFICES ASSUME NEW t \in Session, pc'[t] = "join"
             PROVE  found'[t] \in linked' /\ flange'[found'[t]].sql = stmt'[t]
  BY DEF FoundStays
<1>1. t # s /\ pc[t] = "join" /\ stmt'[t] = stmt[t] /\ found'[t] = found[t]
  OBVIOUS
<1>2. found[t] \in linked /\ flange[found[t]].sql = stmt[t]
  BY <1>1 DEF CacheInv, PlanInv, FoundStays
<1>3. ~Unlatched(flange[found[t]].sql)
  BY <1>1, <1>2 DEF Unlatched
<1> QED BY <1>1, <1>2, <1>3

LEMMA FoundQuiet ==
  ASSUME CacheInv, NEW s \in Session, pc'[s] # "join", SameTexts, linked' = linked,
         \A t \in Session \ {s} : pc'[t] = pc[t] /\ stmt'[t] = stmt[t] /\ found'[t] = found[t]
  PROVE  FoundStays'
BY LinkedFlange, FoundKeep DEF SameTexts

LEMMA FixFound ==
  ASSUME CacheInv, NEW s \in Session, (\E q \in Sql : FixSql(s, q)) \/ Fix(s)
  PROVE  FoundStays'
<1>1. /\ pc'[s] # "join"
      /\ \A t \in Session \ {s} : pc'[t] = pc[t] /\ stmt'[t] = stmt[t] /\ found'[t] = found[t]
  BY DEF FixSql, Fix, FlangeFetchNext, AddFixedSql, DiscardSql, UnfixSql, RemoveFixedSql, Done, Goto, callVars,
         CacheInv, PlanInv, TypeOK, CallTypes
<1>2. CASE (\E q \in Sql : FixSql(s, q)) \/ FlangeFetchNext(s) \/ UnfixSql(s)
  <2>1. SameTexts
    BY <1>2, SameStore, SameFlange DEF FixSql, FlangeFetchNext, UnfixSql
  <2>2. linked' = linked
    BY <1>2 DEF FixSql, FlangeFetchNext, UnfixSql
  <2> QED BY <1>1, <2>1, <2>2, FoundQuiet
<1>3. CASE AddFixedSql(s) \/ RemoveFixedSql(s)
  BY <1>1, <1>3, SameFlange, FoundQuiet DEF AddFixedSql, RemoveFixedSql, cacheVars
<1>4. CASE DiscardSql(s)
  <2>1. /\ Unlatched(flange[handle[s]].sql) /\ linked' = linked \ {handle[s]}
        /\ flange' = [flange EXCEPT ![handle[s]].dropped = TRUE]
    BY <1>4 DEF DiscardSql
  <2>2. \A f \in Flange \ {handle[s]} : flange'[f] = flange[f]
    BY <2>1 DEF CacheInv, PlanInv, TypeOK, CacheTypes
  <2> QED BY <1>1, <2>1, <2>2, LinkedFlange, FoundKeep
<1> QED BY <1>2, <1>3, <1>4 DEF Fix

LEMMA AgeFound ==
  ASSUME CacheInv, NEW s \in Session, Age(s)
  PROVE  FoundStays'
<1>1. CASE AgeForMemory(s) \/ CleanupPlans(s) \/ NextBlock(s) \/ EndAging(s)
  <2>1. SameTexts /\ linked' = linked
    BY <1>1, SameFlange DEF AgeForMemory, CleanupPlans, NextBlock, EndAging, cacheVars
  <2>2. /\ pc'[s] # "join"
        /\ \A t \in Session \ {s} : pc'[t] = pc[t] /\ stmt'[t] = stmt[t] /\ found'[t] = found[t]
    <3>1. CASE AgeForMemory(s) \/ CleanupPlans(s)
      BY <3>1 DEF AgeForMemory, CleanupPlans, BeginAging, Goto, CacheInv, PlanInv, TypeOK, CallTypes
    <3>2. CASE NextBlock(s)
      BY <3>2 DEF NextBlock
    <3>3. CASE EndAging(s)
      BY <3>3 DEF EndAging, Done, Goto, CacheInv, PlanInv, TypeOK, CallTypes
    <3> QED BY <1>1, <3>1, <3>2, <3>3
  <2> QED BY <2>1, <2>2, FoundQuiet
<1>2. CASE AgeFlange(s)
  <2> DEFINE f == <<ager[s].clock, ager[s].block, ager[s].slot>>
  <2>1. pc[s] = "age" /\ UNCHANGED <<pc, stmt, found>>
    BY <1>2 DEF AgeFlange
  <2>2. \/ /\ Unlatched(flange[f].sql)
           /\ linked' = linked \ {f} /\ flange' = [flange EXCEPT ![f] = EmptyFlange]
        \/ (\E n : flange' = [flange EXCEPT ![f].age = n]) /\ linked' = linked
        \/ UNCHANGED <<flange, linked>>
    BY <1>2 DEF AgeFlange, cacheVars
  <2> HIDE DEF f
  <2>3. CASE /\ Unlatched(flange[f].sql)
             /\ linked' = linked \ {f} /\ flange' = [flange EXCEPT ![f] = EmptyFlange]
    <3>1. \A g \in Flange \ {f} : flange'[g] = flange[g]
      BY <2>3 DEF CacheInv, PlanInv, TypeOK, CacheTypes
    <3> QED BY <2>1, <2>3, <3>1, LinkedFlange, FoundKeep
  <2>4. CASE (\E n : flange' = [flange EXCEPT ![f].age = n]) /\ linked' = linked
    BY <2>1, <2>4, SameStore, FoundQuiet
  <2>5. CASE UNCHANGED <<flange, linked>>
    BY <2>1, <2>5, SameFlange, FoundQuiet
  <2> QED BY <2>2, <2>3, <2>4, <2>5
<1> QED BY <1>1, <1>2 DEF Age

LEMMA AllocFound ==
  ASSUME CacheInv, NEW s \in Session, Alloc(s)
  PROVE  FoundStays'
<1>1. /\ pc'[s] # "join" /\ linked' = linked
      /\ \A t \in Session \ {s} : pc'[t] = pc[t] /\ stmt'[t] = stmt[t] /\ found'[t] = found[t]
  <2>1. CASE Compile(s) \/ FindEmpty(s) \/ GoOnWithout(s)
    BY <2>1 DEF Compile, FindEmpty, GoOnWithout, Done, Goto, cacheVars, CacheInv, PlanInv, TypeOK, CallTypes
  <2>2. CASE ExtendClock(s) \/ LinkBlock(s) \/ GiveUp(s)
    BY <2>2 DEF ExtendClock, BeginAging, LinkBlock, GiveUp, Goto, cacheVars, CacheInv, PlanInv, TypeOK, CallTypes
  <2> QED BY <2>1, <2>2 DEF Alloc
<1>2. CASE Compile(s) \/ ExtendClock(s) \/ LinkBlock(s) \/ GiveUp(s) \/ GoOnWithout(s)
  BY <1>1, <1>2, SameFlange, FoundQuiet DEF Compile, ExtendClock, LinkBlock, GiveUp, GoOnWithout, cacheVars
<1>3. CASE FindEmpty(s)
  <2>1. flange' = flange \/ \E k, n : flange[k].sql = NoSql /\ flange' = [flange EXCEPT ![k] = n]
    <3>1. CASE UNCHANGED flange
      BY <3>1
    <3>2. ASSUME NEW p \in Empties(ClockOf[s]), NEW n, flange' = [flange EXCEPT ![FlangeAt(ClockOf[s], p)] = n]
          PROVE  \E k, x : flange[k].sql = NoSql /\ flange' = [flange EXCEPT ![k] = x]
      BY <3>2 DEF Empties
    <3> QED BY <1>3, <3>1, <3>2 DEF FindEmpty
  <2>2. \A f \in linked : flange'[f] = flange[f]
    BY <2>1, LinkedFlange DEF CacheInv, PlanInv, TypeOK, CacheTypes
  <2> QED BY <1>1, <2>2, FoundKeep
<1> QED BY <1>2, <1>3 DEF Alloc

LEMMA InsertFound ==
  ASSUME CacheInv, NEW s \in Session, Insert(s)
  PROVE  FoundStays'
<1>1. pc[s] = "insert" /\ UNCHANGED stmt
  BY DEF Insert
<1>2. CallTypes /\ \A f \in linked : f \in Flange /\ f # handle[s]
  BY <1>1, InsertHandle, LinkedFlange DEF CacheInv, PlanInv, TypeOK
<1>3. CASE /\ \E p \in Plan : flange' = [flange EXCEPT ![handle[s]].plans = {p}]
           /\ linked' = linked \cup {handle[s]} /\ Goto(s, "fixing") /\ UNCHANGED found
  <2>1. SameTexts
    BY <1>3, SameStore
  <2>2. pc'[s] # "join" /\ \A t \in Session \ {s} : pc'[t] = pc[t]
    BY <1>2, <1>3 DEF Goto, CallTypes
  <2> QED BY <1>1, <1>2, <1>3, <2>1, <2>2, FoundKeep DEF SameTexts
<1>4. CASE /\ \E f \in Found(stmt[s]) : found' = [found EXCEPT ![s] = f]
           /\ flange' = [flange EXCEPT ![handle[s]] = EmptyFlange]
           /\ Goto(s, "join") /\ UNCHANGED linked
  <2>1. \A f \in linked : flange'[f] = flange[f]
    BY <1>2, <1>4 DEF CacheInv, PlanInv, TypeOK, CacheTypes
  <2>2. found'[s] \in linked /\ flange[found'[s]].sql = stmt[s]
    BY <1>2, <1>4 DEF CallTypes, Found, Match
  <2>3. ASSUME NEW t \in Session, t # s, pc'[t] = "join"
        PROVE  found'[t] \in linked /\ flange[found'[t]].sql = stmt[t]
    <3>1. pc[t] = "join" /\ found'[t] = found[t]
      BY <1>2, <1>4, <2>3 DEF CallTypes, Goto
    <3> QED BY <3>1 DEF CacheInv, PlanInv, FoundStays
  <2> QED BY <1>1, <1>4, <2>1, <2>2, <2>3 DEF FoundStays
<1> QED BY <1>3, <1>4 DEF Insert

LEMMA JoinFound ==
  ASSUME CacheInv, NEW s \in Session, Join(s)
  PROVE  FoundStays'
<1>1. /\ pc'[s] # "join" /\ linked' = linked
      /\ \A t \in Session \ {s} : pc'[t] = pc[t] /\ stmt'[t] = stmt[t] /\ found'[t] = found[t]
  BY DEF Join, Done, Goto, CacheInv, PlanInv, TypeOK, CallTypes
<1>2. \A f \in linked : flange'[f].sql = flange[f].sql
  <2>1. \A f \in Flange : flange'[f].sql = flange[f].sql
    BY JoinTexts
  <2> QED BY <2>1, LinkedFlange
<1> QED BY <1>1, <1>2, FoundKeep

LEMMA FoundStep ==
  ASSUME CacheInv, [Next]_vars
  PROVE  FoundStays'
<1>1. CASE UNCHANGED vars
  BY <1>1 DEF vars, cacheVars, callVars, CacheInv, PlanInv, FoundStays
<1> QED BY <1>1, FixFound, AgeFound, AllocFound, InsertFound, JoinFound DEF Next

-----------------------------------------------------------------------------
(* The inductive invariant *)

LEMMA CacheInvInit == Init => CacheInv
<1> SUFFICES ASSUME Init PROVE CacheInv
  OBVIOUS
<1>1. \A f \in Flange : flange[f] = EmptyFlange
  BY DEF Init
<1>2. CacheTypes
  <2>1. 0 \in 0 .. RefLimit - 1
    <3>1. Cardinality(Session) \in Nat /\ RefLimit \in Nat /\ Cardinality(Session) < RefLimit
      BY PlanCacheAssumption, FS_CardinalityType
    <3> QED BY <3>1
  <2> QED BY <2>1 DEF Init, CacheTypes, EmptyFlange
<1>3. CallTypes
  BY DEF Init, CallTypes
<1>4. ClockTypes
  <2>1. 1 \in 1 .. MaxBlocks /\ 1 \in 1 .. BlockSize + 1 /\ BlockSize \in Nat
    BY PlanCacheAssumption
  <2>2. \A s \in Session : NoAger \in AgerType
    <3> SUFFICES ASSUME NEW s \in Session PROVE NoAger \in AgerType
      OBVIOUS
    <3>1. ClockOf[s] \in Clock
      BY PlanCacheAssumption
    <3>2. (CHOOSE x \in Clock : TRUE) \in Clock
      BY <3>1
    <3> QED BY <2>1, <3>2 DEF NoAger, AgerType
  <2>3. \A c \in Clock : ring[c] = <<1>> /\ free[c].block = 1 /\ hand[c] = 1 /\ 1 \in ToSet(ring[c])
    BY DEF Init, ToSet
  <2>4. \A s \in Session : pc[s] # "age"
    BY DEF Init
  <2> QED BY <2>1, <2>2, <2>3, <2>4 DEF Init, ClockTypes, AgerType
<1>5. \A f \in Flange : Users(f) = {}
  BY DEF Init, Users, Using
<1>6. RefCountExact
  BY <1>1, <1>5, FS_EmptySet DEF RefCountExact, EmptyFlange
<1>7. HandlesAreValid /\ FlangesSound
  BY <1>1 DEF Init, HandlesAreValid, FlangesSound, EmptyFlange, Using
<1>8. Statements
  BY DEF Init, Statements
<1>9. FoundStays
  BY DEF Init, FoundStays
<1> QED BY <1>2, <1>3, <1>4, <1>6, <1>7, <1>8, <1>9 DEF CacheInv, PlanInv, TypeOK, Statements

LEMMA CacheInvStep == CacheInv /\ [Next]_vars => CacheInv'
<1> SUFFICES ASSUME CacheInv, [Next]_vars PROVE CacheInv'
  OBVIOUS
<1>1. CallTypes' /\ Statements'
  <2>1. CASE UNCHANGED vars
    BY <2>1 DEF vars, callVars, CacheInv, PlanInv, TypeOK, CallTypes, Statements
  <2> QED BY <2>1, FixCalls, AgeCalls, AllocCalls, CacheCalls DEF Next
<1> QED BY <1>1, FlangeStep, ClockStep, FoundStep DEF CacheInv, PlanInv, TypeOK, FlangeInv, Statements

-----------------------------------------------------------------------------
\* The inductive invariant.
THEOREM CacheInvHolds == Spec => []CacheInv
<1> QED BY CacheInvInit, CacheInvStep, PTL DEF Spec

\* PlanInv for any number of sessions, texts and blocks: no flange of knpc is lost: it is
\* empty, in use, or has a plan and can be aged; the hands of a clock stay in its ring.
THEOREM NoFlangeIsLost == Spec => []PlanInv
<1>1. CacheInv => PlanInv
  BY DEF CacheInv
<1> QED BY <1>1, CacheInvHolds, PTL

\* RefCountExact for any number of sessions: knlFixSql, knlCacheSql, knlFlangeFetchNext and
\* knlUnfixSql keep mRefCount the number of the users, and it does not overflow.
THEOREM ReferencesAreExact == Spec => []RefCountExact
<1>1. CacheInv => RefCountExact
  BY DEF CacheInv
<1> QED BY <1>1, CacheInvHolds, PTL

\* HandlesAreValid for any number of sessions: knpcAgingClock and knlCacheSql free no flange
\* between knlFixSql and knlUnfixSql of a session.
THEOREM FixedPlansStay == Spec => []HandlesAreValid
<1>1. CacheInv => HandlesAreValid
  BY DEF CacheInv
<1> QED BY <1>1, CacheInvHolds, PTL

-----------------------------------------------------------------------------
(* One flange for each text.  A new flange was emptied, hence not dropped, and is linked *)
(* after a look at the hash, under the latch of the bucket.                              *)

OneInv == OneFlangePerSql /\ \A s \in Session : pc[s] = "insert" => ~flange[handle[s]].dropped

\* A step that links nothing and, of what stays linked and what is to be linked, changes
\* nothing but that a flange may not be found any more.
LEMMA OneKeep ==
  ASSUME CacheInv, OneInv, linked' \subseteq linked,
         \A f \in linked' : /\ flange'[f].sql = flange[f].sql
                            /\ flange'[f].findable => flange[f].findable
                            /\ flange'[f].dropped = flange[f].dropped,
         \A t \in Session : pc'[t] = "insert" => ~flange'[handle'[t]].dropped
  PROVE  OneInv'
BY DEF OneInv, OneFlangePerSql

\* A step of a session that does not come to insert a flange.
LEMMA OneQuiet ==
  ASSUME CacheInv, OneInv, NEW s \in Session, SameTexts, linked' \subseteq linked,
         \A t \in Session \ {s} : pc'[t] = pc[t] /\ handle'[t] = handle[t], pc'[s] # "insert"
  PROVE  OneInv'
<1>1. ASSUME NEW t \in Session, pc'[t] = "insert" PROVE ~flange'[handle'[t]].dropped
  <2>1. t # s /\ pc[t] = "insert" /\ handle'[t] = handle[t]
    BY <1>1
  <2>2. handle[t] \in Flange /\ ~flange[handle[t]].dropped
    BY <2>1, InsertHandle DEF OneInv
  <2> QED BY <2>1, <2>2 DEF SameTexts
<1> QED BY <1>1, LinkedFlange, OneKeep DEF SameTexts

LEMMA FixOne ==
  ASSUME CacheInv, OneInv, NEW s \in Session, \/ \E q \in Sql : FixSql(s, q)
                                              \/ FlangeFetchNext(s) \/ UnfixSql(s)
  PROVE  OneInv'
<1>1. SameTexts
  BY SameStore, SameFlange DEF FixSql, FlangeFetchNext, UnfixSql
<1>2. /\ linked' = linked /\ pc'[s] # "insert"
      /\ \A t \in Session \ {s} : pc'[t] = pc[t] /\ handle'[t] = handle[t]
  BY DEF FixSql, FlangeFetchNext, UnfixSql, Goto, callVars, CacheInv, PlanInv, TypeOK, CallTypes
<1> QED BY <1>1, <1>2, OneQuiet

LEMMA FixedOne ==
  ASSUME CacheInv, OneInv, NEW s \in Session, AddFixedSql(s) \/ RemoveFixedSql(s)
  PROVE  OneInv'
<1>1. SameTexts
  BY SameFlange DEF AddFixedSql, RemoveFixedSql, cacheVars
<1>2. /\ linked' = linked /\ pc'[s] # "insert"
      /\ \A t \in Session \ {s} : pc'[t] = pc[t] /\ handle'[t] = handle[t]
  BY DEF AddFixedSql, RemoveFixedSql, Done, Goto, cacheVars, CacheInv, PlanInv, TypeOK, CallTypes
<1> QED BY <1>1, <1>2, OneQuiet

\* What is dropped leaves the hash in the same step, and is not what another is to link.
LEMMA DiscardOne ==
  ASSUME CacheInv, OneInv, NEW s \in Session, DiscardSql(s)
  PROVE  OneInv'
<1> DEFINE k == handle[s]
<1>1. /\ pc[s] = "fixed" /\ flange' = [flange EXCEPT ![k].dropped = TRUE] /\ linked' = linked \ {k}
      /\ pc' = [pc EXCEPT ![s] = "giveBack"] /\ handle' = handle
  BY DEF DiscardSql, Goto, callVars
<1>2. k \in Flange /\ flange[k].plans # {} /\ flange \in [Flange -> FlangeType]
  BY <1>1 DEF CacheInv, PlanInv, TypeOK, CacheTypes, FlangeType, FlangesSound, HandlesAreValid, Using
<1>3. \A f \in Flange \ {k} : flange'[f] = flange[f]
  BY <1>1, <1>2
<1>4. ASSUME NEW t \in Session, pc'[t] = "insert" PROVE ~flange'[handle'[t]].dropped
  <2>1. pc[t] = "insert" /\ handle'[t] = handle[t]
    BY <1>1, <1>4 DEF CacheInv, PlanInv, TypeOK, CallTypes
  <2>2. handle[t] \in Flange /\ handle[t] # k /\ ~flange[handle[t]].dropped
    BY <1>2, <2>1, InsertHandle DEF OneInv
  <2> QED BY <1>3, <2>1, <2>2
<1>5. linked' \subseteq linked /\ linked' \subseteq Flange \ {k}
  BY <1>1, LinkedFlange
<1> QED BY <1>3, <1>4, <1>5, OneKeep

LEMMA AgeOne ==
  ASSUME CacheInv, OneInv, NEW s \in Session, Age(s)
  PROVE  OneInv'
<1>1. CASE AgeForMemory(s) \/ CleanupPlans(s) \/ NextBlock(s) \/ EndAging(s)
  <2>1. SameTexts /\ linked' = linked
    BY <1>1, SameFlange DEF AgeForMemory, CleanupPlans, NextBlock, EndAging, cacheVars
  <2>2. pc'[s] # "insert" /\ \A t \in Session \ {s} : pc'[t] = pc[t] /\ handle'[t] = handle[t]
    <3>1. CASE AgeForMemory(s) \/ CleanupPlans(s)
      BY <3>1 DEF AgeForMemory, CleanupPlans, BeginAging, Goto, CacheInv, PlanInv, TypeOK, CallTypes
    <3>2. CASE NextBlock(s)
      BY <3>2 DEF NextBlock
    <3>3. CASE EndAging(s)
      BY <3>3 DEF EndAging, Done, Goto, CacheInv, PlanInv, TypeOK, CallTypes
    <3> QED BY <1>1, <3>1, <3>2, <3>3
  <2> QED BY <2>1, <2>2, OneQuiet
<1>2. CASE AgeFlange(s)
  <2> DEFINE f == <<ager[s].clock, ager[s].block, ager[s].slot>>
  <2>1. pc[s] = "age" /\ UNCHANGED <<pc, handle>>
    BY <1>2 DEF AgeFlange
  <2>2. \/ flange[f].ref = 0 /\ linked' = linked \ {f} /\ flange' = [flange EXCEPT ![f] = EmptyFlange]
        \/ (\E n : flange' = [flange EXCEPT ![f].age = n]) /\ linked' = linked
        \/ UNCHANGED <<flange, linked>>
    BY <1>2 DEF AgeFlange, Unused, cacheVars
  <2> HIDE DEF f
  <2>3. CASE flange[f].ref = 0 /\ linked' = linked \ {f} /\ flange' = [flange EXCEPT ![f] = EmptyFlange]
    <3>1. \A g \in Flange \ {f} : flange'[g] = flange[g]
      BY <2>3 DEF CacheInv, PlanInv, TypeOK, CacheTypes
    <3>2. ASSUME NEW t \in Session, pc'[t] = "insert" PROVE ~flange'[handle'[t]].dropped
      <4>1. pc[t] = "insert" /\ handle'[t] = handle[t]
        BY <2>1, <3>2
      <4>2. handle[t] \in Flange /\ handle[t] # f /\ ~flange[handle[t]].dropped
        BY <2>3, <4>1, InsertHandle DEF OneInv
      <4> QED BY <3>1, <4>1, <4>2
    <3>3. linked' \subseteq linked /\ linked' \subseteq Flange \ {f}
      BY <2>3, LinkedFlange
    <3> QED BY <3>1, <3>2, <3>3, OneKeep
  <2>4. CASE (\E n : flange' = [flange EXCEPT ![f].age = n]) /\ linked' = linked
    BY <2>1, <2>4, SameStore, OneQuiet
  <2>5. CASE UNCHANGED <<flange, linked>>
    BY <2>1, <2>5, SameFlange, OneQuiet
  <2> QED BY <2>2, <2>3, <2>4, <2>5
<1> QED BY <1>1, <1>2 DEF Age

\* The flange that is taken was empty, so the hash does not hold it.
LEMMA AllocOne ==
  ASSUME CacheInv, CacheInv', OneInv, NEW s \in Session, Alloc(s)
  PROVE  OneInv'
<1>1. CASE Compile(s) \/ ExtendClock(s) \/ LinkBlock(s) \/ GiveUp(s) \/ GoOnWithout(s)
  <2>1. SameTexts /\ linked' = linked
    BY <1>1, SameFlange DEF Compile, ExtendClock, LinkBlock, GiveUp, GoOnWithout, cacheVars
  <2>2. pc'[s] # "insert" /\ \A t \in Session \ {s} : pc'[t] = pc[t] /\ handle'[t] = handle[t]
    <3>1. CASE Compile(s) \/ GoOnWithout(s)
      BY <3>1 DEF Compile, GoOnWithout, Done, Goto, CacheInv, PlanInv, TypeOK, CallTypes
    <3>2. CASE ExtendClock(s) \/ LinkBlock(s) \/ GiveUp(s)
      BY <3>2 DEF ExtendClock, BeginAging, LinkBlock, GiveUp, Goto, CacheInv, PlanInv, TypeOK, CallTypes
    <3> QED BY <1>1, <3>1, <3>2
  <2> QED BY <2>1, <2>2, OneQuiet
<1>2. CASE FindEmpty(s)
  <2> DEFINE c == ClockOf[s]
  <2>1. pc[s] = "find" /\ linked' = linked
    BY <1>2 DEF FindEmpty
  <2>2. CASE UNCHANGED <<flange, handle>> /\ Goto(s, "extend")
    BY <2>1, <2>2, SameFlange, OneQuiet DEF Goto, CacheInv, PlanInv, TypeOK, CallTypes
  <2>3. ASSUME NEW p \in Empties(c),
               flange' = [flange EXCEPT ![FlangeAt(c, p)] =
                 [EmptyFlange EXCEPT !.sql = stmt[s], !.ref = 1, !.findable = TRUE]],
               handle' = [handle EXCEPT ![s] = FlangeAt(c, p)], Goto(s, "insert")
        PROVE  OneInv'
    <3>1. PICK k : k = FlangeAt(c, p)
      OBVIOUS
    <3>2. flange[k].sql = NoSql
      BY <3>1 DEF Empties
    <3>3. /\ handle'[s] = k /\ pc'[s] = "insert"
          /\ \A t \in Session \ {s} : pc'[t] = pc[t] /\ handle'[t] = handle[t]
      BY <2>3, <3>1 DEF Goto, CacheInv, PlanInv, TypeOK, CallTypes
    <3>4. k \in Flange
      BY <3>3, InsertHandle DEF CacheInv, PlanInv, FlangesSound, Using
    <3>5. ~flange'[k].dropped /\ \A f \in Flange \ {k} : flange'[f] = flange[f]
      BY <2>3, <3>1, <3>4 DEF EmptyFlange, CacheInv, PlanInv, TypeOK, CacheTypes
    <3>6. ASSUME NEW t \in Session, pc'[t] = "insert" PROVE ~flange'[handle'[t]].dropped
      <4>1. CASE t = s
        BY <3>3, <3>5, <4>1
      <4>2. CASE t # s
        <5>1. pc[t] = "insert" /\ handle'[t] = handle[t]
          BY <3>3, <3>6, <4>2
        <5>2. handle[t] \in Flange /\ ~flange[handle[t]].dropped
          BY <5>1, InsertHandle DEF OneInv
        <5> QED BY <3>5, <5>1, <5>2
      <4> QED BY <4>1, <4>2
    <3>7. linked' \subseteq linked /\ linked' \subseteq Flange \ {k}
      BY <2>1, <3>2, LinkedFlange
    <3> QED BY <3>5, <3>6, <3>7, OneKeep
  <2> QED BY <1>2, <2>2, <2>3 DEF FindEmpty
<1> QED BY <1>1, <1>2 DEF Alloc

\* A text is linked when the hash does not find it.
LEMMA InsertOne ==
  ASSUME CacheInv, OneInv, NEW s \in Session, Insert(s)
  PROVE  OneInv'
<1>1. /\ pc[s] = "insert" /\ handle' = handle /\ flange \in [Flange -> FlangeType]
      /\ pc \in [Session -> {"idle", "fixing", "fixed", "giveBack", "unfixed", "compile", "find", "extend",
                             "link", "age", "giveUp", "without", "insert", "join", "dead"}]
  <2>1. pc[s] = "insert" /\ handle' = handle
    BY DEF Insert, callVars
  <2>2. CacheTypes /\ CallTypes
    BY DEF CacheInv, PlanInv, TypeOK
  <2>3. flange \in [Flange -> FlangeType]
    BY <2>2 DEF CacheTypes, FlangeType
  <2> QED BY <2>1, <2>2, <2>3 DEF CallTypes
<1>2. PICK k \in Flange : k = handle[s] /\ k \notin linked /\ flange[k].sql = stmt[s] /\ ~flange[k].dropped
  BY <1>1, InsertHandle DEF OneInv
<1>3. CASE /\ Found(stmt[s]) = {}
           /\ \E p \in Plan : flange' = [flange EXCEPT ![handle[s]].plans = {p}]
           /\ linked' = linked \cup {handle[s]} /\ Goto(s, "fixing")
  <2>1. SameTexts
    BY <1>3, SameStore
  <2>2. ASSUME NEW f \in linked PROVE ~(flange[f].sql = stmt[s] /\ flange[f].findable)
    BY <1>3, <2>2 DEF Found, Match, OneInv, OneFlangePerSql
  <2>3. \A f \in linked' : f \in Flange /\ ~flange'[f].dropped
    BY <1>2, <1>3, <2>1, LinkedFlange DEF SameTexts, OneInv, OneFlangePerSql
  <2>4. ASSUME NEW f \in linked', NEW g \in linked', flange'[f].sql = flange'[g].sql,
               flange'[f].findable, flange'[g].findable
        PROVE  f = g
    <3>1. flange[f].sql = flange[g].sql /\ flange[f].findable /\ flange[g].findable
      BY <2>1, <2>3, <2>4 DEF SameTexts
    <3> QED BY <1>2, <1>3, <2>2, <2>4, <3>1 DEF OneInv, OneFlangePerSql
  <2>5. ASSUME NEW t \in Session, pc'[t] = "insert" PROVE ~flange'[handle'[t]].dropped
    <3>1. pc[t] = "insert" /\ handle'[t] = handle[t]
      BY <1>1, <1>3, <2>5 DEF Goto
    <3> QED BY <2>1, <3>1, InsertHandle DEF SameTexts, OneInv
  <2> QED BY <2>3, <2>4, <2>5 DEF OneInv, OneFlangePerSql
<1>4. CASE flange' = [flange EXCEPT ![handle[s]] = EmptyFlange] /\ Goto(s, "join") /\ linked' = linked
  <2>1. (\A f \in Flange \ {k} : flange'[f] = flange[f]) /\ ~flange'[k].dropped
    BY <1>1, <1>2, <1>4 DEF EmptyFlange
  <2>2. ASSUME NEW t \in Session, pc'[t] = "insert" PROVE ~flange'[handle'[t]].dropped
    <3>1. pc[t] = "insert" /\ handle'[t] = handle[t]
      BY <1>1, <1>4, <2>2 DEF Goto
    <3>2. handle[t] \in Flange /\ ~flange[handle[t]].dropped
      BY <3>1, InsertHandle DEF OneInv
    <3> QED BY <2>1, <3>1, <3>2
  <2>3. linked' \subseteq linked /\ linked' \subseteq Flange \ {k}
    BY <1>2, <1>4, LinkedFlange
  <2> QED BY <2>1, <2>2, <2>3, OneKeep
<1> QED BY <1>3, <1>4 DEF Insert

LEMMA JoinOne ==
  ASSUME CacheInv, OneInv, NEW s \in Session, Join(s)
  PROVE  OneInv'
<1>1. /\ linked' = linked /\ pc'[s] # "insert"
      /\ \A t \in Session \ {s} : pc'[t] = pc[t] /\ handle'[t] = handle[t]
  BY DEF Join, Done, Goto, CacheInv, PlanInv, TypeOK, CallTypes
<1>2. \A f \in Flange :
        /\ flange'[f].sql = flange[f].sql
        /\ flange'[f].dropped = flange[f].dropped
        /\ flange'[f].findable => flange[f].findable
  BY JoinTexts
<1>3. ASSUME NEW t \in Session, pc'[t] = "insert" PROVE ~flange'[handle'[t]].dropped
  <2>1. pc[t] = "insert" /\ handle'[t] = handle[t]
    BY <1>1, <1>3
  <2> QED BY <1>2, <2>1, InsertHandle DEF OneInv
<1> QED BY <1>1, <1>2, <1>3, LinkedFlange, OneKeep

LEMMA OneStep == CacheInv /\ OneInv /\ [Next]_vars => OneInv'
<1> SUFFICES ASSUME CacheInv, OneInv, [Next]_vars PROVE OneInv'
  OBVIOUS
<1>1. CacheInv'
  BY CacheInvStep
<1>2. CASE UNCHANGED vars
  <2>1. flange' = flange /\ linked' = linked /\ pc' = pc /\ handle' = handle
    BY <1>2 DEF vars, cacheVars, callVars
  <2> QED BY <2>1 DEF OneInv, OneFlangePerSql
<1>3. ASSUME NEW s \in Session, (\E q \in Sql : FixSql(s, q)) \/ Fix(s) PROVE OneInv'
  BY <1>3, FixOne, FixedOne, DiscardOne DEF Fix
<1>4. ASSUME NEW s \in Session, Age(s) PROVE OneInv'
  BY <1>4, AgeOne
<1>5. ASSUME NEW s \in Session, Alloc(s) PROVE OneInv'
  BY <1>1, <1>5, AllocOne
<1>6. ASSUME NEW s \in Session, Insert(s) PROVE OneInv'
  BY <1>6, InsertOne
<1>7. ASSUME NEW s \in Session, Join(s) PROVE OneInv'
  BY <1>7, JoinOne
<1> QED BY <1>2, <1>3, <1>4, <1>5, <1>6, <1>7 DEF Next

\* OneFlangePerSql for any number of sessions: two sessions that compile the same text at
\* once cache it once, because knlCacheSql looks again under the latch of the bucket
\* before it links its flange; and what is dropped is not in the hash.
THEOREM TextsAreCachedOnce == Spec => []OneFlangePerSql
<1>1. Init => OneInv
  BY DEF Init, OneInv, OneFlangePerSql
<1>2. OneInv => OneFlangePerSql
  BY DEF OneInv
<1>3. Spec => []OneInv
  BY <1>1, CacheInvInit, CacheInvStep, OneStep, PTL DEF Spec
<1> QED BY <1>2, <1>3, PTL
====
