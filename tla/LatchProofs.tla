----------------------------- MODULE LatchProofs -----------------------------
(***************************************************************************)
(* Latch for any number of threads and calls: its types, that it is a      *)
(* readers-writer lock, and that no wake-up is lost or left over.          *)
(***************************************************************************)
EXTENDS Latch, FiniteSetTheorems, SequenceTheorems, WellFoundedInduction, TLAPS

Holders == {t \in Thread : held[t] > 0}

\* What mCurMode and mRefCount say about who holds the latch, which is not recorded.
ModeInv ==
  /\ mode = "INIT" => refCount = 0 /\ exclOwner = NoOne /\ \A t \in Thread : held[t] = 0
  /\ mode = "S" => /\ refCount = Cardinality(Holders) /\ exclOwner = NoOne
                   /\ \A t \in Thread : held[t] \in {0, 1}
  /\ mode = "X" => \E t \in Thread :
                     /\ held[t] = refCount /\ refCount > 0 /\ exclOwner \in {t, NoOne}
                     /\ \A u \in Thread \ {t} : held[u] = 0

\* Who asks does not hold the latch, unless it is its known owner.
AskInv ==
  \A t \in Thread : pc[t] \in {"enter", "again", "asleep"} =>
    held[t] = 0 \/ (mode = "X" /\ exclOwner = t /\ ask[t].mode = "X" /\ pc[t] = "enter")

Distinct(s) == \A i, j \in 1 .. Len(s) : s[i] = s[j] => i = j

\* A thread is in a list at most once, and only while it waits there.
ListInv ==
  /\ Distinct(waiters)
  /\ \A t \in ToSet(waiters) : pc[t] \in {"asleep", "late"}
  /\ \A t \in sleepers : pc[t] \in {"cond", "condLate"}

LatchInv == TypeOK /\ ModeInv /\ AskInv /\ ListInv /\ SemaphoreExact

-----------------------------------------------------------------------------
(* The list of waiters *)

LEMMA Largest ==
  ASSUME NEW T \in SUBSET Nat, T # {}, NEW b \in Nat, \A x \in T : x <= b
  PROVE  \E n \in T : \A k \in T : k <= n
<1> DEFINE D == {b - x : x \in T}
<1>1. D \subseteq Nat /\ D # {}
  <2>1. ASSUME NEW d \in D PROVE d \in Nat
    <3>1. PICK x \in T : d = b - x
      OBVIOUS
    <3>2. x \in Nat /\ x <= b
      OBVIOUS
    <3> HIDE DEF D
    <3> QED BY <3>1, <3>2
  <2>2. PICK x \in T : TRUE
    OBVIOUS
  <2>3. b - x \in D
    OBVIOUS
  <2> QED BY <2>1, <2>3
<1>2. PICK d \in D : \A e \in D : ~(<<e, d>> \in OpToRel(<, Nat))
  <2> HIDE DEF D
  <2> QED BY <1>1, NatLessThanWellFounded, WFMin
<1>3. \A e \in D : ~(e < d)
  BY <1>1, <1>2 DEF OpToRel
<1>4. PICK n \in T : d = b - n
  BY <1>2
<1>5. ASSUME NEW k \in T PROVE k <= n
  <2>1. b - k \in D
    OBVIOUS
  <2>2. ~(b - k < b - n)
    BY <1>3, <1>4, <2>1
  <2> QED BY <2>2
<1> QED BY <1>4, <1>5

LEMMA Enlisted ==
  ASSUME NEW s \in Seq(Thread), Distinct(s), NEW t \in Thread, t \notin ToSet(s)
  PROVE  /\ Append(s, t) \in Seq(Thread) /\ Distinct(Append(s, t))
         /\ ToSet(Append(s, t)) = ToSet(s) \cup {t}
         /\ <<t>> \o s \in Seq(Thread) /\ Distinct(<<t>> \o s)
         /\ ToSet(<<t>> \o s) = ToSet(s) \cup {t}
<1>1. Len(s) \in Nat /\ DOMAIN s = 1 .. Len(s) /\ \A i \in 1 .. Len(s) : s[i] # t
  BY DEF ToSet
<1>2. /\ Append(s, t) \in Seq(Thread) /\ Len(Append(s, t)) = Len(s) + 1
      /\ \A i \in 1 .. Len(s) : Append(s, t)[i] = s[i]
      /\ Append(s, t)[Len(s) + 1] = t
  BY AppendProperties
<1>3. Distinct(Append(s, t))
  BY <1>1, <1>2 DEF Distinct
<1>4. ToSet(Append(s, t)) = ToSet(s) \cup {t}
  <2>1. DOMAIN Append(s, t) = 1 .. Len(s) + 1
    BY <1>2
  <2> QED BY <1>1, <1>2, <2>1 DEF ToSet
<1>5. /\ <<t>> \o s \in Seq(Thread) /\ Len(<<t>> \o s) = Len(s) + 1
      /\ (<<t>> \o s)[1] = t
      /\ \A i \in 1 .. Len(s) : (<<t>> \o s)[i + 1] = s[i]
  BY <1>1
<1> DEFINE r == <<t>> \o s
<1>6. DOMAIN r = 1 .. Len(s) + 1
  BY <1>5
<1>7. \A i \in 2 .. Len(s) + 1 : r[i] = s[i - 1]
  <2> TAKE i \in 2 .. Len(s) + 1
  <2>1. i - 1 \in 1 .. Len(s) /\ (i - 1) + 1 = i
    BY <1>1
  <2> HIDE DEF r
  <2> QED BY <1>5, <2>1 DEF r
<1> HIDE DEF r
<1>8. Len(r) = Len(s) + 1 /\ r[1] = t /\ \A i \in 1 .. Len(s) : r[i + 1] = s[i]
  BY <1>5 DEF r
<1>9. Distinct(r)
  <2> SUFFICES ASSUME NEW i \in 1 .. Len(s) + 1, NEW j \in 1 .. Len(s) + 1, r[i] = r[j]
               PROVE  i = j
    BY <1>8 DEF Distinct
  <2>1. CASE i = 1 /\ j # 1
    BY <1>1, <1>7, <1>8, <2>1
  <2>2. CASE i # 1 /\ j = 1
    BY <1>1, <1>7, <1>8, <2>2
  <2>3. CASE i # 1 /\ j # 1
    <3>1. i - 1 \in 1 .. Len(s) /\ j - 1 \in 1 .. Len(s) /\ s[i - 1] = s[j - 1]
      BY <1>1, <1>7, <2>3
    <3> QED BY <1>1, <3>1 DEF Distinct
  <2> QED BY <2>1, <2>2, <2>3
<1>10. ToSet(r) = ToSet(s) \cup {t}
  <2>1. ASSUME NEW x \in ToSet(r) PROVE x \in ToSet(s) \cup {t}
    <3>1. PICK i \in 1 .. Len(s) + 1 : x = r[i]
      BY <1>6, <2>1 DEF ToSet, r
    <3>2. CASE i = 1
      BY <1>8, <3>1, <3>2
    <3>3. CASE i # 1
      <4>1. i - 1 \in 1 .. Len(s) /\ x = s[i - 1]
        BY <1>1, <1>7, <3>1, <3>3
      <4> QED BY <1>1, <4>1 DEF ToSet
    <3> QED BY <3>2, <3>3
  <2>2. ASSUME NEW x \in ToSet(s) \cup {t} PROVE x \in ToSet(r)
    <3>1. CASE x = t
      BY <1>1, <1>6, <1>8, <3>1 DEF ToSet, r
    <3>2. CASE x \in ToSet(s)
      <4>1. PICK i \in 1 .. Len(s) : x = s[i]
        BY <1>1, <3>2 DEF ToSet
      <4>2. i + 1 \in 1 .. Len(s) + 1 /\ r[i + 1] = x
        BY <1>1, <1>8, <4>1
      <4> QED BY <1>6, <4>2 DEF ToSet, r
    <3> QED BY <3>1, <3>2
  <2> QED BY <2>1, <2>2
<1> QED BY <1>2, <1>3, <1>4, <1>5, <1>9, <1>10 DEF r

LEMMA Unlinked ==
  ASSUME NEW s \in Seq(Thread), Distinct(s), NEW i \in 1 .. Len(s)
  PROVE  /\ RemoveAt(s, i) \in Seq(Thread) /\ Distinct(RemoveAt(s, i))
         /\ ToSet(RemoveAt(s, i)) = ToSet(s) \ {s[i]}
<1> DEFINE a == SubSeq(s, 1, i - 1)
           z == SubSeq(s, i + 1, Len(s))
           r == RemoveAt(s, i)
<1>1. Len(s) \in Nat /\ DOMAIN s = 1 .. Len(s) /\ \A k \in 1 .. Len(s) : s[k] \in Thread
  OBVIOUS
<1>2. /\ a \in Seq(Thread) /\ Len(a) = i - 1
      /\ \A k \in 1 .. i - 1 : a[k] = s[k]
  <2>1. \A k \in 1 .. i - 1 : s[k] \in Thread
    BY <1>1
  <2>2. /\ a \in Seq(Thread) /\ Len(a) = IF 1 <= i - 1 THEN (i - 1) - 1 + 1 ELSE 0
        /\ \A k \in 1 .. (i - 1) - 1 + 1 : a[k] = s[1 + k - 1]
    BY <1>1, <2>1, SubSeqProperties
  <2> HIDE DEF a
  <2> QED BY <1>1, <2>2
<1>3. /\ z \in Seq(Thread) /\ Len(z) = Len(s) - i
      /\ \A k \in 1 .. Len(s) - i : z[k] = s[k + i]
  <2>1. \A k \in i + 1 .. Len(s) : s[k] \in Thread
    BY <1>1
  <2>2. /\ z \in Seq(Thread) /\ Len(z) = IF i + 1 <= Len(s) THEN Len(s) - (i + 1) + 1 ELSE 0
        /\ \A k \in 1 .. Len(s) - (i + 1) + 1 : z[k] = s[(i + 1) + k - 1]
    BY <1>1, <2>1, SubSeqProperties
  <2>3. /\ Len(s) - (i + 1) + 1 = Len(s) - i
        /\ \A k \in 1 .. Len(s) - i : (i + 1) + k - 1 = k + i
    <3>1. Len(s) \in Int /\ i \in Int
      BY <1>1
    <3> QED BY <3>1
  <2>4. Len(z) = Len(s) - i
    <3>1. Len(s) \in Int /\ i \in Int /\ i <= Len(s)
      BY <1>1
    <3>2. Len(z) = IF i + 1 <= Len(s) THEN Len(s) - (i + 1) + 1 ELSE 0
      BY <2>2
    <3> HIDE DEF z
    <3> QED BY <3>1, <3>2
  <2> HIDE DEF z
  <2> QED BY <2>2, <2>3, <2>4
<1>4. r = a \o z
  BY DEF RemoveAt
<1> HIDE DEF a, z, r
<1>5. /\ r \in Seq(Thread) /\ Len(r) = Len(s) - 1
      /\ \A k \in 1 .. Len(s) - 1 : r[k] = IF k < i THEN s[k] ELSE s[k + 1]
  <2>1. /\ r \in Seq(Thread) /\ Len(r) = Len(a) + Len(z)
        /\ \A k \in 1 .. Len(a) + Len(z) : r[k] = IF k <= Len(a) THEN a[k] ELSE z[k - Len(a)]
    BY <1>2, <1>3, <1>4, ConcatProperties
  <2>2. ASSUME NEW k \in 1 .. Len(s) - 1 PROVE r[k] = IF k < i THEN s[k] ELSE s[k + 1]
    <3>1. CASE k < i
      <4>1. k \in 1 .. i - 1 /\ k \in 1 .. Len(a) + Len(z) /\ k <= Len(a)
        BY <1>1, <1>2, <1>3, <3>1
      <4> QED BY <1>2, <2>1, <3>1, <4>1
    <3>2. CASE ~(k < i)
      <4>1. k - (i - 1) \in 1 .. Len(s) - i /\ k - (i - 1) + i = k + 1
        BY <1>1, <3>2
      <4>2. k \in 1 .. Len(a) + Len(z) /\ ~(k <= Len(a)) /\ k - Len(a) = k - (i - 1)
        BY <1>1, <1>2, <1>3, <3>2
      <4>3. r[k] = z[k - (i - 1)]
        BY <2>1, <4>2
      <4> QED BY <1>3, <3>2, <4>1, <4>3
    <3> QED BY <3>1, <3>2
  <2> QED BY <1>1, <1>2, <1>3, <2>1, <2>2
<1>6. DOMAIN r = 1 .. Len(s) - 1
  BY <1>1, <1>5
<1> DEFINE at(k) == IF k < i THEN k ELSE k + 1
<1>7. \A k \in 1 .. Len(s) - 1 : at(k) \in 1 .. Len(s) /\ at(k) # i /\ r[k] = s[at(k)]
  BY <1>1, <1>5
<1>8. \A k, l \in 1 .. Len(s) - 1 : at(k) = at(l) => k = l
  BY <1>1
<1>9. Distinct(r)
  <2> HIDE DEF at
  <2> QED BY <1>5, <1>7, <1>8 DEF Distinct
<1>10. ASSUME NEW x \in ToSet(r) PROVE x \in ToSet(s) \ {s[i]}
  <2> HIDE DEF at
  <2>1. PICK k \in 1 .. Len(s) - 1 : x = r[k]
    BY <1>6, <1>10 DEF ToSet
  <2> QED BY <1>1, <1>7, <2>1 DEF ToSet, Distinct
<1>11. ASSUME NEW x \in ToSet(s) \ {s[i]} PROVE x \in ToSet(r)
  <2>1. PICK k \in 1 .. Len(s) : x = s[k] /\ k # i
    BY <1>1, <1>11 DEF ToSet
  <2>2. CASE k < i
    <3>1. k \in 1 .. Len(s) - 1 /\ r[k] = x
      BY <1>1, <1>5, <2>1, <2>2
    <3> QED BY <1>6, <3>1 DEF ToSet
  <2>3. CASE k > i
    <3>1. k - 1 \in 1 .. Len(s) - 1 /\ ~(k - 1 < i) /\ (k - 1) + 1 = k
      BY <1>1, <2>1, <2>3
    <3>2. r[k - 1] = x
      BY <1>5, <2>1, <3>1
    <3> QED BY <1>6, <3>1, <3>2 DEF ToSet
  <2> QED BY <1>1, <2>1, <2>2, <2>3
<1> QED BY <1>5, <1>9, <1>10, <1>11 DEF r

\* Whoever is woken is out of the list, and nobody else is.
LEMMA WakeUnlinks ==
  ASSUME TypeOK, Distinct(waiters), waiters # << >>, Wake
  PROVE  /\ waiters' \in Seq(Thread) /\ Distinct(waiters')
         /\ ToSet(waiters') \subseteq ToSet(waiters)
         /\ sem' \in [Thread -> Nat]
         /\ \A t \in Thread : sem'[t] = IF t \in ToSet(waiters) \ ToSet(waiters')
                                        THEN sem[t] + 1 ELSE sem[t]
         /\ \E t \in Thread : t \in ToSet(waiters) \ ToSet(waiters')
<1>1. /\ waiters \in Seq(Thread) /\ Len(waiters) \in Nat /\ Len(waiters) >= 1
      /\ DOMAIN waiters = 1 .. Len(waiters) /\ \A i \in 1 .. Len(waiters) : waiters[i] \in Thread
      /\ sem \in [Thread -> Nat]
  BY DEF TypeOK
<1> DEFINE m     == ask[Head(waiters)].mode
           limit == IF m = "X" THEN ExclWakeup ELSE SharedWakeup
           alike == {n \in 1 .. Len(waiters) : n <= limit /\ \A i \in 1 .. n : ask[waiters[i]].mode = m}
           w     == WokenCount
<1>2. w \in 1 .. Len(waiters)
  <2>1. 1 \in alike
    <3>1. limit \in Nat \ {0}
      BY ConstantsAssumption
    <3>2. Head(waiters) = waiters[1]
      BY <1>1
    <3>3. \A i \in 1 .. 1 : ask[waiters[i]].mode = m
      BY <3>2
    <3> HIDE DEF limit, m
    <3> QED BY <1>1, <3>1, <3>3
  <2>2. alike \in SUBSET Nat /\ \A n \in alike : n <= Len(waiters)
    BY <1>1
  <2>3. \E n \in alike : \A k \in alike : k <= n
    <3> HIDE DEF alike
    <3> QED BY <1>1, <2>1, <2>2, Largest
  <2>4. w = CHOOSE n \in alike : \A k \in alike : k <= n
    BY DEF WokenCount
  <2>5. w \in alike
    <3> HIDE DEF alike, w
    <3> QED BY <2>3, <2>4
  <2> QED BY <2>5
<1>3. waiters' = SubSeq(waiters, w + 1, Len(waiters))
  BY DEF Wake
<1>4. sem' = [t \in Thread |-> IF \E i \in 1 .. w : waiters[i] = t THEN sem[t] + 1 ELSE sem[t]]
  BY DEF Wake
<1> HIDE DEF m, limit, alike, w
<1>5. /\ waiters' \in Seq(Thread) /\ Len(waiters') = Len(waiters) - w
      /\ \A k \in 1 .. Len(waiters) - w : waiters'[k] = waiters[k + w]
  <2>1. \A k \in w + 1 .. Len(waiters) : waiters[k] \in Thread
    BY <1>1, <1>2
  <2>2. /\ waiters' \in Seq(Thread)
        /\ Len(waiters') = IF w + 1 <= Len(waiters) THEN Len(waiters) - (w + 1) + 1 ELSE 0
        /\ \A k \in 1 .. Len(waiters) - (w + 1) + 1 : waiters'[k] = waiters[(w + 1) + k - 1]
    BY <1>1, <1>2, <1>3, <2>1, SubSeqProperties
  <2>3. /\ Len(waiters) - (w + 1) + 1 = Len(waiters) - w
        /\ \A k \in 1 .. Len(waiters) - w : (w + 1) + k - 1 = k + w
    <3>1. Len(waiters) \in Int /\ w \in Int
      BY <1>1, <1>2
    <3> QED BY <3>1
  <2>4. Len(waiters') = Len(waiters) - w
    <3>1. Len(waiters) \in Int /\ w \in Int /\ w <= Len(waiters)
      BY <1>1, <1>2
    <3>2. Len(waiters') = IF w + 1 <= Len(waiters) THEN Len(waiters) - (w + 1) + 1 ELSE 0
      BY <2>2
    <3> QED BY <3>1, <3>2
  <2> QED BY <2>2, <2>3, <2>4
<1>6. DOMAIN waiters' = 1 .. Len(waiters) - w
  BY <1>5
<1>7. Distinct(waiters')
  <2> SUFFICES ASSUME NEW i \in 1 .. Len(waiters) - w, NEW j \in 1 .. Len(waiters) - w,
                      waiters'[i] = waiters'[j]
               PROVE  i = j
    BY <1>5 DEF Distinct
  <2>1. i + w \in 1 .. Len(waiters) /\ j + w \in 1 .. Len(waiters) /\ waiters[i + w] = waiters[j + w]
    BY <1>1, <1>2, <1>5
  <2> QED BY <1>1, <1>2, <2>1 DEF Distinct
<1>8. \A t \in ToSet(waiters') : \E k \in w + 1 .. Len(waiters) : waiters[k] = t
  <2> TAKE t \in ToSet(waiters')
  <2>1. PICK i \in 1 .. Len(waiters) - w : waiters'[i] = t
    BY <1>6 DEF ToSet
  <2>2. i + w \in w + 1 .. Len(waiters) /\ waiters[i + w] = t
    BY <1>1, <1>2, <1>5, <2>1
  <2> QED BY <2>2
<1>9. \A k \in w + 1 .. Len(waiters) : waiters[k] \in ToSet(waiters')
  <2> TAKE k \in w + 1 .. Len(waiters)
  <2>1. k - w \in 1 .. Len(waiters) - w /\ (k - w) + w = k
    BY <1>1, <1>2
  <2>2. waiters'[k - w] = waiters[k]
    BY <1>5, <2>1
  <2> QED BY <1>6, <2>1, <2>2 DEF ToSet
<1>10. ToSet(waiters') \subseteq ToSet(waiters)
  <2> SUFFICES ASSUME NEW t \in ToSet(waiters') PROVE t \in ToSet(waiters)
    OBVIOUS
  <2>1. PICK k \in w + 1 .. Len(waiters) : waiters[k] = t
    BY <1>8
  <2>2. k \in 1 .. Len(waiters)
    BY <1>1, <1>2
  <2> QED BY <1>1, <2>1, <2>2 DEF ToSet
<1>11. \A t \in Thread : (\E i \in 1 .. w : waiters[i] = t) <=> t \in ToSet(waiters) \ ToSet(waiters')
  <2> TAKE t \in Thread
  <2>1. ASSUME NEW i \in 1 .. w, waiters[i] = t PROVE t \in ToSet(waiters) \ ToSet(waiters')
    <3>1. i \in 1 .. Len(waiters)
      BY <1>1, <1>2
    <3>2. \A k \in w + 1 .. Len(waiters) : waiters[k] # t
      BY <1>1, <1>2, <2>1, <3>1 DEF Distinct
    <3> QED BY <1>1, <1>8, <2>1, <3>1, <3>2 DEF ToSet
  <2>2. ASSUME t \in ToSet(waiters) \ ToSet(waiters') PROVE \E i \in 1 .. w : waiters[i] = t
    <3>1. PICK k \in 1 .. Len(waiters) : waiters[k] = t
      BY <1>1, <2>2 DEF ToSet
    <3>2. ~(k \in w + 1 .. Len(waiters))
      BY <1>9, <2>2, <3>1
    <3>3. k \in 1 .. w
      BY <1>1, <1>2, <3>2
    <3> QED BY <3>1, <3>3
  <2> QED BY <2>1, <2>2
<1>12. \E t \in Thread : t \in ToSet(waiters) \ ToSet(waiters')
  <2>1. waiters[1] \in Thread /\ 1 \in 1 .. w
    BY <1>1, <1>2
  <2> QED BY <1>11, <2>1
<1>13. \A t \in Thread : sem'[t] = IF t \in ToSet(waiters) \ ToSet(waiters') THEN sem[t] + 1 ELSE sem[t]
  BY <1>4, <1>11
<1>14. sem' \in [Thread -> Nat]
  BY <1>1, <1>4
<1> QED BY <1>5, <1>7, <1>10, <1>12, <1>13, <1>14

-----------------------------------------------------------------------------
(* The latch word *)

\* Another thread counts as a holder.
LEMMA OneMoreHolder ==
  ASSUME TypeOK, NEW t \in Thread, held[t] = 0, held' = [held EXCEPT ![t] = 1]
  PROVE  Cardinality(Holders') = Cardinality(Holders) + 1 /\ Cardinality(Holders) \in Nat
<1>1. IsFiniteSet(Holders)
  BY ConstantsAssumption, FS_Subset DEF Holders
<1>2. Holders' = Holders \cup {t} /\ t \notin Holders
  BY DEF Holders, TypeOK
<1> QED BY <1>1, <1>2, FS_AddElement, FS_CardinalityType

LEMMA OneHolderLess ==
  ASSUME TypeOK, NEW t \in Thread, held[t] = 1, held' = [held EXCEPT ![t] = 0]
  PROVE  Cardinality(Holders') = Cardinality(Holders) - 1 /\ Cardinality(Holders) \in Nat
<1>1. IsFiniteSet(Holders)
  BY ConstantsAssumption, FS_Subset DEF Holders
<1>2. Holders' = Holders \ {t} /\ t \in Holders
  BY DEF Holders, TypeOK
<1> QED BY <1>1, <1>2, FS_RemoveElement, FS_CardinalityType

LEMMA NoHolders ==
  ASSUME TypeOK
  PROVE  Cardinality(Holders) = 0 <=> \A t \in Thread : held[t] = 0
<1>1. IsFiniteSet(Holders)
  BY ConstantsAssumption, FS_Subset DEF Holders
<1>2. Cardinality(Holders) = 0 <=> Holders = {}
  BY <1>1, FS_EmptySet
<1> QED BY <1>2 DEF Holders, TypeOK

\* A count of one is that of the holder one knows.
LEMMA OnlyHolder ==
  ASSUME TypeOK, NEW t \in Thread, held[t] > 0, Cardinality(Holders) = 1
  PROVE  \A u \in Thread \ {t} : held[u] = 0
<1>1. IsFiniteSet(Holders)
  BY ConstantsAssumption, FS_Subset DEF Holders
<1>2. \E x : Holders = {x}
  BY <1>1, FS_Singleton
<1>3. t \in Holders
  BY DEF Holders
<1>4. Holders = {t}
  BY <1>2, <1>3
<1> QED BY <1>4 DEF Holders, TypeOK

-----------------------------------------------------------------------------
(* The steps *)

LEMMA InitInv == Init => LatchInv
<1> SUFFICES ASSUME Init PROVE LatchInv
  OBVIOUS
<1>1. Len(waiters) = 0 /\ ToSet(waiters) = {}
  BY DEF Init, ToSet
<1>2. TypeOK
  <2>1. NoAsk \in [mode : {"S", "X"}, kind : Kinds \cup {"wait"}, high : BOOLEAN]
    BY DEF NoAsk
  <2>2. << >> \in Seq(Thread)
    BY EmptySeq
  <2> QED BY <2>1, <2>2 DEF Init, TypeOK
<1>3. ModeInv /\ AskInv
  BY DEF Init, ModeInv, AskInv
<1>4. ListInv
  BY <1>1 DEF Init, ListInv, Distinct
<1>5. SemaphoreExact
  BY <1>1 DEF Init, SemaphoreExact
<1> QED
  BY <1>2, <1>3, <1>4, <1>5 DEF LatchInv

LEMMA WaitersAreThreads ==
  ASSUME TypeOK PROVE ToSet(waiters) \subseteq Thread
BY DEF TypeOK, ToSet

LEMMA SameLatch ==
  ASSUME ModeInv, UNCHANGED latchVars PROVE ModeInv'
BY DEF ModeInv, Holders, latchVars

LEMMA RequestInv ==
  ASSUME LatchInv, NEW t \in Thread, NEW m \in {"S", "X"}, NEW k \in Kinds, NEW high \in BOOLEAN,
         Request(t, m, k, high)
  PROVE  LatchInv'
<1> USE DEF LatchInv, TypeOK, Request, Call
<1>1. TypeOK'
  BY DEF latchVars
<1>2. ModeInv'
  BY SameLatch
<1>3. AskInv'
  <2> SUFFICES ASSUME NEW u \in Thread, pc'[u] \in {"enter", "again", "asleep"}
               PROVE  \/ held'[u] = 0
                      \/ mode' = "X" /\ exclOwner' = u /\ ask'[u].mode = "X" /\ pc'[u] = "enter"
    BY DEF AskInv
  <2>1. CASE u = t /\ held[t] # 0
    <3>1. exclOwner = t /\ m = "X"
      BY <2>1
    <3>2. mode = "X"
      BY <3>1, ConstantsAssumption DEF ModeInv
    <3> QED BY <2>1, <3>1, <3>2 DEF latchVars
  <2> QED BY <2>1 DEF AskInv, latchVars
<1>4. ListInv' /\ SemaphoreExact'
  BY DEF ListInv, SemaphoreExact
<1> QED BY <1>1, <1>2, <1>3, <1>4

LEMMA GetLatchInv ==
  ASSUME LatchInv, NEW t \in Thread, GetLatch(t)
  PROVE  LatchInv'
<1> USE DEF LatchInv, TypeOK, GetLatch, Return
<1>1. TypeOK'
  BY DEF NoAsk
<1>2. held[t] = 0 \/ (mode = "X" /\ exclOwner = t /\ ask[t].mode = "X")
  BY DEF AskInv
<1>3. ModeInv'
  <2>1. CASE ask[t].mode = "S"
    <3>1. mode \in {"INIT", "S"} /\ mode' = "S" /\ exclOwner' = NoOne
      BY <2>1 DEF Admits
    <3>2. held[t] = 0
      BY <1>2, <3>1
    <3>3. held' = [held EXCEPT ![t] = 1]
      BY <3>2
    <3>4. Cardinality(Holders') = Cardinality(Holders) + 1 /\ Cardinality(Holders) \in Nat
      BY <3>2, <3>3, OneMoreHolder
    <3>5. refCount = Cardinality(Holders)
      <4>1. CASE mode = "INIT"
        BY <4>1, NoHolders DEF ModeInv
      <4>2. CASE mode = "S"
        BY <4>2 DEF ModeInv
      <4> QED BY <3>1, <4>1, <4>2
    <3>6. \A u \in Thread : held'[u] \in {0, 1}
      BY <3>1, <3>3 DEF ModeInv
    <3> QED BY <3>1, <3>4, <3>5, <3>6 DEF ModeInv
  <2>2. CASE ask[t].mode = "X"
    <3>1. mode' = "X" /\ exclOwner' \in {t, NoOne}
      BY <2>2
    <3>2. held[t] = refCount /\ \A u \in Thread \ {t} : held[u] = 0
      <4>1. CASE mode = "INIT"
        BY <4>1 DEF ModeInv
      <4>2. CASE mode = "X" /\ exclOwner = t
        BY <4>2, ConstantsAssumption DEF ModeInv
      <4> QED BY <2>2, <4>1, <4>2 DEF Admits
    <3>3. held'[t] = refCount' /\ refCount' > 0 /\ \A u \in Thread \ {t} : held'[u] = 0
      BY <3>2
    <3> QED BY <3>1, <3>3 DEF ModeInv
  <2> QED BY <2>1, <2>2
<1>4. AskInv'
  <2> SUFFICES ASSUME NEW u \in Thread, pc'[u] \in {"enter", "again", "asleep"}
               PROVE  held'[u] = 0
    BY DEF AskInv
  <2>1. u # t /\ pc[u] = pc'[u] /\ held'[u] = held[u]
    OBVIOUS
  <2>2. ~(mode = "X" /\ exclOwner = u)
    BY <2>1 DEF Admits
  <2> QED BY <2>1, <2>2 DEF AskInv
<1>5. ListInv' /\ SemaphoreExact'
  BY DEF ListInv, SemaphoreExact
<1> QED BY <1>1, <1>3, <1>4, <1>5

LEMMA FailLatchInv ==
  ASSUME LatchInv, NEW t \in Thread, FailLatch(t)
  PROVE  LatchInv'
<1> USE DEF LatchInv, TypeOK, FailLatch, Return
<1>1. TypeOK'
  BY DEF latchVars, NoAsk
<1>2. ModeInv'
  BY SameLatch
<1>3. AskInv'
  BY DEF AskInv, latchVars
<1>4. ListInv' /\ SemaphoreExact'
  BY DEF ListInv, SemaphoreExact
<1> QED BY <1>1, <1>2, <1>3, <1>4

LEMMA QueueForLatchInv ==
  ASSUME LatchInv, NEW t \in Thread, QueueForLatch(t)
  PROVE  LatchInv'
<1> USE DEF LatchInv, TypeOK, QueueForLatch, Goto
<1>1. t \notin ToSet(waiters) /\ t \notin sleepers /\ sem[t] = 0
  BY DEF SemaphoreExact
<1>2. waiters' \in Seq(Thread) /\ Distinct(waiters') /\ ToSet(waiters') = ToSet(waiters) \cup {t}
  BY <1>1, Enlisted DEF ListInv
<1>3. TypeOK'
  BY <1>2 DEF latchVars
<1>4. ModeInv'
  BY SameLatch
<1>5. AskInv'
  <2>1. held[t] = 0
    BY DEF AskInv, Admits
  <2> QED BY <2>1 DEF AskInv, latchVars
<1>6. ListInv'
  BY <1>1, <1>2 DEF ListInv
<1>7. SemaphoreExact'
  BY <1>1, <1>2 DEF SemaphoreExact
<1> QED BY <1>3, <1>4, <1>5, <1>6, <1>7

LEMMA EscalateInv ==
  ASSUME LatchInv, NEW t \in Thread, Escalate(t)
  PROVE  LatchInv'
<1> USE DEF LatchInv, TypeOK, Escalate
<1>1. TypeOK'
  OBVIOUS
<1>2. \A u \in Thread \ {t} : held[u] = 0
  BY OnlyHolder DEF ModeInv
<1>3. held[t] = 1
  BY DEF ModeInv
<1>4. ModeInv'
  BY <1>2, <1>3 DEF ModeInv
<1>5. AskInv'
  BY DEF AskInv
<1>6. ListInv' /\ SemaphoreExact'
  BY DEF ListInv, SemaphoreExact
<1> QED BY <1>1, <1>4, <1>5, <1>6

LEMMA ReleaseLatchInv ==
  ASSUME LatchInv, NEW t \in Thread, ReleaseLatch(t)
  PROVE  LatchInv'
<1> USE DEF LatchInv, TypeOK, ReleaseLatch
<1>1. /\ waiters' \in Seq(Thread) /\ Distinct(waiters') /\ ToSet(waiters') \subseteq ToSet(waiters)
      /\ sem' \in [Thread -> Nat]
      /\ \A u \in Thread : sem'[u] = IF u \in ToSet(waiters) \ ToSet(waiters')
                                     THEN sem[u] + 1 ELSE sem[u]
  <2>1. CASE refCount = 1 /\ waiters # << >>
    BY <2>1, WakeUnlinks DEF ListInv
  <2>2. CASE ~(refCount = 1 /\ waiters # << >>)
    BY <2>2 DEF ListInv
  <2> QED BY <2>1, <2>2
<1>2. held[t] >= 1 /\ held' = [held EXCEPT ![t] = held[t] - 1] /\ refCount' = refCount - 1
  OBVIOUS
<1>3. mode # "INIT"
  BY DEF ModeInv
<1>4. refCount >= 1 /\ (refCount = 1 => \A u \in Thread : held'[u] = 0)
  <2>1. CASE mode = "S"
    <3>1. refCount = Cardinality(Holders) /\ held[t] = 1
      BY <1>2, <2>1 DEF ModeInv
    <3>2. held' = [held EXCEPT ![t] = 0]
      BY <1>2, <3>1
    <3>3. Cardinality(Holders) # 0
      BY <1>2, NoHolders
    <3>4. refCount = 1 => \A u \in Thread \ {t} : held[u] = 0
      BY <1>2, <3>1, OnlyHolder
    <3> QED BY <3>1, <3>2, <3>3, <3>4
  <2>2. CASE mode = "X"
    <3>1. held[t] = refCount /\ \A u \in Thread \ {t} : held[u] = 0
      <4>1. PICK h \in Thread : held[h] = refCount /\ \A u \in Thread \ {h} : held[u] = 0
        BY <2>2 DEF ModeInv
      <4>2. h = t
        BY <1>2, <4>1
      <4> QED BY <4>1, <4>2
    <3>2. refCount >= 1
      BY <1>2, <3>1
    <3>3. ASSUME refCount = 1, NEW u \in Thread PROVE held'[u] = 0
      BY <1>2, <3>1, <3>3
    <3> QED BY <3>2, <3>3
  <2> QED BY <1>3, <2>1, <2>2
<1>5. TypeOK'
  <2>1. held' \in [Thread -> Nat] /\ refCount' \in Nat
    BY <1>2, <1>4
  <2>2. mode' \in {"INIT", "S", "X"} /\ exclOwner' \in SharedEnv \cup {NoOne}
    OBVIOUS
  <2> HIDE DEF ReleaseLatch
  <2>3. UNCHANGED <<sleepers, pc, ask, calls, swallowed>>
    BY DEF ReleaseLatch
  <2> QED BY <1>1, <2>1, <2>2, <2>3
<1>6. ModeInv'
  <2>1. CASE refCount = 1
    BY <1>2, <1>4, <2>1 DEF ModeInv
  <2>2. CASE refCount # 1 /\ mode = "S"
    <3>1. held[t] = 1 /\ refCount = Cardinality(Holders) /\ exclOwner = NoOne
      BY <1>2, <2>2 DEF ModeInv
    <3>2. held' = [held EXCEPT ![t] = 0]
      BY <1>2, <3>1
    <3>3. refCount' = Cardinality(Holders')
      BY <1>2, <3>1, <3>2, OneHolderLess
    <3>4. \A u \in Thread : held'[u] \in {0, 1}
      BY <2>2, <3>2 DEF ModeInv
    <3> QED BY <2>2, <3>1, <3>3, <3>4 DEF ModeInv
  <2>3. CASE refCount # 1 /\ mode = "X"
    <3>1. held[t] = refCount /\ exclOwner \in {t, NoOne} /\ \A u \in Thread \ {t} : held[u] = 0
      BY <1>2, <2>3 DEF ModeInv
    <3>2. held'[t] = refCount' /\ refCount' > 0 /\ \A u \in Thread \ {t} : held'[u] = 0
      BY <1>2, <1>4, <2>3, <3>1
    <3> QED BY <2>3, <3>1, <3>2 DEF ModeInv
  <2> QED BY <1>3, <2>1, <2>2, <2>3
<1>7. AskInv'
  <2> SUFFICES ASSUME NEW u \in Thread, pc'[u] \in {"enter", "again", "asleep"}
               PROVE  held'[u] = 0
    BY DEF AskInv
  <2>1. u # t /\ held'[u] = held[u]
    BY <1>2
  <2>2. ~(mode = "X" /\ exclOwner = u)
    <3> SUFFICES ASSUME mode = "X", exclOwner = u PROVE FALSE
      OBVIOUS
    <3>1. held[t] = 0
      BY <2>1, ConstantsAssumption DEF ModeInv
    <3> QED BY <1>2, <3>1
  <2> QED BY <2>1, <2>2 DEF AskInv
<1>8. ListInv'
  BY <1>1 DEF ListInv
<1>9. SemaphoreExact'
  <2> SUFFICES ASSUME NEW u \in Thread
               PROVE LET listed == u \in ToSet(waiters') \cup sleepers' IN
                     /\ pc'[u] \in {"idle", "enter", "again"} => ~listed /\ sem'[u] = 0
                     /\ pc'[u] \in {"asleep", "cond", "late", "condLate"} =>
                          sem'[u] = IF listed THEN 0 ELSE 1
                     /\ pc'[u] = "drain" => ~listed /\ sem'[u] = 1
    BY DEF SemaphoreExact
  <2>1. CASE u \in ToSet(waiters) \ ToSet(waiters')
    <3>1. pc[u] \in {"asleep", "late"} /\ u \notin sleepers /\ sem[u] = 0
      BY <2>1 DEF ListInv, SemaphoreExact
    <3>2. sem'[u] = 1
      BY <1>1, <2>1, <3>1
    <3> QED BY <2>1, <3>1, <3>2
  <2>2. CASE ~(u \in ToSet(waiters) \ ToSet(waiters'))
    <3>1. sem'[u] = sem[u] /\ (u \in ToSet(waiters') <=> u \in ToSet(waiters))
      BY <1>1, <2>2
    <3> QED BY <3>1 DEF SemaphoreExact
  <2> QED BY <2>1, <2>2
<1> QED BY <1>5, <1>6, <1>7, <1>8, <1>9

LEMMA CondInv ==
  ASSUME LatchInv, NEW t \in Thread, CondWait(t) \/ CondBroadcast(t)
  PROVE  LatchInv'
<1> USE DEF LatchInv, TypeOK
<1>1. CASE CondWait(t)
  <2> USE <1>1 DEF CondWait, Call, Goto
  <2>1. TypeOK'
    BY DEF latchVars
  <2>2. ModeInv' /\ AskInv'
    BY SameLatch DEF AskInv, latchVars
  <2>3. ListInv' /\ SemaphoreExact'
    BY DEF ListInv, SemaphoreExact
  <2> QED BY <2>1, <2>2, <2>3
<1>2. CASE CondBroadcast(t)
  <2> USE <1>2 DEF CondBroadcast, Call
  <2>1. PICK W \in SUBSET sleepers :
          /\ sleepers' = sleepers \ W
          /\ sem' = [u \in Thread |-> IF u \in W THEN sem[u] + 1 ELSE sem[u]]
    OBVIOUS
  <2>2. TypeOK'
    BY <2>1 DEF latchVars
  <2>3. ModeInv' /\ AskInv'
    BY SameLatch DEF AskInv, latchVars
  <2>4. ListInv'
    BY <2>1 DEF ListInv
  <2>5. SemaphoreExact'
    <3> SUFFICES ASSUME NEW u \in Thread
                 PROVE LET listed == u \in ToSet(waiters') \cup sleepers' IN
                       /\ pc'[u] \in {"idle", "enter", "again"} => ~listed /\ sem'[u] = 0
                       /\ pc'[u] \in {"asleep", "cond", "late", "condLate"} =>
                            sem'[u] = IF listed THEN 0 ELSE 1
                       /\ pc'[u] = "drain" => ~listed /\ sem'[u] = 1
      BY DEF SemaphoreExact
    <3>1. CASE u \in W
      <4>1. pc[u] \in {"cond", "condLate"} /\ u \notin ToSet(waiters) /\ sem[u] = 0
        BY <3>1 DEF ListInv, SemaphoreExact
      <4>2. sem'[u] = 1 /\ u \notin sleepers' /\ pc'[u] = pc[u] /\ waiters' = waiters
        BY <2>1, <3>1, <4>1
      <4> QED BY <4>1, <4>2
    <3>2. CASE u \notin W
      <4>1. sem'[u] = sem[u] /\ (u \in sleepers' <=> u \in sleepers) /\ waiters' = waiters
        BY <2>1, <3>2
      <4> QED BY <4>1 DEF SemaphoreExact
    <3> QED BY <3>1, <3>2
  <2> QED BY <2>2, <2>3, <2>4, <2>5
<1> QED BY <1>1, <1>2

LEMMA SemaphoreStepsInv ==
  ASSUME LatchInv, NEW t \in Thread, WakeUp(t) \/ TimeOut(t) \/ Drain(t)
  PROVE  LatchInv'
<1> USE DEF LatchInv, TypeOK, Goto, Return
<1>1. CASE WakeUp(t)
  <2> USE <1>1 DEF WakeUp
  <2>1. TypeOK'
    <3>1. sem' \in [Thread -> Nat]
      <4>1. sem[t] - 1 \in Nat
        OBVIOUS
      <4> QED BY <4>1
    <3>2. \/ pc' = [pc EXCEPT ![t] = "again"] /\ ask' = ask
          \/ pc' = [pc EXCEPT ![t] = "idle"] /\ ask' = [ask EXCEPT ![t] = NoAsk]
      OBVIOUS
    <3>3. UNCHANGED <<latchVars, waiters, sleepers, calls, swallowed>>
      OBVIOUS
    <3> HIDE DEF WakeUp
    <3>4. ask' \in [Thread -> [mode : {"S", "X"}, kind : Kinds \cup {"wait"}, high : BOOLEAN]]
      <4>1. NoAsk \in [mode : {"S", "X"}, kind : Kinds \cup {"wait"}, high : BOOLEAN]
        BY DEF NoAsk
      <4> QED BY <3>2, <4>1
    <3>5. pc' \in [Thread -> {"idle", "enter", "again", "asleep", "late", "drain", "cond", "condLate"}]
      BY <3>2
    <3> QED BY <3>1, <3>3, <3>4, <3>5 DEF latchVars
  <2>2. ModeInv' /\ AskInv'
    BY SameLatch DEF AskInv, latchVars
  <2>3. sem[t] = 1 /\ t \notin ToSet(waiters) \cup sleepers
    BY DEF SemaphoreExact
  <2>4. pc'[t] \in {"again", "idle"} /\ sem'[t] = 0
    BY <2>3
  <2>5. \A u \in Thread \ {t} : pc'[u] = pc[u] /\ sem'[u] = sem[u]
    OBVIOUS
  <2>6. ListInv'
    BY <2>3, <2>5, WaitersAreThreads DEF ListInv
  <2>7. SemaphoreExact'
    BY <2>3, <2>4, <2>5 DEF SemaphoreExact
  <2> QED BY <2>1, <2>2, <2>6, <2>7
<1>2. CASE TimeOut(t)
  <2> USE <1>2 DEF TimeOut
  <2>1. TypeOK'
    BY DEF latchVars
  <2>2. ModeInv' /\ AskInv'
    BY SameLatch DEF AskInv, latchVars
  <2>3. \/ pc[t] = "asleep" /\ pc' = [pc EXCEPT ![t] = "late"]
        \/ pc[t] = "cond" /\ pc' = [pc EXCEPT ![t] = "condLate"]
    OBVIOUS
  <2>4. UNCHANGED <<waiters, sleepers, sem>>
    OBVIOUS
  <2> HIDE DEF TimeOut
  <2>5. ListInv'
    BY <2>3, <2>4, WaitersAreThreads DEF ListInv
  <2>6. SemaphoreExact'
    BY <2>3, <2>4 DEF SemaphoreExact
  <2> QED BY <2>1, <2>2, <2>5, <2>6
<1>3. CASE Drain(t)
  <2> USE <1>3 DEF Drain
  <2>1. TypeOK'
    BY DEF latchVars, NoAsk
  <2>2. ModeInv' /\ AskInv'
    BY SameLatch DEF AskInv, latchVars
  <2>3. ListInv' /\ SemaphoreExact'
    BY DEF ListInv, SemaphoreExact
  <2> QED BY <2>1, <2>2, <2>3
<1> QED BY <1>1, <1>2, <1>3

LEMMA LeaveInv ==
  ASSUME LatchInv, NEW t \in Thread, Leave(t)
  PROVE  LatchInv'
<1> USE DEF LatchInv, TypeOK, Goto, Return
<1>1. ModeInv' /\ AskInv'
  BY SameLatch DEF Leave, AskInv, latchVars
<1>2. ASSUME pc[t] = "late", NEW i \in 1 .. Len(waiters), waiters[i] = t,
             waiters' = RemoveAt(waiters, i), Return(t), UNCHANGED <<sleepers, swallowed>>
      PROVE  TypeOK' /\ ListInv' /\ SemaphoreExact'
  <2>1. waiters' \in Seq(Thread) /\ Distinct(waiters') /\ ToSet(waiters') = ToSet(waiters) \ {t}
    BY <1>2, Unlinked DEF ListInv
  <2>2. t \in ToSet(waiters) /\ t \notin sleepers /\ sem[t] = 0
    <3>1. DOMAIN waiters = 1 .. Len(waiters)
      OBVIOUS
    <3>2. t \in ToSet(waiters)
      BY <1>2, <3>1 DEF ToSet
    <3> QED BY <1>2, <3>2 DEF ListInv, SemaphoreExact
  <2>3. TypeOK'
    BY <1>2, <2>1 DEF Leave, latchVars, NoAsk
  <2>4. ListInv'
    BY <1>2, <2>1, <2>2 DEF ListInv
  <2>5. SemaphoreExact'
    BY <1>2, <2>1, <2>2 DEF SemaphoreExact, Leave
  <2> QED BY <2>3, <2>4, <2>5
<1>3. ASSUME pc[t] = "late", t \notin ToSet(waiters), swallowed' = TRUE, Goto(t, "drain"),
             UNCHANGED <<waiters, sleepers>>
      PROVE  TypeOK' /\ ListInv' /\ SemaphoreExact'
  BY <1>3 DEF Leave, latchVars, ListInv, SemaphoreExact
<1>4. ASSUME pc[t] = "condLate", t \in sleepers, sleepers' = sleepers \ {t}, Return(t),
             UNCHANGED <<waiters, swallowed>>
      PROVE  TypeOK' /\ ListInv' /\ SemaphoreExact'
  BY <1>4 DEF Leave, latchVars, NoAsk, ListInv, SemaphoreExact
<1>5. ASSUME pc[t] = "condLate", t \notin sleepers, Goto(t, "drain"),
             UNCHANGED <<waiters, sleepers, swallowed>>
      PROVE  TypeOK' /\ ListInv' /\ SemaphoreExact'
  BY <1>5 DEF Leave, latchVars, ListInv, SemaphoreExact
<1> QED BY <1>1, <1>2, <1>3, <1>4, <1>5 DEF Leave

LEMMA NextInv == LatchInv /\ [Next]_vars => LatchInv'
<1> SUFFICES ASSUME LatchInv, [Next]_vars PROVE LatchInv'
  OBVIOUS
<1>1. ASSUME NEW t \in Thread, GoOn(t) PROVE LatchInv'
  BY <1>1, GetLatchInv, FailLatchInv, QueueForLatchInv, ReleaseLatchInv, SemaphoreStepsInv, LeaveInv
     DEF GoOn
<1>2. ASSUME NEW t \in Thread, CondWait(t) \/ CondBroadcast(t) \/ Escalate(t) \/ TimeOut(t)
      PROVE  LatchInv'
  BY <1>2, CondInv, EscalateInv, SemaphoreStepsInv
<1>3. ASSUME NEW t \in Thread, NEW m \in {"S", "X"}, NEW k \in Kinds, NEW high \in BOOLEAN,
             Request(t, m, k, high)
      PROVE  LatchInv'
  BY <1>3, RequestInv
<1>4. CASE UNCHANGED vars
  BY <1>4, SameLatch DEF vars, latchVars, LatchInv, TypeOK, AskInv, ListInv, SemaphoreExact
<1> QED
  BY <1>1, <1>2, <1>3, <1>4 DEF Next

LEMMA LatchInvariant == Spec => []LatchInv
BY InitInv, NextInv, PTL DEF Spec

\* LatchTypes: each variable of the latch keeps its type, for any number of threads and
\* calls; in particular no semaphore and no reference count is ever below zero.
THEOREM LatchTypes == Spec => []TypeOK
BY LatchInvariant, PTL DEF LatchInv

\* SemaphoresAreExact: a wake-up of a latch or of a condition variable is neither lost
\* nor left over for a later wait, however timeouts race with releases.
THEOREM SemaphoresAreExact == Spec => []SemaphoreExact
BY LatchInvariant, PTL DEF LatchInv

-----------------------------------------------------------------------------
(* A free latch is not forgotten *)

\* Somebody who was woken has not come back yet, or has and will look at the latch.
Woken(t) == t \notin ToSet(waiters) /\ pc[t] \in {"asleep", "again", "late"}

WokenInv == (mode = "INIT" /\ waiters # << >> /\ ~swallowed) => \E t \in Thread : Woken(t)

LEMMA ReleaseWakes ==
  ASSUME LatchInv, NEW t \in Thread, ReleaseLatch(t)
  PROVE  WokenInv'
<1> USE DEF LatchInv, TypeOK
<1>1. CASE refCount = 1 /\ waiters # << >>
  <2>1. Wake /\ pc' = pc
    BY <1>1 DEF ReleaseLatch
  <2>2. PICK u \in Thread : u \in ToSet(waiters) \ ToSet(waiters')
    BY <1>1, <2>1, WakeUnlinks DEF ListInv
  <2>3. Woken(u)'
    BY <2>1, <2>2 DEF Woken, ListInv
  <2> QED BY <2>3 DEF WokenInv
<1>2. CASE refCount = 1 /\ waiters = << >>
  BY <1>2 DEF ReleaseLatch, WokenInv
<1>3. CASE refCount # 1
  BY <1>3 DEF ReleaseLatch, WokenInv, ModeInv
<1> QED BY <1>1, <1>2, <1>3

\* A step of a thread that was not woken, and leaves the list at most.
LEMMA StillWoken ==
  ASSUME WokenInv, NEW t \in Thread, ~Woken(t), mode' = mode, swallowed' = swallowed,
         waiters = << >> => waiters' = << >>, ToSet(waiters') \subseteq ToSet(waiters),
         \A u \in Thread \ {t} : pc'[u] = pc[u]
  PROVE  WokenInv'
<1> SUFFICES ASSUME mode' = "INIT", waiters' # << >>, ~swallowed' PROVE \E u \in Thread : Woken(u)'
  BY DEF WokenInv
<1>1. PICK u \in Thread : Woken(u)
  BY DEF WokenInv
<1> QED BY <1>1 DEF Woken

LEMMA WokenStep ==
  ASSUME LatchInv, WokenInv, [Next]_vars
  PROVE  WokenInv'
<1> USE DEF LatchInv, TypeOK
<1>1. ASSUME NEW t \in Thread, GetLatch(t) \/ Escalate(t)
      PROVE  WokenInv'
  BY <1>1 DEF GetLatch, Escalate, WokenInv
<1>2. ASSUME NEW t \in Thread, QueueForLatch(t)
      PROVE  WokenInv'
  BY <1>2 DEF QueueForLatch, Admits, WokenInv, latchVars
<1>3. ASSUME NEW t \in Thread, FailLatch(t)
      PROVE  WokenInv'
  <2>1. CASE pc[t] = "enter"
    BY <1>3, <2>1, StillWoken DEF FailLatch, Return, Woken, latchVars
  <2>2. CASE pc[t] = "again"
    BY <1>3, <2>2 DEF FailLatch, Admits, WokenInv, latchVars
  <2> QED BY <1>3, <2>1, <2>2 DEF FailLatch
<1>4. ASSUME NEW t \in Thread, CondWait(t) \/ CondBroadcast(t) \/ Drain(t)
      PROVE  WokenInv'
  <2>1. ~Woken(t)
    BY <1>4 DEF Woken, CondWait, CondBroadcast, Call, Drain
  <2>2. mode' = mode /\ swallowed' = swallowed /\ waiters' = waiters
    BY <1>4 DEF CondWait, CondBroadcast, Drain, latchVars
  <2>3. \A u \in Thread \ {t} : pc'[u] = pc[u]
    BY <1>4 DEF CondWait, CondBroadcast, Drain, Goto, Return
  <2> QED BY <2>1, <2>2, <2>3, StillWoken
<1>5. ASSUME NEW t \in Thread, NEW m \in {"S", "X"}, NEW k \in Kinds, NEW high \in BOOLEAN,
             Request(t, m, k, high)
      PROVE  WokenInv'
  BY <1>5, StillWoken DEF Request, Call, Woken, latchVars
<1>6. ASSUME NEW t \in Thread, WakeUp(t) \/ TimeOut(t)
      PROVE  WokenInv'
  <2>1. mode' = mode /\ swallowed' = swallowed /\ waiters' = waiters
    BY <1>6 DEF WakeUp, TimeOut, latchVars
  <2>2. CASE pc[t] = "asleep"
    <3>1. \A u \in Thread : Woken(u) => Woken(u)'
      BY <1>6, <2>1, <2>2 DEF WakeUp, TimeOut, Goto, Woken
    <3> QED BY <2>1, <3>1 DEF WokenInv
  <2>3. CASE pc[t] = "cond"
    <3>1. \A u \in Thread : Woken(u) => Woken(u)'
      BY <1>6, <2>1, <2>3 DEF WakeUp, TimeOut, Goto, Return, Woken
    <3> QED BY <2>1, <3>1 DEF WokenInv
  <2> QED BY <1>6, <2>2, <2>3 DEF WakeUp, TimeOut
<1>7. ASSUME NEW t \in Thread, Leave(t)
      PROVE  WokenInv'
  <2>1. CASE pc[t] = "late" /\ t \notin ToSet(waiters)
    <3>1. swallowed'
      <4>1. \A i \in 1 .. Len(waiters) : waiters[i] # t
        BY <2>1 DEF ToSet
      <4> QED BY <1>7, <2>1, <4>1 DEF Leave
    <3> QED BY <3>1 DEF WokenInv
  <2>2. CASE pc[t] = "late" /\ t \in ToSet(waiters)
    <3>1. PICK i \in 1 .. Len(waiters) : waiters[i] = t /\ waiters' = RemoveAt(waiters, i)
                                         /\ Return(t) /\ swallowed' = swallowed
      BY <1>7, <2>2 DEF Leave
    <3>2. ToSet(waiters') \subseteq ToSet(waiters)
      BY <3>1, Unlinked DEF ListInv
    <3>3. waiters # << >>
      BY <3>1
    <3> QED BY <1>7, <2>2, <3>1, <3>2, <3>3, StillWoken DEF Leave, Return, Woken, latchVars
  <2>3. CASE pc[t] = "condLate"
    <3>1. ~Woken(t) /\ mode' = mode /\ swallowed' = swallowed /\ waiters' = waiters
      BY <1>7, <2>3 DEF Leave, Woken, latchVars
    <3>2. \A u \in Thread \ {t} : pc'[u] = pc[u]
      BY <1>7, <2>3 DEF Leave, Goto, Return
    <3> QED BY <3>1, <3>2, StillWoken
  <2> QED BY <1>7, <2>1, <2>2, <2>3 DEF Leave
<1>8. CASE UNCHANGED vars
  BY <1>8 DEF vars, latchVars, WokenInv, Woken
<1> QED
  BY <1>1, <1>2, <1>3, <1>4, <1>5, <1>6, <1>7, <1>8, ReleaseWakes DEF Next, GoOn

\* AFreeLatchHasAContender: whenever the latch is free and somebody waits for it, somebody
\* who was woken is still to look at it, so the sleepers are not forgotten, for any number
\* of waiters and any wake-up counts. A swallowed wake-up is the exception.
THEOREM AFreeLatchHasAContender == Spec => []WaitersAreWoken
<1>1. Init => WokenInv
  BY DEF Init, WokenInv
<1>2. WokenInv => WaitersAreWoken
  BY DEF WokenInv, Woken, WaitersAreWoken
<1> QED
  BY <1>1, <1>2, LatchInvariant, WokenStep, PTL DEF Spec

-----------------------------------------------------------------------------
(* A latch is a readers-writer lock *)

Reading == [t \in Thread |-> IF mode = "S" THEN held[t] ELSE 0]
Writing == [t \in Thread |-> IF mode = "X" THEN held[t] ELSE 0]

\* With the count and the mode alone, what readers and writers do is what the lock does.
LEMMA GetLatchMaps ==
  ASSUME LatchInv, NEW t \in Thread, GetLatch(t)
  PROVE  RW!Read(t) \/ RW!Write(t)
<1> USE DEF LatchInv, TypeOK
<1>1. held' = [held EXCEPT ![t] = held[t] + 1] /\ Admits(t) /\ mode' = ask[t].mode
  BY DEF GetLatch
<1>2. held[t] = 0 \/ (mode = "X" /\ exclOwner = t /\ ask[t].mode = "X")
  BY DEF GetLatch, AskInv
<1>3. CASE ask[t].mode = "S"
  <2>1. mode \in {"INIT", "S"} /\ mode' = "S"
    BY <1>1, <1>3 DEF Admits
  <2>2. Writing = [u \in Thread |-> 0] /\ Writing' = [u \in Thread |-> 0]
    BY <2>1 DEF Writing
  <2>3. \A u \in Thread : Reading[u] = held[u]
    BY <2>1 DEF Reading, ModeInv
  <2>4. Reading' = [Reading EXCEPT ![t] = Reading[t] + 1]
    <3>1. Reading' = [u \in Thread |-> held'[u]]
      BY <2>1 DEF Reading
    <3> QED BY <1>1, <2>3, <3>1 DEF Reading
  <2> QED BY <2>2, <2>4 DEF RW!Read, RW!NobodyWrites, Reading, Writing
<1>4. CASE ask[t].mode = "X"
  <2>1. \A u \in Thread \ {t} : held[u] = 0
    BY <1>1, <1>4, ConstantsAssumption DEF Admits, ModeInv
  <2>2. mode \in {"INIT", "X"} /\ mode' = "X"
    BY <1>1, <1>4 DEF Admits
  <2>3. Reading = [u \in Thread |-> 0] /\ Reading' = [u \in Thread |-> 0]
    BY <2>2 DEF Reading
  <2>4. \A u \in Thread : Writing[u] = held[u]
    BY <2>2 DEF Writing, ModeInv
  <2>5. Writing' = [Writing EXCEPT ![t] = Writing[t] + 1]
    <3>1. Writing' = [u \in Thread |-> held'[u]]
      BY <2>2 DEF Writing
    <3> QED BY <1>1, <2>4, <3>1 DEF Writing
  <2> QED BY <2>1, <2>3, <2>4, <2>5 DEF RW!Write, RW!NobodyElseIsIn, Reading, Writing
<1> QED BY <1>3, <1>4

LEMMA EscalateMaps ==
  ASSUME LatchInv, NEW t \in Thread, Escalate(t)
  PROVE  RW!BecomeWriter(t)
<1> USE DEF LatchInv, TypeOK, Escalate
<1>1. held[t] = 1 /\ \A u \in Thread \ {t} : held[u] = 0
  BY OnlyHolder DEF ModeInv
<1>2. Reading' = [Reading EXCEPT ![t] = 0]
  BY <1>1 DEF Reading
<1>3. Writing' = [Writing EXCEPT ![t] = 1]
  BY <1>1 DEF Writing
<1> QED BY <1>1, <1>2, <1>3 DEF RW!BecomeWriter, RW!NobodyElseIsIn, Reading, Writing

LEMMA ReleaseMaps ==
  ASSUME LatchInv, LatchInv', NEW t \in Thread, ReleaseLatch(t)
  PROVE  RW!Leave(t)
<1> USE DEF LatchInv, TypeOK
<1>1. held[t] > 0 /\ held' = [held EXCEPT ![t] = held[t] - 1] /\ mode' \in {mode, "INIT"}
  BY DEF ReleaseLatch
<1>2. mode' = "INIT" => \A u \in Thread : held'[u] = 0
  BY DEF ModeInv
<1>3. mode # "INIT"
  BY <1>1 DEF ModeInv
<1>4. CASE mode = "S"
  <2>1. Reading = held /\ Reading' = held'
    BY <1>1, <1>2, <1>4 DEF Reading
  <2>2. Writing = [u \in Thread |-> 0] /\ Writing' = [u \in Thread |-> 0]
    BY <1>1, <1>4 DEF Writing
  <2> QED BY <1>1, <2>1, <2>2 DEF RW!Leave, Reading, Writing
<1>5. CASE mode = "X"
  <2>1. Writing = held /\ Writing' = held'
    BY <1>1, <1>2, <1>5 DEF Writing
  <2>2. Reading = [u \in Thread |-> 0] /\ Reading' = [u \in Thread |-> 0]
    BY <1>1, <1>5 DEF Reading
  <2> QED BY <1>1, <2>1, <2>2 DEF RW!Leave, Reading, Writing
<1> QED BY <1>3, <1>4, <1>5

LEMMA OtherStepsMap ==
  ASSUME UNCHANGED latchVars PROVE UNCHANGED <<Reading, Writing>>
BY DEF latchVars, Reading, Writing

\* LatchImplementsRWLock: although a latch does not know its holders, only how many they
\* are, it lets threads in and out like a readers-writer lock that does, for any number
\* of threads, whoever times out, tries, enters again or escalates.
THEOREM LatchImplementsRWLock == Spec => ImplementsRWLock
<1>1. Init => RW!Init
  BY DEF Init, RW!Init
<1>2. LatchInv /\ LatchInv' /\ [Next]_vars => [RW!Next]_<<Reading, Writing>>
  <2> SUFFICES ASSUME LatchInv, LatchInv', [Next]_vars PROVE [RW!Next]_<<Reading, Writing>>
    OBVIOUS
  <2>1. ASSUME NEW t \in Thread, GetLatch(t) \/ Escalate(t) \/ ReleaseLatch(t)
        PROVE  RW!Next
    BY <2>1, GetLatchMaps, EscalateMaps, ReleaseMaps DEF RW!Next
  <2>2. ASSUME NEW t \in Thread,
               \/ FailLatch(t) \/ QueueForLatch(t) \/ WakeUp(t) \/ Leave(t) \/ Drain(t)
               \/ CondWait(t) \/ CondBroadcast(t) \/ TimeOut(t)
        PROVE  UNCHANGED <<Reading, Writing>>
    BY <2>2, OtherStepsMap DEF FailLatch, QueueForLatch, WakeUp, Leave, Drain, CondWait,
                               CondBroadcast, TimeOut
  <2>3. ASSUME NEW t \in Thread, NEW m \in {"S", "X"}, NEW k \in Kinds, NEW high \in BOOLEAN,
               Request(t, m, k, high)
        PROVE  UNCHANGED <<Reading, Writing>>
    BY <2>3, OtherStepsMap DEF Request
  <2>4. CASE UNCHANGED vars
    BY <2>4, OtherStepsMap DEF vars
  <2> QED
    BY <2>1, <2>2, <2>3, <2>4 DEF Next, GoOn
<1> QED
  BY <1>1, <1>2, LatchInvariant, PTL DEF Spec, ImplementsRWLock, RW!Spec, Reading, Writing
=============================================================================
