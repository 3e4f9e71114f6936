--------------------------- MODULE LockSafetyProofs ---------------------------
(***************************************************************************)
(* The inductive invariant LockInv of LockManager and what follows from    *)
(* it: no two transactions ever have conflicting locks, no wake-up is      *)
(* lost, a dropped relation is left and its item freed empty, and the two  *)
(* locking mechanisms implement LockTable, for every number of slots and   *)
(* every set of lock items.  The last part is about deadlocks: what the    *)
(* wait table says of the waits, and what the search makes of it.          *)
(***************************************************************************)
EXTENDS LockManagerProofs

USE DEF listVars, lockVars, tranVars

\* The lists of one item: what HoldListSound, QueueHasHolder and QueueOrdered
\* say of it.
ListSound(i) ==
  /\ \A t, u \in Trans : t # u => Compatible(hold[i][t], hold[i][u])
  /\ grantedMode[i] = Join({hold[i][t] : t \in Trans})
  /\ \A t \in Requesters(i) : Holders(i) \ {t} # {}
  /\ \A r, s \in Requesters(i) : r # s => r \in ahead[i][s] \/ s \in ahead[i][r]

ListsSound == \A i \in Items : ListSound(i)

LEMMA ListsSoundDef ==
  ListsSound <=> HoldListSound /\ QueueHasHolder /\ QueueOrdered
BY DEF ListsSound, ListSound, HoldListSound, QueueHasHolder, QueueOrdered

LEMMA ListsSoundPrimed ==
  ListsSound' <=> HoldListSound' /\ QueueHasHolder' /\ QueueOrdered'
BY DEF ListsSound, ListSound, HoldListSound, QueueHasHolder, QueueOrdered

\* A list that a step does not touch stays sound.
LEMMA ListKept ==
  ASSUME NEW i, ListSound(i),
         hold'[i] = hold[i], req'[i] = req[i], ahead'[i] = ahead[i], grantedMode'[i] = grantedMode[i]
  PROVE  ListSound(i)'
BY DEF ListSound, Requesters, Holders

-----------------------------------------------------------------------------
(* What is left of the locks of the others when t leaves itself out.        *)

LEMMA HoldModes ==
  ASSUME TypeInv, NEW i \in Items
  PROVE  /\ {hold[i][u] : u \in Trans} \in SUBSET LockMode
         /\ \A T \in SUBSET Trans : {hold[i][u] : u \in T} \in SUBSET LockMode
BY DEF TypeInv, TypeOK

\* Transactions without a node do not count in the representative mode.
LEMMA JoinOfHolders ==
  ASSUME TypeInv, NEW i \in Items, NEW T \in SUBSET Trans
  PROVE  Join({hold[i][u] : u \in T}) = Join({hold[i][u] : u \in Holders(i) \cap T})
<1>1. CASE T \subseteq Holders(i)
  <2>1. Holders(i) \cap T = T
    BY <1>1
  <2> QED
    BY <2>1
<1>2. CASE ~(T \subseteq Holders(i))
  <2> DEFINE M == {hold[i][u] : u \in Holders(i) \cap T}
  <2>1. {hold[i][u] : u \in T} = M \cup {"NONE"}
    BY <1>2 DEF Holders
  <2>2. M \in SUBSET LockMode
    BY HoldModes
  <2>3. "NONE" \in LockMode
    BY DEF LockMode
  <2> HIDE DEF M
  <2>4. Join(M \cup {"NONE"}) = Join(M)
    BY <2>2, <2>3, ConversionExtendsJoin
  <2> QED
    BY <2>1, <2>4 DEF M
<1> QED
  BY <1>1, <1>2

\* What a grant compares with is the join of the locks of all the others.
LEMMA GrantedToOthersIsJoin ==
  ASSUME TypeInv, NEW i \in Items, NEW t \in Trans, ListSound(i)
  PROVE  GrantedToOthers(i, t) = Join({hold[i][u] : u \in Trans \ {t}})
<1>1. Trans \ {t} \in SUBSET Trans /\ Trans \in SUBSET Trans
  OBVIOUS
<1>2. Join({hold[i][u] : u \in Trans \ {t}}) = Join({hold[i][u] : u \in Holders(i) \cap (Trans \ {t})})
  BY <1>1, JoinOfHolders
<1>3. CASE t \in Holders(i)
  <2>1. Holders(i) \cap (Trans \ {t}) = Holders(i) \ {t}
    BY DEF Holders
  <2> QED
    BY <1>2, <1>3, <2>1 DEF GrantedToOthers
<1>4. CASE t \notin Holders(i)
  <2>1. Holders(i) \cap (Trans \ {t}) = Holders(i) \cap Trans
    BY <1>4
  <2>2. Join({hold[i][u] : u \in Trans}) = Join({hold[i][u] : u \in Holders(i) \cap Trans})
    BY <1>1, JoinOfHolders
  <2>3. GrantedToOthers(i, t) = grantedMode[i] /\ grantedMode[i] = Join({hold[i][u] : u \in Trans})
    BY <1>4 DEF GrantedToOthers, ListSound
  <2> QED
    BY <1>2, <2>1, <2>2, <2>3
<1> QED
  BY <1>3, <1>4

\* A lock that conflicts with the others conflicts with one of them.
LEMMA ConflictHasHolder ==
  ASSUME TypeInv, NEW i \in Items, NEW t \in Trans, NEW m \in LockMode, ListSound(i),
         ~Compatible(GrantedToOthers(i, t), m)
  PROVE  Holders(i) \ {t} # {}
<1> SUFFICES ASSUME Holders(i) \ {t} = {} PROVE FALSE
  OBVIOUS
<1>1. {hold[i][u] : u \in Trans \ {t}} \subseteq {"NONE"}
  BY DEF Holders
<1>2. Join({hold[i][u] : u \in Trans \ {t}}) = "NONE"
  BY <1>1 DEF Join
<1> QED
  BY <1>2, GrantedToOthersIsJoin, NoneIsNeutral

-----------------------------------------------------------------------------
(* Releases.                                                                *)

\* All that a release of t's node on i means to the rest of the system.
Released(t, i) ==
  /\ \A j \in Items \ {i} : /\ hold'[j] = hold[j] /\ req'[j] = req[j] /\ ahead'[j] = ahead[j]
                            /\ grantedMode'[j] = grantedMode[j] /\ pessimistic'[j] = pessimistic[j]
  /\ done' = [done EXCEPT ![i][t] = "NONE"]
  /\ \A u \in Trans \ {t} : Covers(hold'[i][u], hold[i][u])
  /\ \A u \in Trans : hold'[i][u] # "NONE" => pessimistic'[i]
  /\ \E R \in SUBSET Requesters(i) :
       /\ \A r \in Trans : req'[i][r] = IF r \in R THEN "NONE" ELSE req[i][r]
       /\ sem' = [r \in Trans |-> IF r \in R THEN sem[r] + 1 ELSE sem[r]]
       /\ i \notin beFree => \A r \in R : Covers(hold'[i][r], req[i][r])
  /\ ListSound(i)'

\* The transactions behind the queue never release anything themselves.
NotQueued(t) == \A i \in Items : t \notin Requesters(i)

LEMMA ReleaseDroppedSound ==
  ASSUME TypeInv, NEW t \in Trans, NEW i \in Items, LockInv, ReleaseDropped(t, i)
  PROVE  Released(t, i)
<1>1. /\ hold' = [hold EXCEPT ![i][t] = "NONE"] /\ Holders(i) = {t}
      /\ Unlink(i, Requesters(i)) /\ Signal(Requesters(i)) /\ i \in beFree
      /\ grantedMode' = [grantedMode EXCEPT ![i] = "NONE"]
      /\ pessimistic' = [pessimistic EXCEPT ![i] = FALSE]
      /\ done' = [done EXCEPT ![i][t] = "NONE"]
  BY DEF ReleaseDropped, DropNode
<1>2. \A u \in Trans : hold'[i][u] = "NONE"
  BY <1>1 DEF TypeInv, TypeOK, Holders
<1>3. \A u \in Trans : req'[i][u] = "NONE"
  BY <1>1 DEF TypeInv, TypeOK, Unlink, Requesters
<1>4. ListSound(i)'
  <2>1. {hold'[i][u] : u \in Trans} = {"NONE"}
    BY <1>2, TransType
  <2>2. grantedMode'[i] = "NONE"
    BY <1>1 DEF TypeInv, TypeOK
  <2>3. Requesters(i)' = {}
    BY <1>3 DEF Requesters
  <2>4. Compatible("NONE", "NONE")
    BY DEF Compatible
  <2> QED
    BY <1>2, <2>1, <2>2, <2>3, <2>4, JoinOfNone DEF ListSound
<1>5. \A u \in Trans \ {t} : Covers(hold'[i][u], hold[i][u])
  BY <1>1, <1>2 DEF Holders, Covers
<1>6. \A j \in Items \ {i} : /\ hold'[j] = hold[j] /\ req'[j] = req[j] /\ ahead'[j] = ahead[j]
                             /\ grantedMode'[j] = grantedMode[j] /\ pessimistic'[j] = pessimistic[j]
  BY <1>1 DEF TypeInv, TypeOK, Unlink
<1>7. /\ \A r \in Trans : req'[i][r] = IF r \in Requesters(i) THEN "NONE" ELSE req[i][r]
      /\ sem' = [r \in Trans |-> IF r \in Requesters(i) THEN sem[r] + 1 ELSE sem[r]]
  BY <1>1, <1>3 DEF Signal, Requesters
<1> QED
  BY <1>1, <1>2, <1>4, <1>5, <1>6, <1>7 DEF Released

\* Two requests of one batch do not conflict: the later one was compared with a
\* join that the earlier one is part of.
LEMMA BatchIsCompatible ==
  ASSUME TypeInv, NEW i \in Items, NEW G \in SUBSET Requesters(i), IsBatch(i, G), QueueOrdered,
         NEW r \in G, NEW s \in G, r # s
  PROVE  Compatible(req[i][r], req[i][s])
<1>1. \A a, b \in G : a # b /\ a \in ahead[i][b] => Compatible(req[i][a], req[i][b])
  <2> SUFFICES ASSUME NEW a \in G, NEW b \in G, a # b, a \in ahead[i][b]
               PROVE  Compatible(req[i][a], req[i][b])
    OBVIOUS
  <2> DEFINE M == {req[i][g] : g \in G \cap ahead[i][b]}
  <2>1. b \in Requesters(i) /\ Compatible(Join(M), req[i][b])
    BY DEF IsBatch
  <2>2. M \in SUBSET LockMode /\ req[i][a] \in M /\ req[i][b] \in LockMode
    BY DEF TypeInv, TypeOK, Requesters
  <2> HIDE DEF M
  <2> QED
    BY <2>1, <2>2, RepresentativeDecidesForAll
<1>2. r \in ahead[i][s] \/ s \in ahead[i][r]
  BY DEF QueueOrdered
<1>3. req[i][r] \in LockMode /\ req[i][s] \in LockMode
  BY DEF TypeInv, TypeOK, Requesters
<1> QED
  BY <1>1, <1>2, <1>3, CompatibleSymmetric

\* A request is left behind only because somebody else of the queue got in.
LEMMA LeftBehindHasHolder ==
  ASSUME TypeInv, NEW i \in Items, NEW G \in SUBSET Requesters(i), IsBatch(i, G),
         NEW r \in Requesters(i), r \notin G
  PROVE  G \ {r} # {}
<1> SUFFICES ASSUME G = {} PROVE FALSE
  OBVIOUS
<1>1. {req[i][g] : g \in G \cap ahead[i][r]} = {}
  OBVIOUS
<1>2. ~Compatible("NONE", req[i][r])
  BY <1>1, JoinOfNone DEF IsBatch
<1> QED
  BY <1>2 DEF Compatible

LEMMA ReleaseToQueueSound ==
  ASSUME TypeInv, NEW t \in Trans, NEW i \in Items, LockInv, NotQueued(t), ReleaseToQueue(t, i)
  PROVE  Released(t, i)
<1>1. PICK G \in SUBSET Requesters(i) :
        /\ IsBatch(i, G)
        /\ hold' = [hold EXCEPT ![i] = [r \in Trans |-> IF r \in G THEN req[i][r] ELSE "NONE"]]
        /\ Unlink(i, G) /\ Signal(G)
        /\ grantedMode' = [grantedMode EXCEPT ![i] = Join({req[i][g] : g \in G})]
        /\ pessimistic' = [pessimistic EXCEPT ![i] = G # {}]
  BY DEF ReleaseToQueue
<1>2. Holders(i) = {t} /\ i \notin beFree /\ done' = [done EXCEPT ![i][t] = "NONE"]
  BY DEF ReleaseToQueue, DropNode
<1>3. G \subseteq Trans /\ \A g \in G : req[i][g] # "NONE" /\ req[i][g] \in LockMode
  BY DEF Requesters, TypeInv, TypeOK
<1>4. \A r \in Trans : hold'[i][r] = IF r \in G THEN req[i][r] ELSE "NONE"
  BY <1>1 DEF TypeInv, TypeOK
<1>5. \A r \in Trans : /\ req'[i][r]   = IF r \in G THEN "NONE" ELSE req[i][r]
                       /\ ahead'[i][r] = IF r \in G THEN {} ELSE ahead[i][r] \ G
  BY <1>1 DEF TypeInv, TypeOK, Unlink
<1>6. Requesters(i)' = Requesters(i) \ G /\ Holders(i)' = G
  BY <1>3, <1>4, <1>5 DEF Requesters, Holders
<1>7. ListSound(i)'
  <2>1. \A r, s \in Trans : r # s => Compatible(hold'[i][r], hold'[i][s])
    <3> SUFFICES ASSUME NEW r \in Trans, NEW s \in Trans, r # s
                 PROVE  Compatible(hold'[i][r], hold'[i][s])
      OBVIOUS
    <3>1. CASE r \in G /\ s \in G
      BY <1>1, <1>4, <3>1, BatchIsCompatible DEF LockInv
    <3>2. CASE r \notin G \/ s \notin G
      BY <1>4, <3>2 DEF Compatible
    <3> QED
      BY <3>1, <3>2
  <2>2. grantedMode'[i] = Join({hold'[i][r] : r \in Trans})
    <3> DEFINE M == {req[i][g] : g \in G}
    <3>1. M \in SUBSET LockMode /\ "NONE" \in LockMode
      BY <1>3 DEF LockMode
    <3>2. {hold'[i][r] : r \in Trans} = M \cup {"NONE"}
      <4>1. t \in Trans \ G
        BY DEF NotQueued
      <4> QED
        BY <1>3, <1>4, <4>1
    <3>3. grantedMode'[i] = Join(M)
      BY <1>1 DEF TypeInv, TypeOK
    <3> HIDE DEF M
    <3>4. Join(M \cup {"NONE"}) = Join(M)
      BY <3>1, ConversionExtendsJoin
    <3> QED
      BY <3>2, <3>3, <3>4
  <2>3. \A r \in Requesters(i)' : Holders(i)' \ {r} # {}
    BY <1>1, <1>6, LeftBehindHasHolder
  <2>4. \A r, s \in Requesters(i)' : r # s => r \in ahead'[i][s] \/ s \in ahead'[i][r]
    BY <1>5, <1>6 DEF LockInv, QueueOrdered, Requesters
  <2> QED
    BY <2>1, <2>2, <2>3, <2>4 DEF ListSound
<1>8. \A u \in Trans \ {t} : Covers(hold'[i][u], hold[i][u])
  BY <1>2 DEF Holders, Covers
<1>9. \A u \in Trans : hold'[i][u] # "NONE" => pessimistic'[i]
  BY <1>1, <1>4 DEF TypeInv, TypeOK
<1>10. \A j \in Items \ {i} : /\ hold'[j] = hold[j] /\ req'[j] = req[j] /\ ahead'[j] = ahead[j]
                              /\ grantedMode'[j] = grantedMode[j] /\ pessimistic'[j] = pessimistic[j]
  BY <1>1 DEF TypeInv, TypeOK, Unlink
<1>11. \A r \in G : Covers(hold'[i][r], req[i][r])
  BY <1>3, <1>4 DEF Covers
<1>12. sem' = [r \in Trans |-> IF r \in G THEN sem[r] + 1 ELSE sem[r]]
  BY <1>1 DEF Signal
<1> QED
  BY <1>2, <1>5, <1>7, <1>8, <1>9, <1>10, <1>11, <1>12 DEF Released

LEMMA ReleaseToUpgradeSound ==
  ASSUME TypeInv, NEW t \in Trans, NEW i \in Items, LockInv, NotQueued(t), ReleaseToUpgrade(t, i)
  PROVE  Released(t, i)
<1>1. PICK h \in Requesters(i) :
        /\ Holders(i) = {t, h} /\ h # t
        /\ hold' = [hold EXCEPT ![i][t] = "NONE", ![i][h] = Conversion(req[i][h], hold[i][h])]
        /\ grantedMode' = [grantedMode EXCEPT ![i] = Conversion(req[i][h], hold[i][h])]
        /\ Unlink(i, {h}) /\ Signal({h})
  BY DEF ReleaseToUpgrade
<1>2. UNCHANGED pessimistic /\ done' = [done EXCEPT ![i][t] = "NONE"]
  BY DEF ReleaseToUpgrade, DropNode
<1> DEFINE mode == Conversion(req[i][h], hold[i][h])
<1>3. /\ h \in Trans /\ req[i][h] \in LockMode /\ hold[i][h] \in LockMode /\ hold[i][h] # "NONE"
      /\ mode \in LockMode
  BY <1>1, ConversionType DEF Requesters, Holders, TypeInv, TypeOK
<1>4. \A r \in Trans : hold'[i][r] = IF r = h THEN mode ELSE "NONE"
  BY <1>1 DEF TypeInv, TypeOK, Holders
<1>5. /\ Covers(mode, hold[i][h]) /\ Covers(mode, req[i][h]) /\ mode # "NONE"
  BY <1>3, ConversionCovers DEF Covers
<1>6. grantedMode'[i] = mode
  BY <1>1 DEF TypeInv, TypeOK
<1>7. \A r \in Trans : /\ req'[i][r]   = IF r \in {h} THEN "NONE" ELSE req[i][r]
                       /\ ahead'[i][r] = IF r \in {h} THEN {} ELSE ahead[i][r] \ {h}
  BY <1>1 DEF TypeInv, TypeOK, Unlink
<1>8. \A j \in Items \ {i} : /\ hold'[j] = hold[j] /\ req'[j] = req[j] /\ ahead'[j] = ahead[j]
                             /\ grantedMode'[j] = grantedMode[j] /\ pessimistic'[j] = pessimistic[j]
  BY <1>1, <1>2 DEF TypeInv, TypeOK, Unlink
<1>9. Requesters(i)' = Requesters(i) \ {h} /\ Holders(i)' = {h}
  BY <1>3, <1>4, <1>5, <1>7 DEF Requesters, Holders
<1> HIDE DEF mode
<1>10. ListSound(i)'
  <2>1. \A r, s \in Trans : r # s => Compatible(hold'[i][r], hold'[i][s])
    BY <1>4 DEF Compatible
  <2>2. {hold'[i][r] : r \in Trans} = {mode, "NONE"}
    BY <1>1, <1>3, <1>4
  <2>3. grantedMode'[i] = Join({hold'[i][r] : r \in Trans})
    BY <1>3, <1>6, <2>2, JoinOfOne
  <2>4. \A r, s \in Requesters(i)' : r # s => r \in ahead'[i][s] \/ s \in ahead'[i][r]
    BY <1>7, <1>9 DEF LockInv, QueueOrdered, Requesters
  <2> QED
    BY <1>9, <2>1, <2>3, <2>4 DEF ListSound
<1>11. \A u \in Trans \ {t} : Covers(hold'[i][u], hold[i][u])
  BY <1>1, <1>4, <1>5 DEF Holders, Covers
<1>12. \A u \in Trans : hold'[i][u] # "NONE" => pessimistic'[i]
  BY <1>2, <1>3, <1>4 DEF LockInv, NodesBackLocks
<1>13. \A r \in {h} : Covers(hold'[i][r], req[i][r])
  BY <1>3, <1>4, <1>5
<1>14. sem' = [r \in Trans |-> IF r \in {h} THEN sem[r] + 1 ELSE sem[r]]
  BY <1>1 DEF Signal
<1>15. {h} \in SUBSET Requesters(i)
  BY <1>1
<1> QED
  BY <1>2, <1>7, <1>8, <1>10, <1>11, <1>12, <1>13, <1>14, <1>15 DEF Released

LEMMA ReleaseToHoldersSound ==
  ASSUME TypeInv, NEW t \in Trans, NEW i \in Items, LockInv, NotQueued(t), ReleaseToHolders(t, i)
  PROVE  Released(t, i)
<1>1. /\ Holders(i) # {t} /\ t \in Holders(i)
      /\ \A h \in Requesters(i) : Holders(i) # {t, h}
      /\ hold' = [hold EXCEPT ![i][t] = "NONE"]
      /\ grantedMode' = [grantedMode EXCEPT ![i] = Join({hold[i][u] : u \in Holders(i) \ {t}})]
      /\ UNCHANGED <<req, ahead, sem, pessimistic>>
      /\ done' = [done EXCEPT ![i][t] = "NONE"]
  BY DEF ReleaseToHolders, DropNode, Holders
<1>2. \A r \in Trans : hold'[i][r] = IF r = t THEN "NONE" ELSE hold[i][r]
  BY <1>1 DEF TypeInv, TypeOK
<1>3. Holders(i)' = Holders(i) \ {t} /\ Requesters(i)' = Requesters(i)
  BY <1>1, <1>2 DEF Holders, Requesters
<1>4. ListSound(i) /\ HoldListSound /\ QueueHasHolder /\ QueueOrdered
  BY ListsSoundDef DEF ListsSound, LockInv
<1>5. ListSound(i)'
  <2>1. \A r, s \in Trans : r # s => Compatible(hold'[i][r], hold'[i][s])
    BY <1>2, <1>4 DEF ListSound, Compatible
  <2>2. grantedMode'[i] = Join({hold'[i][r] : r \in Trans})
    <3> DEFINE M == {hold[i][u] : u \in Holders(i) \ {t}}
    <3>1. M \in SUBSET LockMode /\ "NONE" \in LockMode
      BY DEF TypeInv, TypeOK, Holders, LockMode
    <3>2. {hold'[i][r] : r \in Trans} = M \cup {"NONE"}
      BY <1>2 DEF Holders
    <3>3. grantedMode'[i] = Join(M)
      BY <1>1 DEF TypeInv, TypeOK
    <3> HIDE DEF M
    <3>4. Join(M \cup {"NONE"}) = Join(M)
      BY <3>1, ConversionExtendsJoin
    <3> QED
      BY <3>2, <3>3, <3>4
  <2>3. \A r \in Requesters(i)' : Holders(i)' \ {r} # {}
    <3> SUFFICES ASSUME NEW r \in Requesters(i), (Holders(i) \ {t}) \ {r} = {}
                 PROVE  FALSE
      BY <1>3
    <3>1. r # t
      BY DEF NotQueued
    <3>2. Holders(i) \subseteq {t, r} /\ t \in Holders(i)
      BY <1>1
    <3>3. Holders(i) = {t} \/ Holders(i) = {t, r}
      BY <3>2
    <3> QED
      BY <1>1, <3>3
  <2>4. \A r, s \in Requesters(i)' : r # s => r \in ahead'[i][s] \/ s \in ahead'[i][r]
    BY <1>1, <1>3, <1>4 DEF QueueOrdered
  <2> QED
    BY <2>1, <2>2, <2>3, <2>4 DEF ListSound
<1>6. \A u \in Trans \ {t} : Covers(hold'[i][u], hold[i][u])
  BY <1>2 DEF Covers
<1>7. \A u \in Trans : hold'[i][u] # "NONE" => pessimistic'[i]
  BY <1>1, <1>2 DEF LockInv, NodesBackLocks
<1>8. \A j \in Items \ {i} : /\ hold'[j] = hold[j] /\ req'[j] = req[j] /\ ahead'[j] = ahead[j]
                             /\ grantedMode'[j] = grantedMode[j] /\ pessimistic'[j] = pessimistic[j]
  BY <1>1 DEF TypeInv, TypeOK
<1> DEFINE R == {}
<1>9. /\ R \in SUBSET Requesters(i)
      /\ \A r \in Trans : req'[i][r] = IF r \in R THEN "NONE" ELSE req[i][r]
      /\ sem' = [r \in Trans |-> IF r \in R THEN sem[r] + 1 ELSE sem[r]]
      /\ \A r \in R : Covers(hold'[i][r], req[i][r])
  <2>1. sem = [r \in Trans |-> sem[r]]
    BY DEF TypeInv, TypeOK
  <2>2. sem' = sem /\ req' = req
    BY <1>1
  <2>3. [r \in Trans |-> IF r \in R THEN sem[r] + 1 ELSE sem[r]] = [r \in Trans |-> sem[r]]
    OBVIOUS
  <2> QED
    BY <2>1, <2>2, <2>3
<1> HIDE DEF R
<1> QED
  BY <1>1, <1>5, <1>6, <1>7, <1>8, <1>9 DEF Released

LEMMA ReleaseNodeSound ==
  ASSUME TypeInv, NEW t \in Trans, NEW i \in Items, LockInv, NotQueued(t), ReleaseNode(t, i)
  PROVE  Released(t, i)
BY ReleaseDroppedSound, ReleaseToQueueSound, ReleaseToUpgradeSound, ReleaseToHoldersSound
DEF ReleaseNode

-----------------------------------------------------------------------------
(* What steps of others leave of a call.                                    *)

CallsSound == \A t \in Trans : CallSound(t)

\* A call stays sound as long as its node is not taken from it, no optimistic
\* lock comes up in its way, and whoever takes its request out of the list gives
\* it the lock.
LEMMA CallKept ==
  ASSUME TypeInv, NEW u \in Trans, CallSound(u), pc'[u] = pc[u], call'[u] = call[u],
         NEW i, i = call[u].item,
         pc[u] \in LockCall =>
           /\ Covers(hold[i][u], call[u].mode) => Covers(hold'[i][u], call[u].mode)
           /\ \A v \in Trans : intent'[i][v] \in {intent[i][v], "NONE"}
           /\ i \in beFree => i \in beFree'
           /\ \/ req'[i][u] = req[i][u]
              \/ i \notin beFree' => Covers(hold'[i][u], call[u].mode)
  PROVE  CallSound(u)'
<1>1. call[u].target \in Trans
  BY TargetType
<1>2. CASE pc[u] \notin LockCall
  BY <1>2 DEF CallSound, LockCall, SlotPolling
<1>3. CASE pc[u] \in LockCall
  <2>1. call'[u].item = i /\ call'[u].mode = call[u].mode /\ call'[u].target = call[u].target
    OBVIOUS
  <2> DEFINE scanning == pc[u] \in {"slotEnter", "slotDone"} \cup SlotPolling
             woken    == \/ pc[u] = "resumed"
                         \/ pc[u] \in {"blocked", "suspect"} /\ req[i][u] = "NONE"
             wokenNow == \/ pc[u] = "resumed"
                         \/ pc[u] \in {"blocked", "suspect"} /\ req'[i][u] = "NONE"
  <2>2. scanning \/ (wokenNow /\ i \notin beFree') => Covers(hold'[i][u], call[u].mode)
    BY <1>3 DEF CallSound
  <2>3. scanning => \A v \in Trans \ {u} : v < call[u].target => Compatible(intent'[i][v], call[u].mode)
    BY <1>3 DEF CallSound, Compatible
  <2>4. (pc[u] \in SlotPolling /\ call[u].gone) \/ pc[u] = "slotDone" => intent'[i][call[u].target] = "NONE"
    BY <1>1, <1>3 DEF CallSound
  <2> QED
    BY <2>1, <2>2, <2>3, <2>4 DEF CallSound, SlotPolling
<1> QED
  BY <1>2, <1>3

\* A step of t that touches no list, node, lock or optimistic lock.
LEMMA QuietStep ==
  ASSUME TypeInv, LockInv, NEW t \in Trans,
         UNCHANGED <<hold, req, ahead, grantedMode, done, intent, sem>>,
         \A i \in Items : pessimistic[i] => pessimistic'[i],
         \A u \in Trans \ {t} : /\ pc'[u] = pc[u]
                                /\ pc[u] \in Queued => call'[u] = call[u],
         pc[t] \in Queued <=> pc'[t] \in Queued,
         pc[t] \in Queued => call'[t] = call[t],
         CallsSound'
  PROVE  LockInv'
<1>1. HoldListSound' /\ QueueHasHolder' /\ QueueOrdered'
  <2>1. ASSUME NEW i \in Items PROVE ListSound(i)'
    <3>1. ListSound(i)
      BY ListsSoundDef DEF LockInv, ListsSound
    <3> QED
      BY <3>1, ListKept
  <2> QED
    BY <2>1, ListsSoundPrimed DEF ListsSound
<1>2. RequestsAreCalls'
  BY DEF LockInv, RequestsAreCalls, Requesters
<1>3. SignalMatchesQueue'
  BY DEF LockInv, SignalMatchesQueue, Queued
<1>4. NodesBackLocks'
  BY DEF LockInv, NodesBackLocks
<1> QED
  BY <1>1, <1>2, <1>3, <1>4 DEF LockInv, CallsSound

\* A step that only moves the call of t.
LEMMA OwnStep ==
  ASSUME TypeInv, LockInv, NEW t \in Trans,
         UNCHANGED <<hold, req, ahead, grantedMode, done, intent, sem, beFree>>,
         \A i \in Items : pessimistic[i] => pessimistic'[i],
         \A u \in Trans \ {t} : pc'[u] = pc[u] /\ call'[u] = call[u],
         pc[t] \in Queued <=> pc'[t] \in Queued,
         pc[t] \in Queued => call'[t] = call[t],
         CallSound(t)'
  PROVE  LockInv'
<1>1. ASSUME NEW u \in Trans \ {t} PROVE CallSound(u)'
  BY CallKept DEF LockInv
<1>2. CallsSound'
  BY <1>1 DEF CallsSound
<1> QED
  BY <1>2, QuietStep

\* A call that ends, or has not asked for the lock yet, promises nothing.
LEMMA NoCallSound ==
  ASSUME NEW t \in Trans, pc'[t] \in PC \ LockCall \/ pc'[t] \in {"escalate", "victim", "expired"}
  PROVE  CallSound(t)'
BY DEF CallSound, LockCall, SlotPolling

\* The steps that only move t between states without a lock call.
LEMMA PlainSteps ==
  ASSUME TypeInv, LockInv, NEW t \in Trans,
         \/ Begin(t) \/ EndTrans(t) \/ StartUnlock(t) \/ ResetWaitSlot(t)
         \/ Savepoint(t) \/ RollbackToSavepoint(t) \/ UndoDone(t) \/ RowEnter(t)
  PROVE  LockInv'
<1>1. /\ UNCHANGED <<hold, req, ahead, grantedMode, done, intent, sem, beFree, pessimistic, call>>
      /\ pc[t] \in PC \ LockCall /\ pc'[t] \in PC \ LockCall
      /\ \A u \in Trans \ {t} : pc'[u] = pc[u]
  BY DEF TypeInv, TypeOK, Begin, EndTrans, StartUnlock, ResetWaitSlot, Savepoint,
         RollbackToSavepoint, UndoDone, RowEnter, At, PC, LockCall
<1>2. CallSound(t)'
  BY <1>1, NoCallSound
<1> QED
  BY <1>1, <1>2, OwnStep DEF LockCall, Queued

\* The steps that end a call outside the queue and leave the item as it is, but
\* for the optimistic path that a refused request has shut.
LEMMA EndedCalls ==
  ASSUME TypeInv, LockInv, NEW t \in Trans, pc[t] \notin Queued, EndCall(t),
         UNCHANGED <<hold, req, ahead, grantedMode, done, intent, sem, beFree>>,
         \A i \in Items : pessimistic[i] => pessimistic'[i]
  PROVE  LockInv'
<1>1. pc'[t] = "active" /\ \A u \in Trans \ {t} : pc'[u] = pc[u] /\ call'[u] = call[u]
  BY DEF TypeInv, TypeOK, EndCall
<1>2. CallSound(t)'
  BY <1>1, NoCallSound DEF PC, LockCall
<1> QED
  BY <1>1, <1>2, OwnStep DEF Queued

LEMMA DroppedItemSound ==
  ASSUME TypeInv, LockInv, NEW t \in Trans, DroppedItem(t)
  PROVE  LockInv'
BY EndedCalls DEF DroppedItem, Queued

LEMMA RefuseSound ==
  ASSUME TypeInv, LockInv, NEW t \in Trans, Refuse(t)
  PROVE  LockInv'
<1>1. \A i \in Items : pessimistic[i] => pessimistic'[i]
  BY DEF TypeInv, TypeOK, Refuse
<1> QED
  BY <1>1, EndedCalls DEF Refuse, Queued

LEMMA ExpireSlotSound ==
  ASSUME TypeInv, LockInv, NEW t \in Trans, ExpireSlot(t) \/ (LeaveRow(t) /\ pc[t] = "rowPoll")
  PROVE  LockInv'
BY EndedCalls DEF ExpireSlot, LeaveRow, Queued

LEMMA RowConfirmSound ==
  ASSUME TypeInv, LockInv, NEW t \in Trans, RowConfirm(t)
  PROVE  LockInv'
<1>1. CASE EndCall(t)
  BY <1>1, EndedCalls DEF RowConfirm, Queued
<1>2. CASE At(t, "rowPoll") /\ UNCHANGED <<edge, call>>
  <2>1. pc'[t] = "rowPoll" /\ pc[t] = "rowSuspect" /\ \A u \in Trans \ {t} : pc'[u] = pc[u]
    BY <1>2 DEF RowConfirm, At, TypeInv, TypeOK
  <2>2. CallSound(t)'
    BY <2>1, NoCallSound DEF PC, LockCall
  <2> QED
    BY <1>2, <2>1, <2>2, OwnStep DEF RowConfirm, Queued
<1> QED
  BY <1>1, <1>2 DEF RowConfirm

LEMMA RowConflictSound ==
  ASSUME TypeInv, LockInv, NEW t \in Trans, NEW u \in Trans, RowConflict(t, u)
  PROVE  LockInv'
<1>1. /\ pc[t] = "active" /\ pc'[t] = "rowWait"
      /\ \A v \in Trans \ {t} : pc'[v] = pc[v] /\ call'[v] = call[v]
      /\ UNCHANGED <<hold, req, ahead, grantedMode, done, intent, sem, beFree, pessimistic>>
  BY DEF RowConflict, At, TypeInv, TypeOK
<1>2. CallSound(t)'
  BY <1>1, NoCallSound DEF PC, LockCall
<1> QED
  BY <1>1, <1>2, OwnStep DEF Queued

LEMMA EnterPessimisticSound ==
  ASSUME TypeInv, LockInv, NEW t \in Trans, NEW i, NEW m, NEW nowait, EnterPessimistic(t, i, m, nowait)
  PROVE  LockInv'
<1>1. /\ pc[t] = "active" /\ pc'[t] = "escalate"
      /\ \A v \in Trans \ {t} : pc'[v] = pc[v] /\ call'[v] = call[v]
      /\ UNCHANGED <<hold, req, ahead, grantedMode, done, intent, sem, beFree, pessimistic>>
  BY DEF EnterPessimistic, At, TypeInv, TypeOK
<1>2. CallSound(t)'
  BY <1>1, NoCallSound
<1> QED
  BY <1>1, <1>2, OwnStep DEF Queued

\* The steps of a queued call that stays queued.
LEMMA SuspectSound ==
  ASSUME TypeInv, LockInv, NEW t \in Trans, Suspect(t)
  PROVE  LockInv'
<1>1. /\ UNCHANGED <<hold, req, ahead, grantedMode, done, intent, sem, beFree, pessimistic, call>>
      /\ \A v \in Trans \ {t} : pc'[v] = pc[v]
      /\ \/ pc[t] = "blocked"  /\ pc'[t] = "suspect"
         \/ pc[t] = "slotWait" /\ pc'[t] = "slotSuspect"
         \/ pc[t] = "rowPoll"  /\ pc'[t] = "rowSuspect"
  BY DEF Suspect, At, TypeInv, TypeOK
<1>2. CallSound(t)
  BY DEF LockInv
<1>3. CallSound(t)'
  BY <1>1, <1>2 DEF CallSound, SlotPolling
<1> QED
  BY <1>1, <1>3, OwnStep DEF Queued

LEMMA ConfirmSound ==
  ASSUME TypeInv, LockInv, NEW t \in Trans, Confirm(t) \/ Expire(t)
  PROVE  LockInv'
<1>1. /\ UNCHANGED <<hold, req, ahead, grantedMode, done, intent, sem, beFree, pessimistic, call>>
      /\ \A v \in Trans \ {t} : pc'[v] = pc[v]
      /\ \/ pc[t] \in Queued /\ pc'[t] \in {"victim", "expired"}
         \/ pc[t] = "suspect" /\ pc'[t] = "blocked"
  BY DEF Confirm, Expire, At, TypeInv, TypeOK, Queued
<1>2. CallSound(t)
  BY DEF LockInv
<1>3. CallSound(t)'
  BY <1>1, <1>2 DEF CallSound, SlotPolling
<1> QED
  BY <1>1, <1>3, OwnStep DEF Queued

\* The wait on another slot.
LEMMA SlotEnterSound ==
  ASSUME TypeInv, LockInv, NEW t \in Trans, SlotEnter(t)
  PROVE  LockInv'
<1>1. /\ UNCHANGED <<hold, req, ahead, grantedMode, done, intent, sem, beFree, pessimistic>>
      /\ \A v \in Trans \ {t} : pc'[v] = pc[v] /\ call'[v] = call[v]
      /\ pc[t] = "slotEnter" /\ pc'[t] = "slotWait"
      /\ call[t] \in Call /\ call'[t] = [call[t] EXCEPT !.gone = FALSE]
  BY DEF SlotEnter, At, TypeInv, TypeOK
<1>2. /\ call'[t].item = call[t].item /\ call'[t].mode = call[t].mode
      /\ call'[t].target = call[t].target /\ call'[t].gone = FALSE
  BY <1>1 DEF Call
<1>3. CallSound(t)
  BY DEF LockInv
<1>4. CallSound(t)'
  BY <1>1, <1>2, <1>3 DEF CallSound, SlotPolling
<1> QED
  BY <1>1, <1>4, OwnStep DEF Queued

LEMMA SlotFreedSound ==
  ASSUME TypeInv, LockInv, NEW t \in Trans, SlotFreed(t)
  PROVE  LockInv'
<1>1. /\ UNCHANGED <<hold, req, ahead, grantedMode, done, intent, sem, beFree, pessimistic, call>>
      /\ \A v \in Trans \ {t} : pc'[v] = pc[v]
      /\ pc[t] = "slotWait" /\ pc'[t] = "slotDone"
      /\ call[t].gone \/ intent[call[t].item][call[t].target] = "NONE"
  BY DEF SlotFreed, At, TypeInv, TypeOK
<1>2. CallSound(t)
  BY DEF LockInv
<1>3. CallSound(t)'
  BY <1>1, <1>2 DEF CallSound, SlotPolling
<1> QED
  BY <1>1, <1>3, OwnStep DEF Queued

LEMMA SlotConfirmSound ==
  ASSUME TypeInv, LockInv, NEW t \in Trans, SlotConfirm(t)
  PROVE  LockInv'
<1>1. CASE EndCall(t)
  BY <1>1, EndedCalls DEF SlotConfirm, Queued
<1>2. CASE At(t, "slotEnter") /\ UNCHANGED <<edge, call>>
  <2>1. /\ UNCHANGED <<hold, req, ahead, grantedMode, done, intent, sem, beFree, pessimistic, call>>
        /\ \A v \in Trans \ {t} : pc'[v] = pc[v]
        /\ pc[t] = "slotSuspect" /\ pc'[t] = "slotEnter"
    BY <1>2 DEF SlotConfirm, At, TypeInv, TypeOK
  <2>2. CallSound(t)
    BY DEF LockInv
  <2>3. CallSound(t)'
    BY <2>1, <2>2 DEF CallSound, SlotPolling
  <2> QED
    BY <2>1, <2>3, OwnStep DEF Queued
<1> QED
  BY <1>1, <1>2 DEF SlotConfirm

\* A slot is given up only when none of its optimistic locks is left, which is
\* what those who poll it may conclude from its reuse.
LEMMA FreeTransSound ==
  ASSUME TypeInv, LockInv, NEW t \in Trans, FreeTrans(t)
  PROVE  LockInv'
<1>1. /\ UNCHANGED <<hold, req, ahead, grantedMode, done, intent, sem, beFree, pessimistic>>
      /\ \A v \in Trans \ {t} : pc'[v] = pc[v]
      /\ pc[t] = "intents" /\ pc'[t] = "idle"
      /\ \A i \in Items : intent[i][t] = "NONE"
  BY DEF FreeTrans, At, TypeInv, TypeOK
<1>2. ASSUME NEW u \in Trans \ {t} PROVE CallSound(u)'
  <2>1. CallSound(u) /\ call[u] \in Call /\ call[u].target \in Trans
    BY TargetType DEF LockInv, TypeInv, TypeOK
  <2>2. CASE call[u].target = t /\ pc[u] \in SlotPolling \cup RowPolling
    <3>1. call'[u] = [call[u] EXCEPT !.gone = TRUE]
      BY <2>2 DEF FreeTrans
    <3>2. /\ call'[u].item = call[u].item /\ call'[u].mode = call[u].mode
          /\ call'[u].target = t
      BY <2>1, <2>2, <3>1 DEF Call
    <3>3. pc[u] \in LockCall => call[u].item \in Items
      BY LockCallType
    <3> QED
      BY <1>1, <2>1, <2>2, <3>2, <3>3 DEF CallSound, SlotPolling, LockCall
  <2>3. CASE ~(call[u].target = t /\ pc[u] \in SlotPolling \cup RowPolling)
    <3>1. call'[u] = call[u]
      BY <2>3 DEF FreeTrans
    <3> QED
      BY <1>1, <2>1, <3>1, CallKept
  <2> QED
    BY <2>2, <2>3
<1>3. CallSound(t)'
  BY <1>1, NoCallSound DEF PC, LockCall
<1>4. CallsSound'
  BY <1>2, <1>3 DEF CallsSound
<1>5. \A u \in Trans \ {t} : pc[u] \in Queued => call'[u] = call[u]
  BY DEF FreeTrans, Queued, SlotPolling, RowPolling
<1> QED
  BY <1>1, <1>4, <1>5, QuietStep DEF Queued

-----------------------------------------------------------------------------
(* The queue.                                                               *)

LEMMA EnqueueSound ==
  ASSUME TypeInv, LockInv, NEW t \in Trans, Enqueue(t)
  PROVE  LockInv'
<1>i. PICK i \in Items : i = call[t].item
  BY LockCallType DEF Enqueue, LockCall
<1>1. i \in Items /\ call[t].mode \in LockMode /\ call[t].mode # "NONE" /\ pc[t] = "escalate"
  BY LockCallType DEF Enqueue, LockCall
<1>2. /\ req'   = [req EXCEPT ![i][t] = call[t].mode]
      /\ ahead' = [ahead EXCEPT ![i][t] = Requesters(i)]
      /\ pessimistic' = [pessimistic EXCEPT ![i] = TRUE]
      /\ UNCHANGED <<hold, grantedMode, done, intent, beFree, sem, call>>
      /\ ~Grantable(t)
  BY <1>i DEF Enqueue
<1>3. pc'[t] = "blocked" /\ \A u \in Trans \ {t} : pc'[u] = pc[u]
  BY DEF Enqueue, At, TypeInv, TypeOK
<1>4. HoldListSound /\ QueueHasHolder /\ QueueOrdered /\ ListSound(i)
  BY <1>1, ListsSoundDef DEF LockInv, ListsSound
<1>5. NotQueued(t)
  BY <1>1 DEF LockInv, RequestsAreCalls, NotQueued, Queued
<1>6. \A j \in Items, u \in Trans :
        /\ req'[j][u]   = IF j = i /\ u = t THEN call[t].mode ELSE req[j][u]
        /\ ahead'[j][u] = IF j = i /\ u = t THEN Requesters(i) ELSE ahead[j][u]
  BY <1>1, <1>2 DEF TypeInv, TypeOK
<1>7. Requesters(i)' = Requesters(i) \cup {t} /\ Holders(i)' = Holders(i)
  <2>1. Holders(i)' = Holders(i)
    BY <1>2 DEF Holders
  <2>2. \A u \in Trans : req'[i][u] # "NONE" <=> req[i][u] # "NONE" \/ u = t
    BY <1>1, <1>6
  <2> QED
    BY <2>1, <2>2 DEF Requesters
<1>8. HoldListSound' /\ QueueHasHolder' /\ QueueOrdered'
  <2>1. ASSUME NEW j \in Items, j # i PROVE ListSound(j)'
    <3>1. ListSound(j) /\ hold'[j] = hold[j] /\ req'[j] = req[j] /\ ahead'[j] = ahead[j]
          /\ grantedMode'[j] = grantedMode[j]
      BY <1>1, <1>2, <1>4, <2>1, ListsSoundDef DEF ListsSound, TypeInv, TypeOK
    <3> QED
      BY <3>1, ListKept
  <2>2. Holders(i) \ {t} # {}
    BY <1>i, <1>1, <1>2, <1>4, ConflictHasHolder DEF Grantable
  <2>3. \A r \in Requesters(i)' : Holders(i)' \ {r} # {}
    BY <1>1, <1>4, <1>7, <2>2 DEF QueueHasHolder
  <2>4. \A r, s \in Requesters(i)' : r # s => r \in ahead'[i][s] \/ s \in ahead'[i][r]
    <3>1. \A r, s \in Requesters(i) : r # s => r \in ahead[i][s] \/ s \in ahead[i][r]
      BY <1>1, <1>4 DEF QueueOrdered
    <3>2. Requesters(i) \subseteq Trans /\ t \notin Requesters(i)
      BY <1>1, <1>5 DEF Requesters, NotQueued
    <3> QED
      BY <1>1, <1>6, <1>7, <3>1, <3>2
  <2>5. ListSound(i)'
    <3>1. /\ \A u, v \in Trans : u # v => Compatible(hold'[i][u], hold'[i][v])
          /\ grantedMode'[i] = Join({hold'[i][u] : u \in Trans})
      BY <1>2, <1>4 DEF ListSound
    <3> QED
      BY <3>1, <2>3, <2>4 DEF ListSound
  <2>6. ListsSound'
    BY <2>1, <2>5 DEF ListsSound
  <2> QED
    BY <2>6, ListsSoundPrimed
<1>9. RequestsAreCalls'
  BY <1>i, <1>1, <1>2, <1>3, <1>6 DEF LockInv, RequestsAreCalls, Requesters, Queued
<1>10. SignalMatchesQueue'
  <2>1. sem[t] = 0
    BY <1>1 DEF LockInv, SignalMatchesQueue
  <2>2. ASSUME NEW u \in Trans \ {t}
        PROVE  pc[u] \in {"blocked", "suspect", "victim", "expired"} => req'[call[u].item][u] = req[call[u].item][u]
    BY <1>6, LockCallType DEF LockCall
  <2> QED
    BY <1>i, <1>1, <1>2, <1>3, <1>6, <2>1, <2>2 DEF LockInv, SignalMatchesQueue
<1>11. NodesBackLocks'
  <2>1. \A j \in Items : pessimistic[j] => pessimistic'[j]
    BY <1>2 DEF TypeInv, TypeOK
  <2> QED
    BY <1>2, <2>1 DEF LockInv, NodesBackLocks
<1>12. CallsSound'
  <2>1. ASSUME NEW u \in Trans \ {t} PROVE CallSound(u)'
    <3>1. pc[u] \in LockCall => req'[call[u].item][u] = req[call[u].item][u]
      BY <1>6, LockCallType
    <3>2. CallSound(u)
      BY DEF LockInv
    <3> QED
      BY <1>2, <1>3, <3>1, <3>2, CallKept
  <2>2. CallSound(t)'
    BY <1>i, <1>1, <1>2, <1>3, <1>6 DEF CallSound, SlotPolling
  <2> QED
    BY <2>1, <2>2 DEF CallsSound
<1> QED
  BY <1>8, <1>9, <1>10, <1>11, <1>12 DEF LockInv, CallsSound

LEMMA WithdrawSound ==
  ASSUME TypeInv, LockInv, NEW t \in Trans, Withdraw(t)
  PROVE  LockInv'
<1>i. PICK i \in Items : i = call[t].item
  BY LockCallType DEF Withdraw, LockCall
<1>1. i \in Items /\ pc[t] \in {"victim", "expired"}
  BY DEF Withdraw
<1>2. /\ Unlink(i, {t}) /\ sem' = [sem EXCEPT ![t] = 0]
      /\ UNCHANGED <<hold, grantedMode, pessimistic, done, intent, beFree>>
  BY <1>i DEF Withdraw
<1>3. pc'[t] = "active" /\ \A u \in Trans \ {t} : pc'[u] = pc[u] /\ call'[u] = call[u]
  BY DEF Withdraw, EndCall, TypeInv, TypeOK
<1>4. \A j \in Items \ {i} : t \notin Requesters(j)
  BY <1>i DEF LockInv, RequestsAreCalls
<1>5. \A j \in Items, u \in Trans :
        /\ req'[j][u]   = IF j = i /\ u = t THEN "NONE" ELSE req[j][u]
        /\ ahead'[j][u] = IF j = i THEN IF u = t THEN {} ELSE ahead[j][u] \ {t} ELSE ahead[j][u]
  BY <1>1, <1>2 DEF Unlink, TypeInv, TypeOK
<1>6. Requesters(i)' = Requesters(i) \ {t} /\ Holders(i)' = Holders(i)
  <2>1. Holders(i)' = Holders(i)
    BY <1>2 DEF Holders
  <2>2. \A u \in Trans : req'[i][u] # "NONE" <=> req[i][u] # "NONE" /\ u # t
    BY <1>1, <1>5
  <2> QED
    BY <2>1, <2>2 DEF Requesters
<1>7. HoldListSound' /\ QueueHasHolder' /\ QueueOrdered'
  <2>1. \A j \in Items : ListSound(j)
    BY ListsSoundDef DEF ListsSound, LockInv
  <2>2. ASSUME NEW j \in Items, j # i PROVE ListSound(j)'
    <3>1. hold'[j] = hold[j] /\ req'[j] = req[j] /\ ahead'[j] = ahead[j] /\ grantedMode'[j] = grantedMode[j]
      BY <1>1, <1>2, <2>2 DEF Unlink, TypeInv, TypeOK
    <3> QED
      BY <2>1, <3>1, ListKept
  <2>3. ListSound(i)'
    <3>1. \A r, s \in Requesters(i) : r # s => r \in ahead[i][s] \/ s \in ahead[i][r]
      BY <1>1, <2>1 DEF ListSound
    <3>2. Requesters(i) \subseteq Trans
      BY DEF Requesters
    <3>3. \A r, s \in Requesters(i)' : r # s => r \in ahead'[i][s] \/ s \in ahead'[i][r]
      BY <1>1, <1>5, <1>6, <3>1, <3>2
    <3>4. \A r \in Requesters(i)' : Holders(i)' \ {r} # {}
      BY <1>1, <1>6, <2>1 DEF ListSound
    <3>5. /\ \A u, v \in Trans : u # v => Compatible(hold'[i][u], hold'[i][v])
          /\ grantedMode'[i] = Join({hold'[i][u] : u \in Trans})
      BY <1>1, <1>2, <2>1 DEF ListSound
    <3> QED
      BY <3>3, <3>4, <3>5 DEF ListSound
  <2>4. ListsSound'
    BY <2>2, <2>3 DEF ListsSound
  <2> QED
    BY <2>4, ListsSoundPrimed
<1>8. RequestsAreCalls'
  <2> SUFFICES ASSUME NEW j \in Items, NEW u \in Trans, req'[j][u] # "NONE"
               PROVE  pc'[u] \in Queued /\ call'[u].item = j /\ call'[u].mode = req'[j][u]
    BY DEF RequestsAreCalls, Requesters
  <2>1. u # t /\ req'[j][u] = req[j][u]
    BY <1>1, <1>4, <1>5 DEF Requesters
  <2> QED
    BY <1>3, <2>1 DEF LockInv, RequestsAreCalls, Requesters
<1>9. \A u \in Trans \ {t} : pc[u] \in LockCall => req'[call[u].item][u] = req[call[u].item][u]
  BY <1>5, LockCallType
<1>10. SignalMatchesQueue'
  <2>1. sem'[t] = 0 /\ \A u \in Trans \ {t} : sem'[u] = sem[u]
    BY <1>2 DEF TypeInv, TypeOK
  <2> QED
    BY <1>3, <1>9, <2>1 DEF LockInv, SignalMatchesQueue, LockCall
<1>11. NodesBackLocks'
  BY <1>2 DEF LockInv, NodesBackLocks
<1>12. CallsSound'
  <2>1. ASSUME NEW u \in Trans \ {t} PROVE CallSound(u)'
    <3>1. CallSound(u)
      BY DEF LockInv
    <3> QED
      BY <1>2, <1>3, <1>9, <3>1, CallKept
  <2>2. CallSound(t)'
    BY <1>3, NoCallSound DEF PC, LockCall
  <2> QED
    BY <2>1, <2>2 DEF CallsSound
<1> QED
  BY <1>7, <1>8, <1>10, <1>11, <1>12 DEF LockInv, CallsSound

LEMMA ResumeSound ==
  ASSUME TypeInv, LockInv, NEW t \in Trans, Resume(t)
  PROVE  LockInv'
<1>1. /\ pc[t] = "blocked" /\ sem[t] > 0 /\ sem' = [sem EXCEPT ![t] = sem[t] - 1]
      /\ UNCHANGED <<hold, req, ahead, grantedMode, pessimistic, done, intent, beFree, call>>
      /\ pc'[t] = "resumed" /\ \A u \in Trans \ {t} : pc'[u] = pc[u]
  BY DEF Resume, At, TypeInv, TypeOK
<1>2. call[t].item \in Items
  BY <1>1, LockCallType DEF LockCall
<1>3. sem[t] = 1 /\ req[call[t].item][t] = "NONE"
  BY <1>1 DEF LockInv, SignalMatchesQueue
<1>4. sem'[t] = 0 /\ \A u \in Trans \ {t} : sem'[u] = sem[u]
  BY <1>1, <1>3 DEF TypeInv, TypeOK
<1>5. HoldListSound' /\ QueueHasHolder' /\ QueueOrdered'
  <2>1. ASSUME NEW j \in Items PROVE ListSound(j)'
    <3>1. ListSound(j)
      BY ListsSoundDef DEF ListsSound, LockInv
    <3> QED
      BY <1>1, <3>1, ListKept
  <2> QED
    BY <2>1, ListsSoundPrimed DEF ListsSound
<1>6. RequestsAreCalls'
  BY <1>1, <1>3 DEF LockInv, RequestsAreCalls, Requesters
<1>7. SignalMatchesQueue'
  BY <1>1, <1>4 DEF LockInv, SignalMatchesQueue
<1>8. NodesBackLocks'
  BY <1>1 DEF LockInv, NodesBackLocks
<1>9. CallsSound'
  <2>1. ASSUME NEW u \in Trans \ {t} PROVE CallSound(u)'
    <3>1. CallSound(u)
      BY DEF LockInv
    <3> QED
      BY <1>1, <3>1, CallKept
  <2>2. CallSound(t)
    BY DEF LockInv
  <2>3. CallSound(t)'
    BY <1>1, <1>3, <2>2 DEF CallSound, SlotPolling
  <2> QED
    BY <2>1, <2>3 DEF CallsSound
<1> QED
  BY <1>5, <1>6, <1>7, <1>8, <1>9 DEF LockInv, CallsSound

-----------------------------------------------------------------------------
(* The scan of the intention array.                                         *)

\* A scan that stops has looked at every slot in front of the one it stops at.
LEMMA ScanStopsSound ==
  ASSUME TypeInv, NEW t \in Trans, NEW from \in Nat, NEW i \in Items, i = call[t].item,
         ScanStops(t, from), UNCHANGED intent,
         Covers(hold'[i][t], call[t].mode),
         \A v \in Trans \ {t} : v < from => Compatible(intent[i][v], call[t].mode)
  PROVE  CallSound(t)' /\ pc'[t] = "slotEnter"
<1>1. PICK u \in Blockers(t, from) :
        /\ \A v \in Blockers(t, from) : u <= v
        /\ call' = [call EXCEPT ![t].target = u]
        /\ At(t, "slotEnter")
  BY DEF ScanStops
<1>2. u \in Trans /\ Trans \subseteq Nat /\ call[t] \in Call
  BY TransType DEF Blockers, TypeInv, TypeOK
<1>3. call'[t].item = i /\ call'[t].mode = call[t].mode /\ call'[t].target = u
  BY <1>1, <1>2 DEF Call, TypeInv, TypeOK
<1>4. \A v \in Trans \ {t} : v < u => Compatible(intent[i][v], call[t].mode)
  <2> SUFFICES ASSUME NEW v \in Trans \ {t}, v < u PROVE Compatible(intent[i][v], call[t].mode)
    OBVIOUS
  <2>1. CASE v < from
    BY <2>1
  <2>2. CASE ~(v < from)
    <3>1. v \notin Blockers(t, from)
      BY <1>1, <1>2
    <3>2. v >= from
      BY <1>2, <2>2
    <3> QED
      BY <3>1, <3>2 DEF Blockers
  <2> QED
    BY <2>1, <2>2
<1>5. pc'[t] = "slotEnter"
  BY <1>1 DEF At, TypeInv, TypeOK
<1> QED
  BY <1>3, <1>4, <1>5 DEF CallSound, SlotPolling

\* What a scan makes of a lock that has its node: the call stays sound, and a lock
\* that is completed conflicts with no optimistic lock of another.
LEMMA ScanSound ==
  ASSUME TypeInv, LockInv, NEW t \in Trans, NEW from \in Nat, NEW i \in Items, i = call[t].item,
         pc[t] \in LockCall \ Queued, Scan(t, from),
         UNCHANGED <<intent, sem, req, ahead, beFree>>,
         \A j \in Items, u \in Trans : j # i \/ u # t => hold'[j][u] = hold[j][u],
         hold'[i][t] \in LockMode, Covers(hold'[i][t], hold[i][t]), Covers(hold'[i][t], call[t].mode),
         \A j \in Items : pessimistic[j] => pessimistic'[j],
         pessimistic'[i],
         HoldListSound' /\ QueueHasHolder' /\ QueueOrdered',
         \A v \in Trans \ {t} : v < from => Compatible(intent[i][v], call[t].mode)
  PROVE  LockInv'
<1>1. call[t].mode \in LockMode
  BY LockCallType
<1>2. /\ pc'[t] \notin Queued /\ CallSound(t)'
      /\ \A u \in Trans \ {t} : pc'[u] = pc[u] /\ call'[u] = call[u]
  <2>1. CASE ScanPasses(t, from)
    <3>1. pc'[t] = "active" /\ \A u \in Trans \ {t} : pc'[u] = pc[u] /\ call'[u] = call[u]
      BY <2>1 DEF ScanPasses, EndCall, TypeInv, TypeOK
    <3> QED
      BY <3>1, NoCallSound DEF PC, LockCall, Queued
  <2>2. CASE ScanStops(t, from)
    <3>1. \A u \in Trans \ {t} : pc'[u] = pc[u] /\ call'[u] = call[u]
      BY <2>2 DEF ScanStops, At, TypeInv, TypeOK
    <3> QED
      BY <2>2, <3>1, ScanStopsSound DEF Queued
  <2> QED
    BY <2>1, <2>2 DEF Scan
<1>3. NotQueued(t) /\ sem[t] = 0
  BY DEF LockInv, RequestsAreCalls, NotQueued, SignalMatchesQueue, Queued
<1>4. RequestsAreCalls'
  BY <1>2, <1>3 DEF LockInv, RequestsAreCalls, Requesters, NotQueued
<1>5. SignalMatchesQueue'
  BY <1>2, <1>3 DEF LockInv, SignalMatchesQueue, Queued
<1>6. CallsSound'
  <2>1. ASSUME NEW u \in Trans \ {t} PROVE CallSound(u)'
    <3>1. CallSound(u)
      BY DEF LockInv
    <3>2. pc[u] \in LockCall => hold'[call[u].item][u] = hold[call[u].item][u]
      BY LockCallType
    <3> QED
      BY <1>2, <3>1, <3>2, CallKept
  <2> QED
    BY <1>2, <2>1 DEF CallsSound
<1>7. /\ \A j \in Items, u \in Trans : j # i \/ u # t => done'[j][u] = done[j][u]
      /\ \/ done'[i][t] = done[i][t]
         \/ /\ done'[i][t] = Conversion(done[i][t], call[t].mode)
            /\ Blockers(t, from) = {}
  BY DEF Scan, ScanPasses, ScanStops, TypeInv, TypeOK
<1>8. NodesBackLocks'
  <2>1. /\ done[i][t] \in LockMode /\ hold[i][t] \in LockMode
        /\ \A u \in Trans : intent[i][u] \in LockMode
    BY IntentsCompatible DEF TypeInv, TypeOK
  <2>2. \A j \in Items, u \in Trans : Covers(hold[j][u], done[j][u])
    BY DEF LockInv, NodesBackLocks
  <2>3. Covers(hold'[i][t], done[i][t])
    BY <2>1, <2>2, CoversOrder
  <2>4. Covers(hold'[i][t], Conversion(done[i][t], call[t].mode))
    BY <1>1, <2>1, <2>3, ConversionIsLeast
  <2>5. \A j \in Items, u \in Trans : Covers(hold'[j][u], done'[j][u])
    BY <1>7, <2>2, <2>3, <2>4
  <2>6. \A j \in Items, u \in Trans : hold'[j][u] # "NONE" => pessimistic'[j]
    BY DEF LockInv, NodesBackLocks
  <2>7. \A j \in Items, u \in Trans : \A v \in Trans \ {u} : Compatible(done'[j][u], intent[j][v])
    <3> SUFFICES ASSUME NEW j \in Items, NEW u \in Trans, NEW v \in Trans \ {u}
                 PROVE  Compatible(done'[j][u], intent[j][v])
      OBVIOUS
    <3>1. Compatible(done[j][u], intent[j][v])
      BY DEF LockInv, NodesBackLocks
    <3>2. CASE done'[j][u] = done[j][u]
      BY <3>1, <3>2
    <3>3. CASE done'[j][u] # done[j][u]
      <4>1. j = i /\ u = t /\ done'[i][t] = Conversion(done[i][t], call[t].mode) /\ Blockers(t, from) = {}
        BY <1>7, <3>3
      <4>2. Compatible(intent[i][v], call[t].mode)
        <5>1. v \in Nat /\ (v < from \/ v >= from)
          BY TransType
        <5>2. CASE v < from
          BY <4>1, <5>2
        <5>3. CASE v >= from
          BY <4>1, <5>3 DEF Blockers
        <5> QED
          BY <5>1, <5>2, <5>3
      <4>3. Compatible(call[t].mode, intent[i][v])
        BY <1>1, <2>1, <4>2, CompatibleSymmetric
      <4> QED
        BY <1>1, <2>1, <3>1, <4>1, <4>3, ConversionCompatible
    <3> QED
      BY <3>2, <3>3
  <2> QED
    BY <2>5, <2>6, <2>7 DEF NodesBackLocks
<1> QED
  BY <1>4, <1>5, <1>6, <1>8 DEF LockInv, CallsSound

LEMMA ListsUnchanged ==
  ASSUME LockInv, UNCHANGED <<hold, req, ahead, grantedMode>>
  PROVE  HoldListSound' /\ QueueHasHolder' /\ QueueOrdered'
<1>1. ASSUME NEW j \in Items PROVE ListSound(j)'
  <2>1. ListSound(j)
    BY ListsSoundDef DEF ListsSound, LockInv
  <2> QED
    BY <2>1, ListKept
<1> QED
  BY <1>1, ListsSoundPrimed DEF ListsSound

\* A scan of a call that already has its node.
LEMMA RescanSound ==
  ASSUME TypeInv, LockInv, NEW t \in Trans, NEW from \in Nat,
         pc[t] \in LockCall \ Queued, Scan(t, from),
         UNCHANGED <<hold, grantedMode, pessimistic, intent, sem, req, ahead, beFree>>,
         Covers(hold[call[t].item][t], call[t].mode),
         \A v \in Trans \ {t} : v < from => Compatible(intent[call[t].item][v], call[t].mode)
  PROVE  LockInv'
<1>1. PICK i \in Items : i = call[t].item
  BY LockCallType
<1>2. call[t].mode \in LockMode \ {"NONE"} /\ hold[i][t] \in LockMode
  BY LockCallType DEF TypeInv, TypeOK
<1>3. Covers(hold[i][t], hold[i][t]) /\ hold[i][t] # "NONE"
  BY <1>1, <1>2 DEF Covers
<1>4. pessimistic[i]
  BY <1>3 DEF LockInv, NodesBackLocks
<1> QED
  BY <1>1, <1>2, <1>3, <1>4, ListsUnchanged, ScanSound

LEMMA ProceedSound ==
  ASSUME TypeInv, LockInv, NEW t \in Trans, Proceed(t)
  PROVE  LockInv'
<1>1. /\ pc[t] = "resumed"
      /\ UNCHANGED <<hold, grantedMode, pessimistic, intent, sem, req, ahead, beFree>>
  BY DEF Proceed
<1>2. CASE EndCall(t) /\ UNCHANGED <<edge, done>>
  BY <1>1, <1>2, EndedCalls DEF Queued
<1>3. CASE call[t].item \notin beFree /\ Scan(t, 0)
  <2>1. CallSound(t)
    BY DEF LockInv
  <2>2. Covers(hold[call[t].item][t], call[t].mode)
    BY <1>1, <1>3, <2>1 DEF CallSound
  <2>3. \A v \in Trans : ~(v < 0)
    BY TransType
  <2> QED
    BY <1>1, <1>3, <2>2, <2>3, RescanSound DEF LockCall, Queued
<1> QED
  BY <1>2, <1>3 DEF Proceed

LEMMA ContinueScanSound ==
  ASSUME TypeInv, LockInv, NEW t \in Trans, ContinueScan(t)
  PROVE  LockInv'
<1>1. /\ pc[t] = "slotDone" /\ Scan(t, call[t].target + 1)
      /\ UNCHANGED <<hold, grantedMode, pessimistic, intent, sem, req, ahead, beFree>>
  BY DEF ContinueScan
<1>2. CallSound(t)
  BY DEF LockInv
<1>3. Trans \subseteq Nat /\ call[t].target \in Nat
  BY TransType, TargetType
<1>4. /\ Covers(hold[call[t].item][t], call[t].mode)
      /\ \A v \in Trans \ {t} : v < call[t].target => Compatible(intent[call[t].item][v], call[t].mode)
      /\ intent[call[t].item][call[t].target] = "NONE"
  BY <1>1, <1>2 DEF CallSound
<1>5. \A v \in Trans \ {t} : v < call[t].target + 1 => Compatible(intent[call[t].item][v], call[t].mode)
  BY <1>3, <1>4 DEF Compatible
<1> QED
  BY <1>1, <1>3, <1>4, <1>5, RescanSound DEF LockCall, Queued

LEMMA GrantNowSound ==
  ASSUME TypeInv, LockInv, NEW t \in Trans, GrantNow(t)
  PROVE  LockInv'
<1>1. PICK i \in Items : i = call[t].item
  BY LockCallType DEF GrantNow, LockCall
<1>2. PICK m \in LockMode : m = call[t].mode
  BY LockCallType DEF GrantNow, LockCall
<1>3. PICK mode \in LockMode : mode = Conversion(hold[i][t], m)
  BY ConversionType DEF TypeInv, TypeOK
<1>4. PICK others \in LockMode : others = GrantedToOthers(i, t)
  BY GrantedToOthersType DEF TypeInv
<1>5. /\ pc[t] = "escalate" /\ Compatible(others, m)
      /\ hold' = [hold EXCEPT ![i][t] = mode]
      /\ grantedMode' = [grantedMode EXCEPT ![i] = Conversion(others, mode)]
      /\ pessimistic' = [pessimistic EXCEPT ![i] = TRUE]
      /\ Scan(t, 0) /\ UNCHANGED <<req, ahead, sem, beFree, intent>>
  BY <1>1, <1>2, <1>3, <1>4 DEF GrantNow, Grantable
<1>6. \A j \in Items : ListSound(j)
  BY ListsSoundDef DEF LockInv, ListsSound
<1> DEFINE M == {hold[i][u] : u \in Trans \ {t}}
<1>7. M \in SUBSET LockMode /\ others = Join(M)
  <2>1. M \in SUBSET LockMode
    BY DEF TypeInv, TypeOK
  <2>2. others = Join(M)
    BY <1>4, <1>6, GrantedToOthersIsJoin
  <2> QED
    BY <2>1, <2>2
<1>8. \A u \in Trans : hold'[i][u] = IF u = t THEN mode ELSE hold[i][u]
  BY <1>5 DEF TypeInv, TypeOK
<1>9. hold[i][t] \in LockMode /\ Covers(mode, hold[i][t]) /\ Covers(mode, m)
  BY <1>3, ConversionCovers DEF TypeInv, TypeOK
<1>10. HoldListSound' /\ QueueHasHolder' /\ QueueOrdered'
  <2>1. ASSUME NEW j \in Items, j # i PROVE ListSound(j)'
    <3>1. hold'[j] = hold[j] /\ req'[j] = req[j] /\ ahead'[j] = ahead[j] /\ grantedMode'[j] = grantedMode[j]
      BY <1>5, <2>1 DEF TypeInv, TypeOK
    <3> QED
      BY <1>6, <3>1, ListKept
  <2>2. \A u \in Trans \ {t} : Compatible(mode, hold[i][u]) /\ Compatible(hold[i][u], mode)
    <3> SUFFICES ASSUME NEW u \in Trans \ {t}
                 PROVE  Compatible(mode, hold[i][u]) /\ Compatible(hold[i][u], mode)
      OBVIOUS
    <3>1. hold[i][u] \in LockMode /\ hold[i][u] \in M
      BY DEF TypeInv, TypeOK
    <3> HIDE DEF M
    <3>2. Compatible(hold[i][u], m)
      BY <1>5, <1>7, <3>1, RepresentativeDecidesForAll
    <3>3. Compatible(m, hold[i][u])
      BY <3>1, <3>2, CompatibleSymmetric
    <3>4. Compatible(hold[i][t], hold[i][u])
      BY <1>6 DEF ListSound
    <3>5. Compatible(mode, hold[i][u])
      BY <1>3, <1>9, <3>1, <3>3, <3>4, ConversionCompatible
    <3> QED
      BY <3>1, <3>5, CompatibleSymmetric
  <2>3. \A u, v \in Trans : u # v => Compatible(hold'[i][u], hold'[i][v])
    BY <1>6, <1>8, <2>2 DEF ListSound
  <2>4. grantedMode'[i] = Join({hold'[i][u] : u \in Trans})
    <3>1. {hold'[i][u] : u \in Trans} = M \cup {mode}
      BY <1>8
    <3>2. grantedMode'[i] = Conversion(Join(M), mode)
      BY <1>5, <1>7 DEF TypeInv, TypeOK
    <3> HIDE DEF M
    <3> QED
      BY <1>7, <3>1, <3>2, ConversionExtendsJoin
  <2>5. \A r \in Requesters(i)' : Holders(i)' \ {r} # {}
    <3> SUFFICES ASSUME NEW r \in Requesters(i) PROVE Holders(i)' \ {r} # {}
      BY <1>5 DEF Requesters
    <3>1. PICK h \in Holders(i) : h # r
      BY <1>6 DEF ListSound
    <3>2. h \in Trans /\ hold[i][h] # "NONE"
      BY DEF Holders
    <3>3. hold'[i][h] # "NONE"
      BY <1>8, <1>9, <3>2 DEF Covers
    <3> QED
      BY <3>1, <3>2, <3>3 DEF Holders
  <2>6. \A r, s \in Requesters(i)' : r # s => r \in ahead'[i][s] \/ s \in ahead'[i][r]
    BY <1>5, <1>6 DEF ListSound, Requesters
  <2>7. ListsSound'
    BY <2>1, <2>3, <2>4, <2>5, <2>6 DEF ListsSound, ListSound
  <2> QED
    BY <2>7, ListsSoundPrimed
<1>11. \A j \in Items, u \in Trans : j # i \/ u # t => hold'[j][u] = hold[j][u]
  BY <1>5 DEF TypeInv, TypeOK
<1>12. pessimistic'[i] /\ \A j \in Items : pessimistic[j] => pessimistic'[j]
  BY <1>5 DEF TypeInv, TypeOK
<1>13. \A v \in Trans : ~(v < 0)
  BY TransType
<1>14. hold'[i][t] = mode
  BY <1>8
<1> HIDE DEF M
<1> QED
  BY <1>1, <1>2, <1>5, <1>9, <1>10, <1>11, <1>12, <1>13, <1>14, ScanSound DEF LockCall, Queued

-----------------------------------------------------------------------------
(* Optimistic locks.                                                        *)

\* Nobody has a node on an item whose optimistic path is open, so nobody has
\* completed a lock on it through the lists, and nobody scans it.
LEMMA OptimisticPathIsEmpty ==
  ASSUME TypeInv, LockInv, NEW i \in Items, ~pessimistic[i], NEW u \in Trans
  PROVE  /\ hold[i][u] = "NONE" /\ done[i][u] = "NONE"
         /\ call[u].item = i => pc[u] \notin {"slotEnter", "slotDone"} \cup SlotPolling
<1>1. hold[i][u] = "NONE" /\ Covers(hold[i][u], done[i][u]) /\ done[i][u] \in LockMode
  BY DEF LockInv, NodesBackLocks, TypeInv, TypeOK
<1>2. done[i][u] = "NONE"
  BY <1>1, NoneIsNeutral
<1>3. ASSUME call[u].item = i, pc[u] \in {"slotEnter", "slotDone"} \cup SlotPolling PROVE FALSE
  <2>1. CallSound(u)
    BY DEF LockInv
  <2>2. Covers(hold[i][u], call[u].mode)
    BY <1>3, <2>1 DEF CallSound
  <2>3. call[u].mode # "NONE" /\ call[u].mode \in LockMode
    BY <1>3, LockCallType DEF LockCall, SlotPolling
  <2> QED
    BY <1>1, <2>2, <2>3, NoneIsNeutral
<1> QED
  BY <1>1, <1>2, <1>3

LEMMA LockOptimisticSound ==
  ASSUME TypeInv, LockInv, NEW t \in Trans, NEW i \in Relations, NEW m \in RelationModes,
         LockOptimistic(t, i, m)
  PROVE  LockInv'
<1>1. /\ UNCHANGED <<hold, req, ahead, grantedMode, pessimistic, done, sem, pc, call, beFree>>
      /\ i \in Items /\ ~pessimistic[i]
  BY DEF LockOptimistic, Items
<1>2. \A j \in Items, u \in Trans : j # i => intent'[j][u] = intent[j][u]
  BY DEF LockOptimistic, TypeInv, TypeOK
<1>3. NodesBackLocks'
  <2>1. ASSUME NEW j \in Items, NEW u \in Trans, NEW v \in Trans \ {u}
        PROVE  Compatible(done[j][u], intent'[j][v])
    <3>1. CASE j = i
      BY <1>1, <3>1, OptimisticPathIsEmpty DEF Compatible
    <3>2. CASE j # i
      BY <1>2, <3>2 DEF LockInv, NodesBackLocks
    <3> QED
      BY <3>1, <3>2
  <2> QED
    BY <1>1, <2>1 DEF LockInv, NodesBackLocks
<1>4. CallsSound'
  <2> SUFFICES ASSUME NEW u \in Trans PROVE CallSound(u)'
    BY DEF CallsSound
  <2>1. CallSound(u)
    BY DEF LockInv
  <2>2. CASE call[u].item = i
    <3>1. pc[u] \notin {"slotEnter", "slotDone"} \cup SlotPolling
      BY <1>1, <2>2, OptimisticPathIsEmpty
    <3> QED
      BY <1>1, <2>1, <3>1 DEF CallSound, SlotPolling
  <2>3. CASE call[u].item # i
    <3>1. pc[u] \in LockCall => \A v \in Trans : intent'[call[u].item][v] = intent[call[u].item][v]
      BY <1>2, <2>3, LockCallType
    <3> QED
      BY <1>1, <2>1, <3>1, CallKept
  <2> QED
    BY <2>2, <2>3
<1>5. RequestsAreCalls' /\ SignalMatchesQueue'
  BY <1>1 DEF LockInv, RequestsAreCalls, SignalMatchesQueue, Requesters
<1> QED
  BY <1>1, <1>3, <1>4, <1>5, ListsUnchanged DEF LockInv, CallsSound

\* Giving up an optimistic lock, dropping a relation and reclaiming it take
\* nothing from a call.
LEMMA WeakenSound ==
  ASSUME TypeInv, LockInv,
         UNCHANGED <<hold, req, ahead, grantedMode, pessimistic, done, sem, pc, call>>,
         \A j \in Items, u \in Trans : intent'[j][u] \in {intent[j][u], "NONE"},
         \A u \in Trans : call[u].item \in beFree => call[u].item \in beFree'
  PROVE  LockInv'
<1>1. CallsSound'
  <2> SUFFICES ASSUME NEW u \in Trans PROVE CallSound(u)'
    BY DEF CallsSound
  <2>1. CallSound(u)
    BY DEF LockInv
  <2>2. pc[u] \in LockCall => call[u].item \in Items
    BY LockCallType
  <2> QED
    BY <2>1, <2>2, CallKept
<1>2. NodesBackLocks'
  <2>1. ASSUME NEW j \in Items, NEW u \in Trans, NEW v \in Trans \ {u}
        PROVE  Compatible(done[j][u], intent'[j][v])
    BY DEF LockInv, NodesBackLocks, Compatible
  <2> QED
    BY <2>1 DEF LockInv, NodesBackLocks
<1>3. RequestsAreCalls' /\ SignalMatchesQueue'
  BY DEF LockInv, RequestsAreCalls, SignalMatchesQueue, Requesters
<1> QED
  BY <1>1, <1>2, <1>3, ListsUnchanged DEF LockInv, CallsSound

LEMMA ClearIntentSound ==
  ASSUME TypeInv, LockInv, NEW t \in Trans, NEW i \in Items, ClearIntent(t, i) \/ UndoIntent(t, i)
  PROVE  LockInv'
<1>1. /\ UNCHANGED <<hold, req, ahead, grantedMode, pessimistic, done, sem, pc, call, beFree>>
      /\ intent' = [intent EXCEPT ![i][t] = "NONE"]
  BY DEF ClearIntent, UndoIntent
<1>2. \A j \in Items, u \in Trans : intent'[j][u] \in {intent[j][u], "NONE"}
  BY <1>1 DEF TypeInv, TypeOK
<1> QED
  BY <1>1, <1>2, WeakenSound

LEMMA DropSound ==
  ASSUME TypeInv, LockInv, NEW i \in Relations, AgeLockItem(i) \/ \E t \in Trans : MarkFree(t, i)
  PROVE  LockInv'
<1>1. /\ UNCHANGED <<hold, req, ahead, grantedMode, pessimistic, done, intent, sem, pc, call>>
      /\ \A u \in Trans : call[u].item \in beFree => call[u].item \in beFree'
  BY DEF AgeLockItem, MarkFree
<1> QED
  BY <1>1, WeakenSound

-----------------------------------------------------------------------------
(* A release, seen from the whole system.                                   *)

LEMMA ReleasedSound ==
  ASSUME TypeInv, LockInv, NEW t \in Trans, NEW i \in Items, Released(t, i), ReleaseTypes',
         pc[t] \notin LockCall, UNCHANGED <<intent, beFree, pc, call>>
  PROVE  LockInv'
<1>1. PICK R \in SUBSET Requesters(i) :
        /\ \A r \in Trans : req'[i][r] = IF r \in R THEN "NONE" ELSE req[i][r]
        /\ sem' = [r \in Trans |-> IF r \in R THEN sem[r] + 1 ELSE sem[r]]
        /\ i \notin beFree => \A r \in R : Covers(hold'[i][r], req[i][r])
  BY DEF Released
<1>2. /\ \A j \in Items \ {i} : /\ hold'[j] = hold[j] /\ req'[j] = req[j] /\ ahead'[j] = ahead[j]
                                /\ grantedMode'[j] = grantedMode[j] /\ pessimistic'[j] = pessimistic[j]
      /\ done' = [done EXCEPT ![i][t] = "NONE"]
      /\ \A u \in Trans \ {t} : Covers(hold'[i][u], hold[i][u])
      /\ \A u \in Trans : hold'[i][u] # "NONE" => pessimistic'[i]
      /\ ListSound(i)'
  BY DEF Released
<1>3. \A r \in R : r \in Trans /\ pc[r] \in Queued /\ call[r].item = i /\ call[r].mode = req[i][r]
  BY DEF LockInv, RequestsAreCalls, Requesters
<1>4. HoldListSound' /\ QueueHasHolder' /\ QueueOrdered'
  <2>1. ASSUME NEW j \in Items, j # i PROVE ListSound(j)'
    <3>1. ListSound(j)
      BY ListsSoundDef DEF LockInv, ListsSound
    <3> QED
      BY <1>2, <2>1, <3>1, ListKept
  <2>2. ListsSound'
    BY <1>2, <2>1 DEF ListsSound
  <2> QED
    BY <2>2, ListsSoundPrimed
<1>5. \A j \in Items, u \in Trans : req'[j][u] = IF j = i /\ u \in R THEN "NONE" ELSE req[j][u]
  BY <1>1, <1>2
<1>6. RequestsAreCalls'
  <2> SUFFICES ASSUME NEW j \in Items, NEW u \in Trans, req'[j][u] # "NONE"
               PROVE  pc'[u] \in Queued /\ call'[u].item = j /\ call'[u].mode = req'[j][u]
    BY DEF RequestsAreCalls, Requesters
  <2>1. req'[j][u] = req[j][u]
    BY <1>5
  <2> QED
    BY <2>1 DEF LockInv, RequestsAreCalls, Requesters
<1>7. SignalMatchesQueue'
  <2> SUFFICES ASSUME NEW u \in Trans
               PROVE  sem'[u] = IF pc[u] \in Queued /\ req'[call[u].item][u] = "NONE" THEN 1 ELSE 0
    BY DEF SignalMatchesQueue, Queued
  <2>1. sem[u] = IF pc[u] \in Queued /\ req[call[u].item][u] = "NONE" THEN 1 ELSE 0
    BY DEF LockInv, SignalMatchesQueue, Queued
  <2>2. pc[u] \in Queued => call[u].item \in Items
    BY LockCallType DEF LockCall, Queued
  <2>3. CASE u \in R
    <3>1. sem[u] = 0
      BY <1>3, <2>1, <2>3 DEF Requesters
    <3> QED
      BY <1>1, <1>3, <2>3, <3>1
  <2>4. CASE u \notin R
    BY <1>1, <1>5, <2>1, <2>2, <2>4
  <2> QED
    BY <2>3, <2>4
<1>8. ASSUME NEW j \in Items, NEW u \in Trans, j # i \/ u # t
      PROVE  /\ hold'[j][u] \in LockMode /\ hold[j][u] \in LockMode
             /\ Covers(hold'[j][u], hold[j][u])
  <2>1. hold'[j][u] \in LockMode /\ hold[j][u] \in LockMode
    BY DEF ReleaseTypes, TypeInv, TypeOK
  <2>2. CASE j = i
    BY <1>2, <1>8, <2>1, <2>2
  <2>3. CASE j # i
    BY <1>2, <2>1, <2>3, CoversOrder
  <2> QED
    BY <2>1, <2>2, <2>3
<1>9. \A j \in Items, u \in Trans : done'[j][u] = IF j = i /\ u = t THEN "NONE" ELSE done[j][u]
  BY <1>2 DEF TypeInv, TypeOK
<1>10. NodesBackLocks'
  <2>1. ASSUME NEW j \in Items, NEW u \in Trans PROVE Covers(hold'[j][u], done'[j][u])
    <3>1. CASE j = i /\ u = t
      BY <1>9, <3>1 DEF Covers
    <3>2. CASE j # i \/ u # t
      <4>1. Covers(hold[j][u], done[j][u]) /\ done[j][u] \in LockMode /\ done'[j][u] = done[j][u]
        BY <1>9, <3>2 DEF LockInv, NodesBackLocks, TypeInv, TypeOK
      <4> QED
        BY <1>8, <3>2, <4>1, CoversOrder
    <3> QED
      BY <3>1, <3>2
  <2>2. ASSUME NEW j \in Items, NEW u \in Trans, hold'[j][u] # "NONE" PROVE pessimistic'[j]
    BY <1>2, <2>2 DEF LockInv, NodesBackLocks
  <2>3. ASSUME NEW j \in Items, NEW u \in Trans, NEW v \in Trans \ {u}
        PROVE  Compatible(done'[j][u], intent'[j][v])
    BY <1>9 DEF LockInv, NodesBackLocks, Compatible
  <2> QED
    BY <2>1, <2>2, <2>3 DEF NodesBackLocks
<1>11. CallsSound'
  <2> SUFFICES ASSUME NEW u \in Trans PROVE CallSound(u)'
    BY DEF CallsSound
  <2>1. CallSound(u)
    BY DEF LockInv
  <2>2. CASE pc[u] \notin LockCall
    BY <2>1, <2>2, CallKept
  <2>3. CASE pc[u] \in LockCall
    <3>1. PICK j \in Items : j = call[u].item
      BY <2>3, LockCallType
    <3>2. u # t /\ call[u].mode \in LockMode
      BY <2>3, LockCallType
    <3>3. Covers(hold[j][u], call[u].mode) => Covers(hold'[j][u], call[u].mode)
      BY <1>8, <3>2, CoversOrder
    <3>4. req'[j][u] = req[j][u] \/ (j \notin beFree' => Covers(hold'[j][u], call[u].mode))
      BY <1>1, <1>3, <1>5, <3>1
    <3> QED
      BY <2>1, <3>1, <3>3, <3>4, CallKept
  <2> QED
    BY <2>2, <2>3
<1> QED
  BY <1>4, <1>6, <1>7, <1>10, <1>11 DEF LockInv, CallsSound

LEMMA UnlockSound ==
  ASSUME TypeInv, LockInv, NEW t \in Trans, NEW i \in Items,
         UnlockHeld(t, i) \/ UndoNode(t, i) \/ UnlockRecord(t, i)
  PROVE  LockInv'
<1>1. /\ ReleaseNode(t, i) /\ pc[t] \in {"unlock", "partial", "active"}
      /\ UNCHANGED <<intent, beFree, pc, call>>
  BY DEF UnlockHeld, UndoNode, UnlockRecord
<1>2. NotQueued(t)
  BY <1>1 DEF LockInv, RequestsAreCalls, NotQueued, Queued
<1>3. Released(t, i) /\ ReleaseTypes'
  BY <1>1, <1>2, ReleaseNodeSound, ReleaseNodeType
<1> QED
  BY <1>1, <1>3, ReleasedSound DEF LockCall

-----------------------------------------------------------------------------
(* The theorems.                                                            *)

LEMMA InitLockInv == Init => LockInv
<1> SUFFICES ASSUME Init PROVE LockInv
  OBVIOUS
<1>1. Trans # {}
  BY TransType
<1>2. HoldListSound
  <2> SUFFICES ASSUME NEW i \in Items PROVE grantedMode[i] = Join({hold[i][t] : t \in Trans})
    BY DEF Init, HoldListSound, Compatible
  <2>1. {hold[i][t] : t \in Trans} = {"NONE"}
    BY <1>1 DEF Init
  <2> QED
    BY <2>1, JoinOfNone DEF Init
<1>3. RequestsAreCalls /\ QueueOrdered /\ QueueHasHolder
  BY DEF Init, RequestsAreCalls, QueueOrdered, QueueHasHolder, Requesters
<1>4. NodesBackLocks /\ SignalMatchesQueue
  BY DEF Init, NodesBackLocks, SignalMatchesQueue, Covers, Compatible
<1>5. \A t \in Trans : CallSound(t)
  BY DEF Init, CallSound, SlotPolling
<1> QED
  BY <1>2, <1>3, <1>4, <1>5 DEF LockInv

LEMMA NextLockInv == TypeInv /\ LockInv /\ [Next]_vars => LockInv'
<1> SUFFICES ASSUME TypeInv, LockInv, [Next]_vars PROVE LockInv'
  OBVIOUS
<1>1. ASSUME NEW t \in Trans, Request(t) PROVE LockInv'
  BY <1>1, LockOptimisticSound, EnterPessimisticSound, RowConflictSound DEF Request
<1>2. ASSUME NEW t \in Trans, Wait(t) PROVE LockInv'
  <2>1. RowDone(t) \/ RowExpire(t) => LeaveRow(t) /\ pc[t] = "rowPoll"
    BY DEF RowDone, RowExpire
  <2> QED
    BY <1>2, <2>1, DroppedItemSound, RefuseSound, GrantNowSound, EnqueueSound, SuspectSound,
       ConfirmSound, WithdrawSound, ResumeSound, ProceedSound, SlotEnterSound, SlotFreedSound,
       ContinueScanSound, SlotConfirmSound, ExpireSlotSound, PlainSteps, RowConfirmSound
    DEF Wait
<1>3. ASSUME NEW t \in Trans, Finish(t) PROVE LockInv'
  BY <1>3, PlainSteps, FreeTransSound, UnlockSound, ClearIntentSound DEF Finish
<1>4. ASSUME NEW t \in Trans, Undo(t) PROVE LockInv'
  BY <1>4, PlainSteps, UnlockSound, ClearIntentSound DEF Undo
<1>5. CASE UNCHANGED vars
  <2>1. UNCHANGED <<hold, req, ahead, grantedMode, pessimistic, done, sem, pc, call, intent, beFree>>
    BY <1>5 DEF vars
  <2>2. \A j \in Items, u \in Trans : intent'[j][u] \in {intent[j][u], "NONE"}
    BY <2>1
  <2> QED
    BY <2>1, <2>2, WeakenSound
<1> QED
  BY <1>1, <1>2, <1>3, <1>4, <1>5, PlainSteps, DropSound DEF Next

\* The inductive invariant: lists, optimistic locks, wake-ups and calls in
\* progress always fit together.
THEOREM LockInvariant == Spec => []LockInv
<1>1. Init => TypeInv /\ LockInv
  BY InitTypeOK, InitLockInv DEF TypeInv, CallInv, Init, LockCall
<1>2. (TypeInv /\ LockInv) /\ [Next]_vars => (TypeInv /\ LockInv)'
  BY NextTypeInv, NextLockInv
<1> QED
  BY <1>1, <1>2, PTL DEF Spec

\* The hold list never has a conflict and mGrantedMode is always the join of its
\* nodes: every grant that reads it decides as if it had compared with each node.
THEOREM HoldListIsSound == Spec => []HoldListSound
<1>1. LockInv => HoldListSound
  BY DEF LockInv
<1> QED
  BY <1>1, LockInvariant, PTL

\* A queued request always has another holder in front of it.
THEOREM QueueAlwaysHasHolder == Spec => []QueueHasHolder
<1>1. LockInv => QueueHasHolder
  BY DEF LockInv
<1> QED
  BY <1>1, LockInvariant, PTL

\* No wake-up is lost, sent twice or left over for a later wait.
THEOREM NoWakeupIsLost == Spec => []SignalMatchesQueue
<1>1. LockInv => SignalMatchesQueue
  BY DEF LockInv
<1> QED
  BY <1>1, LockInvariant, PTL

\* The assertion after a wait on a slot holds, even for a slot that was reused.
THEOREM SlotsAreReleased == Spec => []SlotReleased
<1>1. LockInv => SlotReleased
  BY DEF LockInv, CallSound, SlotReleased
<1> QED
  BY <1>1, LockInvariant, PTL

\* What a transaction has been granted, by lists and by intention array together,
\* conflicts with nothing that another has.
LEMMA InvExcludes == TypeInv /\ LockInv => GrantedCompatible
<1> SUFFICES ASSUME TypeInv, LockInv, NEW i \in Items, NEW t \in Trans, NEW u \in Trans, t # u
             PROVE  Compatible(Granted(i, t), Granted(i, u))
  BY DEF GrantedCompatible
<1>1. ASSUME NEW v \in Trans
      PROVE  /\ hold[i][v] \in LockMode /\ done[i][v] \in LockMode
             /\ intent[i][v] \in IntentMode /\ intent[i][v] \in LockMode
  BY IntentsCompatible DEF TypeInv, TypeOK
<1>2. Compatible(done[i][t], done[i][u])
  <2>1. Compatible(hold[i][t], hold[i][u]) /\ Covers(hold[i][t], done[i][t]) /\ Covers(hold[i][u], done[i][u])
    BY DEF LockInv, HoldListSound, NodesBackLocks
  <2>2. Compatible(done[i][t], hold[i][u])
    BY <1>1, <2>1, WeakerIsCompatible
  <2> QED
    BY <1>1, <2>1, <2>2, WeakerIsCompatible, CompatibleSymmetric
<1>3. Compatible(done[i][t], intent[i][u]) /\ Compatible(done[i][u], intent[i][t])
  BY DEF LockInv, NodesBackLocks
<1>4. Compatible(intent[i][t], intent[i][u])
  BY <1>1, IntentsCompatible
<1>5. Compatible(Granted(i, t), done[i][u])
  BY <1>1, <1>2, <1>3, CompatibleSymmetric, ConversionCompatible DEF Granted
<1>6. Compatible(Granted(i, t), intent[i][u])
  BY <1>1, <1>3, <1>4, ConversionCompatible DEF Granted
<1>7. Granted(i, t) \in LockMode
  BY <1>1, ConversionType DEF Granted
<1>8. Compatible(Granted(i, u), Granted(i, t))
  BY <1>1, <1>5, <1>6, <1>7, CompatibleSymmetric, ConversionCompatible DEF Granted
<1>9. Granted(i, u) \in LockMode
  BY <1>1, ConversionType DEF Granted
<1> QED
  BY <1>7, <1>8, <1>9, CompatibleSymmetric

\* No two transactions have conflicting locks on an item, through whichever of
\* the hold list and the intention array each of them came.
THEOREM LocksExclude == Spec => []GrantedCompatible
<1>1. Init => TypeInv
  BY InitTypeOK DEF TypeInv, CallInv, Init, LockCall
<1> QED
  BY <1>1, InvExcludes, NextTypeInv, LockInvariant, PTL DEF Spec


-----------------------------------------------------------------------------
(* Dropped relations.                                                       *)

\* Whoever still has a node on a dropped relation dropped it, and has it only until its
\* commit has released its nodes; an optimistic lock lasts until the intents are cleared.
DropInv ==
  \A i \in beFree : \A t \in Trans :
    /\ hold[i][t] # "NONE" => i \in drops[t] /\ pc[t] \in {"committed", "unlock"}
    /\ intent[i][t] # "NONE" => i \in drops[t] /\ pc[t] \in {"committed", "unlock", "intents"}

\* A step that gives nobody anything on a dropped relation.
GivesNothing ==
  \A i \in beFree : \A u \in Trans :
    /\ hold'[i][u] \in {hold[i][u], "NONE"}
    /\ intent'[i][u] \in {intent[i][u], "NONE"}
    /\ done'[i][u] \in {done[i][u], "NONE"}

LEMMA DropKept ==
  ASSUME DropInv, GivesNothing, drops' = drops, beFree' \subseteq beFree,
         \A u \in Trans : pc[u] \in {"committed", "unlock", "intents"} => pc'[u] = pc[u]
  PROVE  DropInv'
BY DEF DropInv, GivesNothing

\* Steps that touch no lock give nothing.
LEMMA NothingGiven ==
  ASSUME UNCHANGED <<hold, intent, done>>
  PROVE  GivesNothing
BY DEF GivesNothing

\* A call that scans or asks is not about a dropped relation: a scan has its node, and only
\* who has committed has one there.
LEMMA ScanIsElsewhere ==
  ASSUME TypeInv, LockInv, DropInv, NEW t \in Trans, pc[t] = "slotDone"
  PROVE  call[t].item \notin beFree
<1>1. call[t].item \in Items /\ call[t].mode # "NONE" /\ call[t].mode \in LockMode
  BY DEF TypeInv, TypeOK, CallInv, LockCall, Call
<1>2. Covers(hold[call[t].item][t], call[t].mode)
  BY DEF LockInv, CallSound
<1>3. hold[call[t].item][t] # "NONE"
  BY <1>1, <1>2 DEF Covers, LockMode
<1> QED BY <1>3 DEF DropInv

LEMMA ScanGivesNothing ==
  ASSUME TypeInv, NEW t \in Trans, NEW from, Scan(t, from), call[t].item \in Items \ beFree
  PROVE  \A i \in beFree : \A u \in Trans : done'[i][u] = done[i][u]
<1>1. beFree \subseteq Items /\ done \in [Items -> [Trans -> LockMode]]
  BY DEF TypeInv, TypeOK, Items
<1> QED BY <1>1 DEF Scan, ScanPasses, ScanStops

\* A scan moves the call of t and nothing else that DropInv is about.
LEMMA ScanMoves ==
  ASSUME TypeInv, NEW t \in Trans, NEW from, Scan(t, from)
  PROVE  \A u \in Trans \ {t} : pc'[u] = pc[u]
BY DEF Scan, ScanPasses, ScanStops, EndCall, At, TypeInv, TypeOK

\* A release of a node gives nothing on a dropped relation: its queue is sent away.
LEMMA ReleaseGivesNothing ==
  ASSUME TypeInv, LockInv, DropInv, NEW t \in Trans, NEW i \in Items, ReleaseNode(t, i),
         intent' = intent
  PROVE  GivesNothing
<1>1. /\ beFree \subseteq Items /\ hold \in [Items -> [Trans -> LockMode]]
      /\ done \in [Items -> [Trans -> LockMode]]
  BY DEF TypeInv, TypeOK, Items
<1>2. done' = [done EXCEPT ![i][t] = "NONE"]
  BY DEF ReleaseNode, ReleaseDropped, ReleaseToQueue, ReleaseToUpgrade, ReleaseToHolders, DropNode
<1>3. CASE ReleaseDropped(t, i) \/ ReleaseToHolders(t, i)
  <2>1. hold' = [hold EXCEPT ![i][t] = "NONE"]
    BY <1>3 DEF ReleaseDropped, ReleaseToHolders
  <2> QED BY <1>1, <1>2, <2>1 DEF GivesNothing
<1>4. CASE ReleaseToQueue(t, i)
  <2>1. i \notin beFree /\ \A j \in Items \ {i} : hold'[j] = hold[j]
    BY <1>1, <1>4 DEF ReleaseToQueue
  <2> QED BY <1>1, <1>2, <2>1 DEF GivesNothing
<1>5. CASE ReleaseToUpgrade(t, i)
  <2>1. PICK h \in Requesters(i) :
          /\ Holders(i) = {t, h}
          /\ hold' = [hold EXCEPT ![i][t] = "NONE", ![i][h] = Conversion(req[i][h], hold[i][h])]
    BY <1>5 DEF ReleaseToUpgrade
  <2>2. h \in Trans /\ hold[i][h] # "NONE" /\ pc[h] \in Queued
    BY <2>1 DEF Holders, Requesters, LockInv, RequestsAreCalls
  <2>3. i \notin beFree
    BY <2>2 DEF DropInv, Queued
  <2>4. \A j \in Items \ {i} : hold'[j] = hold[j]
    BY <1>1, <2>1
  <2> QED BY <1>1, <1>2, <2>3, <2>4 DEF GivesNothing
<1> QED BY <1>3, <1>4, <1>5 DEF ReleaseNode

\* What a request does.
LEMMA RequestDrop ==
  ASSUME TypeInv, DropInv, NEW t \in Trans, Request(t)
  PROVE  DropInv' /\ GivesNothing
<1>1. /\ pc[t] = "active" /\ drops' = drops /\ beFree' = beFree
      /\ \A u \in Trans \ {t} : pc'[u] = pc[u]
  BY DEF Request, LockOptimistic, EnterPessimistic, RowConflict, At, TypeInv, TypeOK
<1>2. GivesNothing
  <2>1. CASE UNCHANGED <<hold, intent, done>>
    BY <2>1, NothingGiven
  <2>2. ASSUME NEW i \in Relations, NEW m, LockOptimistic(t, i, m) PROVE GivesNothing
    <3>1. /\ beFree \subseteq Items /\ intent \in [Items -> [Trans -> IntentMode]]
          /\ i \notin beFree /\ intent' = [intent EXCEPT ![i][t] = Conversion(@, m)]
          /\ hold' = hold /\ done' = done
      BY <2>2 DEF TypeInv, TypeOK, Items, LockOptimistic
    <3> QED BY <3>1 DEF GivesNothing
  <2> QED BY <2>1, <2>2 DEF Request, EnterPessimistic, RowConflict
<1> QED BY <1>1, <1>2, DropKept

\* What a call does while it waits.
LEMMA WaitDrop ==
  ASSUME TypeInv, LockInv, DropInv, NEW t \in Trans, Wait(t)
  PROVE  DropInv' /\ GivesNothing
<1>1. /\ pc[t] \in {"escalate", "blocked", "suspect", "victim", "expired", "resumed", "slotEnter",
                    "slotWait", "slotSuspect", "slotDone", "rowWait", "rowPoll", "rowSuspect"}
      /\ drops' = drops /\ beFree' = beFree
  BY DEF Wait, DroppedItem, Refuse, GrantNow, Enqueue, Suspect, Confirm, Expire, Withdraw, Resume, Proceed,
         SlotEnter, SlotFreed, ContinueScan, SlotConfirm, ExpireSlot, RowEnter, RowDone, RowConfirm,
         RowExpire, LeaveRow
<1>2. call[t].item \in Items \/ pc[t] \notin LockCall
  BY DEF TypeInv, CallInv
<1>3. CASE GrantNow(t)
  <2>1. /\ call[t].item \in Items \ beFree /\ intent' = intent /\ Scan(t, 0)
        /\ \A j \in Items \ {call[t].item} : hold'[j] = hold[j]
    BY <1>2, <1>3 DEF GrantNow, LockCall, TypeInv, TypeOK
  <2>2. beFree \subseteq Items
    BY DEF TypeInv, TypeOK, Items
  <2>3. GivesNothing
    BY <2>1, <2>2, ScanGivesNothing DEF GivesNothing
  <2> QED BY <1>1, <2>1, <2>3, ScanMoves, DropKept
<1>4. CASE Proceed(t) \/ ContinueScan(t)
  <2>1. hold' = hold /\ intent' = intent
    BY <1>4 DEF Proceed, ContinueScan
  <2>2. CASE done' = done /\ EndCall(t)
    <3>1. \A u \in Trans \ {t} : pc'[u] = pc[u]
      BY <2>2 DEF EndCall, TypeInv, TypeOK
    <3> QED BY <1>1, <2>1, <2>2, <3>1, NothingGiven, DropKept
  <2>3. CASE \E from : Scan(t, from) /\ call[t].item \notin beFree
    <3>1. call[t].item \in Items
      BY <1>2, <1>4 DEF Proceed, ContinueScan, LockCall
    <3>2. GivesNothing
      BY <2>1, <2>3, <3>1, ScanGivesNothing DEF GivesNothing
    <3> QED BY <1>1, <2>3, <3>2, ScanMoves, DropKept
  <2> QED BY <1>4, <2>2, <2>3, ScanIsElsewhere DEF Proceed, ContinueScan
<1>5. CASE ~(GrantNow(t) \/ Proceed(t) \/ ContinueScan(t))
  <2>1. UNCHANGED <<hold, intent, done>>
    BY <1>5 DEF Wait, DroppedItem, Refuse, Enqueue, Suspect, Confirm, Expire, Withdraw, Resume,
                SlotEnter, SlotFreed, SlotConfirm, ExpireSlot, RowEnter, RowDone, RowConfirm,
                RowExpire, LeaveRow
  <2>2. \A u \in Trans \ {t} : pc'[u] = pc[u]
    BY <1>5 DEF Wait, DroppedItem, Refuse, Enqueue, Suspect, Confirm, Expire, Withdraw, Resume,
                SlotEnter, SlotFreed, SlotConfirm, ExpireSlot, RowEnter, RowDone, RowConfirm,
                RowExpire, LeaveRow, EndCall, At, TypeInv, TypeOK
  <2> QED BY <1>1, <2>1, <2>2, NothingGiven, DropKept
<1> QED BY <1>3, <1>4, <1>5

\* The end of a transaction: the nodes go before the intents, and both before the slot is
\* used again.
LEMMA FinishDrop ==
  ASSUME TypeInv, LockInv, DropInv, NEW t \in Trans, Finish(t)
  PROVE  DropInv' /\ GivesNothing
<1>1. beFree \subseteq Items /\ pc \in [Trans -> PC]
  BY DEF TypeInv, TypeOK, Items
<1>2. CASE EndTrans(t) \/ StartUnlock(t)
  <2>1. /\ UNCHANGED <<hold, intent, done, drops, beFree>>
        /\ \/ pc[t] = "active" /\ pc' = [pc EXCEPT ![t] = "committed"]
           \/ pc[t] = "committed" /\ pc' = [pc EXCEPT ![t] = "unlock"]
    BY <1>2 DEF EndTrans, StartUnlock, At
  <2> QED BY <1>1, <2>1, NothingGiven DEF DropInv
<1>3. CASE ResetWaitSlot(t)
  <2>1. /\ UNCHANGED <<hold, intent, done, drops, beFree>>
        /\ pc[t] = "unlock" /\ pc' = [pc EXCEPT ![t] = "intents"]
        /\ \A i \in Items : hold[i][t] = "NONE"
    BY <1>3 DEF ResetWaitSlot, At
  <2> QED BY <1>1, <2>1, NothingGiven DEF DropInv
<1>4. CASE FreeTrans(t)
  <2>1. /\ UNCHANGED <<hold, intent, done, beFree>> /\ drops' = [drops EXCEPT ![t] = {}]
        /\ pc[t] = "intents" /\ pc' = [pc EXCEPT ![t] = "idle"]
        /\ \A i \in Items : intent[i][t] = "NONE"
    BY <1>4 DEF FreeTrans, At
  <2>2. \A i \in beFree : hold[i][t] = "NONE"
    BY <2>1 DEF DropInv
  <2>3. drops \in [Trans -> SUBSET Relations]
    BY DEF TypeInv, TypeOK
  <2> QED BY <1>1, <2>1, <2>2, <2>3, NothingGiven DEF DropInv
<1>5. ASSUME NEW i \in Items, UnlockHeld(t, i) PROVE DropInv' /\ GivesNothing
  <2>1. ReleaseNode(t, i) /\ UNCHANGED <<intent, drops, beFree, pc>>
    BY <1>5 DEF UnlockHeld
  <2> QED BY <2>1, ReleaseGivesNothing, DropKept
<1>6. ASSUME NEW i \in Items, ClearIntent(t, i) PROVE DropInv' /\ GivesNothing
  <2>1. /\ UNCHANGED <<hold, done, drops, beFree, pc>> /\ intent' = [intent EXCEPT ![i][t] = "NONE"]
        /\ intent \in [Items -> [Trans -> IntentMode]]
    BY <1>6 DEF ClearIntent, TypeInv, TypeOK
  <2>2. GivesNothing
    BY <1>1, <2>1 DEF GivesNothing
  <2> QED BY <2>1, <2>2, DropKept
<1> QED BY <1>2, <1>3, <1>4, <1>5, <1>6 DEF Finish

LEMMA UndoDrop ==
  ASSUME TypeInv, LockInv, DropInv, NEW t \in Trans, Undo(t)
  PROVE  DropInv' /\ GivesNothing
<1>1. beFree \subseteq Items /\ pc \in [Trans -> PC]
  BY DEF TypeInv, TypeOK, Items
<1>2. CASE Savepoint(t) \/ RollbackToSavepoint(t) \/ UndoDone(t)
  <2>1. /\ UNCHANGED <<hold, intent, done, drops, beFree>> /\ pc[t] \in {"active", "partial"}
        /\ \A u \in Trans \ {t} : pc'[u] = pc[u]
    BY <1>1, <1>2 DEF Savepoint, RollbackToSavepoint, UndoDone, At
  <2> QED BY <2>1, NothingGiven, DropKept
<1>3. ASSUME NEW i \in Items, UndoNode(t, i) \/ UnlockRecord(t, i) PROVE DropInv' /\ GivesNothing
  <2>1. ReleaseNode(t, i) /\ UNCHANGED <<intent, drops, beFree, pc>>
    BY <1>3 DEF UndoNode, UnlockRecord
  <2> QED BY <2>1, ReleaseGivesNothing, DropKept
<1>4. ASSUME NEW i \in Items, UndoIntent(t, i) PROVE DropInv' /\ GivesNothing
  <2>1. /\ UNCHANGED <<hold, done, drops, beFree, pc>> /\ intent' = [intent EXCEPT ![i][t] = "NONE"]
        /\ intent \in [Items -> [Trans -> IntentMode]]
    BY <1>4 DEF UndoIntent, TypeInv, TypeOK
  <2>2. GivesNothing
    BY <1>1, <2>1 DEF GivesNothing
  <2> QED BY <2>1, <2>2, DropKept
<1> QED BY <1>2, <1>3, <1>4 DEF Undo

\* The drop is committed under an X lock of its own: nobody else has a node, or an
\* optimistic lock.
LEMMA MarkFreeDrop ==
  ASSUME TypeInv, LockInv, DropInv, NEW t \in Trans, NEW i \in Relations, MarkFree(t, i)
  PROVE  DropInv' /\ GivesNothing
<1>1. /\ pc[t] = "committed" /\ done[i][t] = "X" /\ beFree' = beFree \cup {i}
      /\ drops' = [drops EXCEPT ![t] = @ \cup {i}] /\ UNCHANGED <<hold, done, intent, pc>>
  BY DEF MarkFree
<1>2. /\ i \in Items /\ drops \in [Trans -> SUBSET Relations]
      /\ \A u \in Trans : hold[i][u] \in LockMode /\ intent[i][u] \in IntentMode
  BY DEF TypeInv, TypeOK, Items
<1>3. ASSUME NEW u \in Trans \ {t} PROVE hold[i][u] = "NONE" /\ intent[i][u] = "NONE"
  <2>1. Covers(hold[i][t], "X") /\ Compatible(hold[i][t], hold[i][u]) /\ Compatible("X", intent[i][u])
    BY <1>1, <1>2 DEF LockInv, NodesBackLocks, HoldListSound
  <2>2. Compatible("X", hold[i][u])
    BY <1>2, <2>1, WeakerIsCompatible DEF LockMode
  <2> QED BY <1>2, <2>1, <2>2 DEF Compatible, LockMode, IntentMode
<1>4. \A u \in Trans : drops[u] \subseteq drops'[u]
  BY <1>1, <1>2
<1> QED BY <1>1, <1>2, <1>3, <1>4, NothingGiven DEF DropInv

LEMMA DropStep ==
  ASSUME TypeInv, LockInv, DropInv, [Next]_vars
  PROVE  DropInv' /\ GivesNothing
<1>1. CASE UNCHANGED vars
  BY <1>1, NothingGiven, DropKept DEF vars
<1>2. ASSUME NEW t \in Trans, Begin(t) PROVE DropInv' /\ GivesNothing
  <2>1. /\ UNCHANGED <<hold, intent, done, drops, beFree>> /\ pc[t] = "idle"
        /\ \A u \in Trans \ {t} : pc'[u] = pc[u]
    BY <1>2 DEF Begin, At, TypeInv, TypeOK
  <2> QED BY <2>1, NothingGiven, DropKept
<1>3. ASSUME NEW i \in Relations, AgeLockItem(i) PROVE DropInv' /\ GivesNothing
  BY <1>3, NothingGiven, DropKept DEF AgeLockItem
<1> QED BY <1>1, <1>2, <1>3, RequestDrop, WaitDrop, FinishDrop, UndoDrop, MarkFreeDrop DEF Next

\* The ager frees the lock item of a dropped relation only when it is empty: its dropper
\* was the last to have anything there, and has ended.
LEMMA AgedStep ==
  ASSUME TypeInv, LockInv, DropInv, [Next]_vars
  PROVE  \A i \in beFree \ beFree' :
           \A t \in Trans : hold[i][t] = "NONE" /\ req[i][t] = "NONE" /\ intent[i][t] = "NONE"
<1> SUFFICES ASSUME NEW i \in beFree, i \notin beFree', NEW t \in Trans
             PROVE  hold[i][t] = "NONE" /\ req[i][t] = "NONE" /\ intent[i][t] = "NONE"
  OBVIOUS
<1>1. \A u \in Trans : i \notin drops[u]
  <2>1. CASE UNCHANGED vars
    BY <2>1 DEF vars
  <2>2. ASSUME NEW u \in Trans, Begin(u) \/ Request(u) \/ Wait(u) PROVE beFree' = beFree
    BY <2>2 DEF Begin, Request, LockOptimistic, EnterPessimistic, RowConflict, Wait, DroppedItem, Refuse,
         GrantNow, Enqueue, Suspect, Confirm, Expire, Withdraw, Resume, Proceed, SlotEnter, SlotFreed,
         ContinueScan, SlotConfirm, ExpireSlot, RowEnter, RowDone, RowConfirm, RowExpire, LeaveRow
  <2>3. ASSUME NEW u \in Trans, Finish(u) \/ Undo(u) PROVE beFree' = beFree
    BY <2>3 DEF Finish, EndTrans, StartUnlock, ResetWaitSlot, FreeTrans, UnlockHeld, ClearIntent,
         Undo, Savepoint, RollbackToSavepoint, UndoDone, UndoNode, UndoIntent, UnlockRecord
  <2>4. ASSUME NEW u \in Trans, NEW j \in Relations, MarkFree(u, j) PROVE beFree \subseteq beFree'
    BY <2>4 DEF MarkFree
  <2>5. ASSUME NEW j \in Relations, AgeLockItem(j) PROVE \A u \in Trans : i \notin drops[u]
    BY <2>5 DEF AgeLockItem
  <2> QED BY <2>1, <2>2, <2>3, <2>4, <2>5 DEF Next
<1>2. \A u \in Trans : hold[i][u] = "NONE" /\ intent[i][u] = "NONE"
  BY <1>1 DEF DropInv
<1>3. i \in Items
  BY DEF TypeInv, TypeOK, Items
<1>4. req[i][t] = "NONE"
  BY <1>2, <1>3 DEF LockInv, QueueHasHolder, Requesters, Holders
<1> QED BY <1>2, <1>4

LEMMA DropInvAlways == Spec => [](TypeInv /\ LockInv /\ DropInv)
<1>1. Init => TypeInv /\ DropInv
  BY InitTypeOK DEF TypeInv, CallInv, Init, LockCall, DropInv
<1>2. (TypeInv /\ LockInv /\ DropInv) /\ [Next]_vars => (TypeInv /\ LockInv /\ DropInv)'
  BY NextTypeInv, NextLockInv, DropStep
<1> QED BY <1>1, <1>2, InitLockInv, PTL DEF Spec

\* Nobody gets a lock on a relation after its drop was committed, whether it was asked for
\* before or after: whoever waits is sent away, and the optimistic path is shut.
THEOREM DropsAreFinal == Spec => DropIsFinal
<1>1. TypeInv /\ LockInv /\ DropInv /\ [Next]_vars =>
        \A i \in beFree : \A t \in Trans :
          /\ done'[i][t] \in {done[i][t], "NONE"}
          /\ intent'[i][t] \in {intent[i][t], "NONE"}
  BY DropStep DEF GivesNothing
<1> QED BY <1>1, DropInvAlways, PTL DEF Spec, DropIsFinal

\* The assertion of smklAgingLockHandle: an item that is freed is empty.
THEOREM AgedItemsAreEmpty == Spec => AgedItemIsEmpty
<1> QED BY AgedStep, DropInvAlways, PTL DEF Spec, AgedItemIsEmpty

-----------------------------------------------------------------------------
(* What the wait table shows of the waits that poll.                        *)

\* Whoever polls for a slot or a row has its edge in the wait table, unless the transaction
\* it waits for has ended and is clearing its intents.  (A wait in a queue may miss one:
\* what is granted past the queue adds no edge.)
PollsAreSeen ==
  \A t \in Trans : pc[t] \notin QueueWait =>
    \A u \in WaitsFor(t) : HasEdge(edge, t, u) \/ pc[u] = "intents"

Scanning == {"slotEnter"} \cup SlotPolling

\* The inductive form: the edge stays as long as the optimistic lock, or as the transaction
\* that changed the row, although the slot may be used by another one meanwhile.
PollSound(t) ==
  LET i == call[t].item
      u == call[t].target
  IN  /\ pc[t] \in Scanning /\ intent[i][u] # "NONE" => edge[t][u] = Waits \/ pc[u] = "intents"
      /\ pc[t] \in RowPolling /\ ~call[t].gone => pc[u] # "idle"
      /\ pc[t] \in {"rowPoll", "rowSuspect"} /\ ~call[t].gone => edge[t][u] = Waits \/ pc[u] = "intents"

PollInv == \A t \in Trans : PollSound(t)

\* A scan has its node, which shuts the optimistic path.
LEMMA ScanIsPessimistic ==
  ASSUME TypeInv, LockInv, NEW t \in Trans, pc[t] \in Scanning
  PROVE  call[t].item \in Items /\ pessimistic[call[t].item]
<1>1. call[t].item \in Items /\ call[t].mode # "NONE" /\ call[t].mode \in LockMode
  BY DEF TypeInv, TypeOK, CallInv, LockCall, Call, Scanning, SlotPolling
<1>2. Covers(hold[call[t].item][t], call[t].mode)
  BY DEF LockInv, CallSound, Scanning, SlotPolling
<1>3. hold[call[t].item][t] # "NONE"
  BY <1>1, <1>2 DEF Covers, LockMode
<1> QED BY <1>1, <1>3 DEF LockInv, NodesBackLocks

\* Who polls is in no queue.
LEMMA PollIsNotQueued ==
  ASSUME LockInv, NEW t \in Trans, pc[t] \in Scanning \cup RowPolling
  PROVE  NotQueued(t)
BY DEF LockInv, RequestsAreCalls, Queued, NotQueued, Scanning, SlotPolling, RowPolling

\* The edges of those that queue are the only ones of others that a step changes.
OthersEdgesKept(v) ==
  \A t \in Trans \ {v} : NotQueued(t) => edge'[t] = edge[t]

\* What a step of v has to keep for the others.
LEMMA OthersPoll ==
  ASSUME TypeInv, LockInv, PollInv, NEW v \in Trans,
         \A t \in Trans \ {v} : pc'[t] = pc[t] /\ call'[t] = call[t],
         OthersEdgesKept(v),
         \A i \in Items, u \in Trans : pessimistic[i] => intent'[i][u] \in {intent[i][u], "NONE"},
         pc[v] = "intents" => pc'[v] = "intents",
         pc'[v] = "idle" => pc[v] = "idle",
         PollSound(v)'
  PROVE  PollInv'
<1> SUFFICES ASSUME NEW t \in Trans \ {v} PROVE PollSound(t)'
  BY DEF PollInv
<1> DEFINE i == call[t].item
           u == call[t].target
<1>1. PollSound(t) /\ u \in Trans /\ pc'[t] = pc[t] /\ call'[t] = call[t]
  BY TargetType DEF PollInv
<1>2. (pc[u] = "intents" => pc'[u] = "intents") /\ (pc'[u] = "idle" => pc[u] = "idle")
  BY <1>1
<1>3. CASE pc[t] \in Scanning
  <2>1. edge'[t] = edge[t] /\ intent'[i][u] \in {intent[i][u], "NONE"}
    BY <1>1, <1>3, PollIsNotQueued, ScanIsPessimistic DEF OthersEdgesKept
  <2> QED BY <1>1, <1>2, <1>3, <2>1 DEF PollSound, Scanning, SlotPolling, RowPolling
<1>4. CASE pc[t] \in RowPolling
  <2>1. edge'[t] = edge[t]
    BY <1>4, PollIsNotQueued DEF OthersEdgesKept
  <2> QED BY <1>1, <1>2, <1>4, <2>1 DEF PollSound, Scanning, SlotPolling, RowPolling
<1>5. CASE pc[t] \notin Scanning \cup RowPolling
  BY <1>1, <1>5 DEF PollSound, RowPolling
<1> QED BY <1>3, <1>4, <1>5

LEMMA NoPollSound ==
  ASSUME NEW v \in Trans, pc'[v] \notin Scanning \cup RowPolling
  PROVE  PollSound(v)'
BY DEF PollSound, RowPolling

\* A step of v that moves its own call and, it may be, edges of its own row.
LEMMA OwnPoll ==
  ASSUME TypeInv, LockInv, PollInv, NEW v \in Trans, intent' = intent,
         \A t \in Trans \ {v} : pc'[t] = pc[t] /\ call'[t] = call[t] /\ edge'[t] = edge[t],
         pc[v] # "intents", pc'[v] # "idle", PollSound(v)'
  PROVE  PollInv'
BY OthersPoll DEF OthersEdgesKept

LEMMA ResolveOther ==
  ASSUME TypeInv, NEW t \in Trans, NEW u \in Trans
  PROVE  \A w \in Trans \ {t} : /\ ResolveDeadlock(edge, t)[w] = edge[w]
                                /\ [ResolveDeadlock(edge, t) EXCEPT ![t][u] = NoEdge][w] = edge[w]
<1>1. edge \in [Trans -> [Trans -> EdgeValue]] /\ ResolveDeadlock(edge, t) \in [Trans -> [Trans -> EdgeValue]]
  BY ResolveDeadlockType DEF TypeInv, TypeOK
<1>2. \A w \in Trans \ {t} : ResolveDeadlock(edge, t)[w] = edge[w]
  BY <1>1 DEF ResolveDeadlock
<1> QED BY <1>1, <1>2

LEMMA ScanPoll ==
  ASSUME TypeInv, LockInv, PollInv, NEW v \in Trans, NEW from, Scan(v, from), intent' = intent,
         pc[v] # "intents"
  PROVE  PollInv'
<1>1. pc \in [Trans -> PC] /\ call \in [Trans -> Call] /\ edge \in [Trans -> [Trans -> EdgeValue]]
  BY DEF TypeInv, TypeOK
<1>2. CASE ScanPasses(v, from)
  <2>1. /\ pc'[v] = "active" /\ edge' = edge
        /\ \A t \in Trans \ {v} : pc'[t] = pc[t] /\ call'[t] = call[t]
    BY <1>1, <1>2 DEF ScanPasses, EndCall
  <2>2. PollSound(v)'
    BY <2>1, NoPollSound DEF Scanning, SlotPolling, RowPolling
  <2> QED BY <2>1, <2>2, OwnPoll
<1>3. CASE ScanStops(v, from)
  <2>1. PICK u \in Trans : /\ edge' = [edge EXCEPT ![v][u] = Waits]
                           /\ call' = [call EXCEPT ![v].target = u] /\ pc' = [pc EXCEPT ![v] = "slotEnter"]
    BY <1>3 DEF ScanStops, Blockers, At
  <2>2. /\ pc'[v] = "slotEnter" /\ edge'[v][u] = Waits
        /\ \A t \in Trans \ {v} : pc'[t] = pc[t] /\ call'[t] = call[t] /\ edge'[t] = edge[t]
    BY <1>1, <2>1
  <2>3. call'[v].target = u
    <3>1. call' = [call EXCEPT ![v] = [call[v] EXCEPT !.target = u]]
      BY <2>1
    <3>2. call'[v] = [call[v] EXCEPT !.target = u] /\ call[v] \in Call
      BY <1>1, <3>1
    <3> QED BY <3>2 DEF Call
  <2>4. PollSound(v)'
    BY <2>2, <2>3 DEF PollSound, Scanning, SlotPolling, RowPolling
  <2> QED BY <2>2, <2>4, OwnPoll
<1> QED BY <1>2, <1>3 DEF Scan

LEMMA RequestPoll ==
  ASSUME TypeInv, LockInv, PollInv, NEW v \in Trans, Request(v)
  PROVE  PollInv'
<1>1. pc \in [Trans -> PC] /\ call \in [Trans -> Call] /\ intent \in [Items -> [Trans -> IntentMode]]
  BY DEF TypeInv, TypeOK
<1>2. ASSUME NEW i \in Relations, NEW m, LockOptimistic(v, i, m) PROVE PollInv'
  <2>1. UNCHANGED <<pc, call, edge>> /\ pc[v] = "active" /\ ~pessimistic[i]
        /\ intent' = [intent EXCEPT ![i][v] = Conversion(@, m)]
    BY <1>2 DEF LockOptimistic
  <2>2. \A j \in Items, u \in Trans : pessimistic[j] => intent'[j][u] \in {intent[j][u], "NONE"}
    BY <1>1, <2>1
  <2>3. PollSound(v)'
    BY <2>1, NoPollSound DEF Scanning, SlotPolling, RowPolling
  <2> QED BY <2>1, <2>2, <2>3, OthersPoll DEF OthersEdgesKept
<1>3. ASSUME NEW i, NEW m, NEW nowait, EnterPessimistic(v, i, m, nowait) PROVE PollInv'
  <2>1. /\ pc[v] = "active" /\ pc'[v] = "escalate" /\ UNCHANGED <<intent, edge>>
        /\ \A t \in Trans \ {v} : pc'[t] = pc[t] /\ call'[t] = call[t]
    BY <1>1, <1>3 DEF EnterPessimistic, At
  <2>2. PollSound(v)'
    BY <2>1, NoPollSound DEF Scanning, SlotPolling, RowPolling
  <2> QED BY <2>1, <2>2, OwnPoll
<1>4. ASSUME NEW u \in Trans, RowConflict(v, u) PROVE PollInv'
  <2>1. /\ pc[v] = "active" /\ pc'[v] = "rowWait" /\ UNCHANGED <<intent, edge>> /\ u # v
        /\ pc[u] # "idle" /\ call'[v].target = u
        /\ \A t \in Trans \ {v} : pc'[t] = pc[t] /\ call'[t] = call[t]
    <3>1. call'[v] = [NoCall EXCEPT !.target = u]
      BY <1>1, <1>4 DEF RowConflict
    <3>2. call'[v].target = u
      BY <3>1 DEF NoCall
    <3> QED BY <1>1, <1>4, <3>2 DEF RowConflict, At, Ended
  <2>2. PollSound(v)'
    BY <2>1 DEF PollSound, Scanning, SlotPolling, RowPolling
  <2> QED BY <2>1, <2>2, OwnPoll
<1> QED BY <1>2, <1>3, <1>4 DEF Request

\* The end of a call.
LEMMA EndCallPoll ==
  ASSUME TypeInv, LockInv, PollInv, NEW v \in Trans, EndCall(v), intent' = intent, pc[v] # "intents",
         \A t \in Trans \ {v} : edge'[t] = edge[t]
  PROVE  PollInv'
<1>1. /\ pc'[v] = "active"
      /\ \A t \in Trans \ {v} : pc'[t] = pc[t] /\ call'[t] = call[t]
  BY DEF EndCall, TypeInv, TypeOK
<1>2. PollSound(v)'
  BY <1>1, NoPollSound DEF Scanning, SlotPolling, RowPolling
<1> QED BY <1>1, <1>2, OwnPoll

\* A step of a call that polls for nothing.
LEMMA PlainPoll ==
  ASSUME TypeInv, LockInv, PollInv, NEW v \in Trans, NEW l \in PC, At(v, l), intent' = intent, call' = call,
         l \notin Scanning \cup RowPolling, l # "idle", pc[v] # "intents",
         \A t \in Trans \ {v} : edge'[t] = edge[t]
  PROVE  PollInv'
<1>1. pc'[v] = l /\ \A t \in Trans \ {v} : pc'[t] = pc[t]
  BY DEF At, TypeInv, TypeOK
<1>2. PollSound(v)'
  BY <1>1, NoPollSound
<1> QED BY <1>1, <1>2, OwnPoll

LEMMA QueuePoll ==
  ASSUME TypeInv, LockInv, PollInv, NEW v \in Trans,
         \/ DroppedItem(v) \/ Refuse(v) \/ GrantNow(v) \/ Enqueue(v) \/ Confirm(v) \/ Expire(v)
         \/ Withdraw(v) \/ Resume(v) \/ Proceed(v)
  PROVE  PollInv'
<1>1. edge \in [Trans -> [Trans -> EdgeValue]]
  BY DEF TypeInv, TypeOK
<1>2. CASE DroppedItem(v) \/ Refuse(v) \/ Withdraw(v)
  BY <1>2, EndCallPoll DEF DroppedItem, Refuse, Withdraw
<1>3. CASE GrantNow(v)
  BY <1>3, ScanPoll DEF GrantNow
<1>4. CASE Proceed(v)
  BY <1>4, ScanPoll, EndCallPoll DEF Proceed
<1>5. CASE Enqueue(v)
  BY <1>1, <1>5, PlainPoll DEF Enqueue, PC, Scanning, SlotPolling, RowPolling
<1>6. CASE Expire(v) \/ Resume(v)
  BY <1>6, PlainPoll DEF Expire, Resume, PC, Scanning, SlotPolling, RowPolling
<1>7. CASE Confirm(v)
  <2>1. pc[v] = "suspect" /\ intent' = intent /\ call' = call /\ (At(v, "victim") \/ At(v, "blocked"))
    BY <1>7 DEF Confirm
  <2>2. \A t \in Trans \ {v} : edge'[t] = edge[t]
    BY <1>7, ResolveOther, TransType DEF Confirm
  <2> QED BY <2>1, <2>2, PlainPoll DEF PC, Scanning, SlotPolling, RowPolling
<1> QED BY <1>2, <1>3, <1>4, <1>5, <1>6, <1>7

\* The steps of a wait on a slot.
LEMMA SlotPoll ==
  ASSUME TypeInv, LockInv, PollInv, NEW v \in Trans,
         SlotEnter(v) \/ SlotFreed(v) \/ ContinueScan(v) \/ SlotConfirm(v) \/ ExpireSlot(v)
  PROVE  PollInv'
<1>1. /\ edge \in [Trans -> [Trans -> EdgeValue]] /\ pc \in [Trans -> PC] /\ call \in [Trans -> Call]
      /\ call[v].target \in Trans
  BY TargetType DEF TypeInv, TypeOK
<1>2. CASE SlotEnter(v)
  <2>1. /\ pc[v] = "slotEnter" /\ pc'[v] = "slotWait" /\ UNCHANGED <<intent, edge>>
        /\ \A t \in Trans \ {v} : pc'[t] = pc[t] /\ call'[t] = call[t]
        /\ call' = [call EXCEPT ![v] = [call[v] EXCEPT !.gone = FALSE]]
    BY <1>1, <1>2 DEF SlotEnter, At
  <2>2. call'[v] = [call[v] EXCEPT !.gone = FALSE] /\ call[v] \in Call
    BY <1>1, <2>1
  <2>3. call'[v].item = call[v].item /\ call'[v].target = call[v].target
    BY <2>2 DEF Call
  <2>4. call[v].target # v => pc'[call[v].target] = pc[call[v].target]
    BY <1>1, <2>1
  <2>5. PollSound(v)'
    BY <2>1, <2>3, <2>4 DEF PollInv, PollSound, Scanning, SlotPolling, RowPolling
  <2> QED BY <2>1, <2>5, OwnPoll
<1>3. CASE SlotFreed(v)
  BY <1>1, <1>3, PlainPoll DEF SlotFreed, PC, Scanning, SlotPolling, RowPolling
<1>4. CASE ContinueScan(v)
  BY <1>4, ScanPoll DEF ContinueScan
<1>5. CASE ExpireSlot(v)
  BY <1>1, <1>5, EndCallPoll DEF ExpireSlot
<1>6. CASE SlotConfirm(v)
  <2>1. pc[v] = "slotSuspect" /\ intent' = intent
    BY <1>6 DEF SlotConfirm
  <2>2. CASE EndCall(v) /\ edge' = [ResolveDeadlock(edge, v) EXCEPT ![v][call[v].target] = NoEdge]
    BY <1>1, <2>1, <2>2, ResolveOther, EndCallPoll
  <2>3. CASE At(v, "slotEnter") /\ UNCHANGED <<edge, call>>
    <3>1. pc'[v] = "slotEnter" /\ \A t \in Trans \ {v} : pc'[t] = pc[t]
      BY <1>1, <2>3 DEF At
    <3>2. call[v].target # v => pc'[call[v].target] = pc[call[v].target]
      BY <1>1, <3>1
    <3>3. PollSound(v)'
      BY <2>1, <2>3, <3>1, <3>2 DEF PollInv, PollSound, Scanning, SlotPolling, RowPolling
    <3> QED BY <2>1, <2>3, <3>1, <3>3, OwnPoll
  <2> QED BY <1>6, <2>2, <2>3 DEF SlotConfirm
<1> QED BY <1>2, <1>3, <1>4, <1>5, <1>6

\* The check before, and the steps of a wait on a row.
LEMMA RowPoll ==
  ASSUME TypeInv, LockInv, PollInv, NEW v \in Trans,
         Suspect(v) \/ RowEnter(v) \/ RowDone(v) \/ RowConfirm(v) \/ RowExpire(v)
  PROVE  PollInv'
<1>1. /\ edge \in [Trans -> [Trans -> EdgeValue]] /\ pc \in [Trans -> PC] /\ call \in [Trans -> Call]
      /\ call[v].target \in Trans
  BY TargetType DEF TypeInv, TypeOK
<1>2. CASE RowDone(v) \/ RowExpire(v)
  BY <1>1, <1>2, EndCallPoll DEF RowDone, RowExpire, LeaveRow
<1>3. CASE RowEnter(v)
  <2>1. /\ pc[v] = "rowWait" /\ pc'[v] = "rowPoll" /\ UNCHANGED <<intent, call>>
        /\ edge'[v][call[v].target] = Waits
        /\ \A t \in Trans \ {v} : pc'[t] = pc[t] /\ edge'[t] = edge[t]
    BY <1>1, <1>3 DEF RowEnter, At
  <2>2. call[v].target # v => pc'[call[v].target] = pc[call[v].target]
    BY <1>1, <2>1
  <2>3. PollSound(v)'
    BY <2>1, <2>2 DEF PollInv, PollSound, Scanning, SlotPolling, RowPolling
  <2> QED BY <2>1, <2>3, OwnPoll
<1>4. CASE RowConfirm(v)
  <2>1. pc[v] = "rowSuspect" /\ intent' = intent
    BY <1>4 DEF RowConfirm
  <2>2. CASE EndCall(v) /\ edge' = [ResolveDeadlock(edge, v) EXCEPT ![v][call[v].target] = NoEdge]
    BY <1>1, <2>1, <2>2, ResolveOther, EndCallPoll
  <2>3. CASE At(v, "rowPoll") /\ UNCHANGED <<edge, call>>
    <3>1. pc'[v] = "rowPoll" /\ \A t \in Trans \ {v} : pc'[t] = pc[t]
      BY <1>1, <2>3 DEF At
    <3>2. call[v].target # v => pc'[call[v].target] = pc[call[v].target]
      BY <1>1, <3>1
    <3>3. PollSound(v)'
      BY <2>1, <2>3, <3>1, <3>2 DEF PollInv, PollSound, Scanning, SlotPolling, RowPolling
    <3> QED BY <2>1, <2>3, <3>1, <3>3, OwnPoll
  <2> QED BY <1>4, <2>2, <2>3 DEF RowConfirm
<1>5. CASE Suspect(v)
  <2>1. /\ UNCHANGED <<intent, edge, call>> /\ \A t \in Trans \ {v} : pc'[t] = pc[t]
        /\ \/ pc[v] = "blocked" /\ pc'[v] = "suspect"
           \/ pc[v] = "slotWait" /\ pc'[v] = "slotSuspect"
           \/ pc[v] = "rowPoll" /\ pc'[v] = "rowSuspect"
    BY <1>1, <1>5 DEF Suspect, At
  <2>2. call[v].target # v => pc'[call[v].target] = pc[call[v].target]
    BY <1>1, <2>1
  <2>3. PollSound(v)'
    BY <2>1, <2>2 DEF PollInv, PollSound, Scanning, SlotPolling, RowPolling
  <2> QED BY <2>1, <2>3, OwnPoll
<1> QED BY <1>2, <1>3, <1>4, <1>5

\* A release changes the edges of those that queue on the item, and no others.
LEMMA ReleasePoll ==
  ASSUME TypeInv, LockInv, PollInv, NEW v \in Trans, NEW i \in Items, ReleaseNode(v, i),
         UNCHANGED <<intent, pc, call>>, pc[v] \notin Scanning \cup RowPolling
  PROVE  PollInv'
<1>1. edge \in [Trans -> [Trans -> EdgeValue]]
  BY DEF TypeInv, TypeOK
<1>2. \A r \in Trans \ Requesters(i) : EdgesWithout(i, v)[r] = edge[r]
  BY DEF EdgesWithout
<1>3. ASSUME NEW r \in Trans \ Requesters(i) PROVE edge'[r] = edge[r]
  <2>1. CASE edge' = EdgesWithout(i, v)
    BY <1>2, <2>1
  <2>2. CASE ReleaseToQueue(v, i)
    <3>1. PICK G \in SUBSET Requesters(i) :
            edge' = [s \in Trans |-> [u \in Trans |->
                       IF s \in Requesters(i) \ G /\ u \in G \cap ahead[i][s] THEN Waits
                       ELSE EdgesWithout(i, v)[s][u]]]
      BY <2>2 DEF ReleaseToQueue
    <3>2. edge'[r] = [u \in Trans |-> EdgesWithout(i, v)[r][u]]
      BY <3>1
    <3>3. edge[r] = [u \in Trans |-> edge[r][u]]
      BY <1>1
    <3> QED BY <1>2, <3>2, <3>3
  <2> QED BY <2>1, <2>2 DEF ReleaseNode, ReleaseDropped, ReleaseToUpgrade, ReleaseToHolders
<1>4. OthersEdgesKept(v)
  BY <1>3 DEF OthersEdgesKept, NotQueued
<1>5. PollSound(v)'
  BY NoPollSound
<1>6. \A j \in Items, u \in Trans : pessimistic[j] => intent'[j][u] \in {intent[j][u], "NONE"}
  OBVIOUS
<1> QED BY <1>4, <1>5, <1>6, OthersPoll

LEMMA ClearPoll ==
  ASSUME TypeInv, LockInv, PollInv, NEW v \in Trans, NEW i \in Items, ClearIntent(v, i) \/ UndoIntent(v, i)
  PROVE  PollInv'
<1>1. /\ UNCHANGED <<pc, call, edge>> /\ intent' = [intent EXCEPT ![i][v] = "NONE"]
      /\ pc[v] \in {"intents", "partial"}
  BY DEF ClearIntent, UndoIntent
<1>2. \A j \in Items, u \in Trans : pessimistic[j] => intent'[j][u] \in {intent[j][u], "NONE"}
  BY <1>1 DEF TypeInv, TypeOK
<1>3. PollSound(v)'
  BY <1>1, NoPollSound DEF Scanning, SlotPolling, RowPolling
<1> QED BY <1>1, <1>2, <1>3, OthersPoll DEF OthersEdgesKept

\* The column of the slot is cleared before the intents: until they are, pc is "intents".
LEMMA ResetPoll ==
  ASSUME TypeInv, LockInv, PollInv, NEW v \in Trans, ResetWaitSlot(v)
  PROVE  PollInv'
<1>1. /\ UNCHANGED <<intent, call>> /\ pc[v] = "unlock" /\ pc'[v] = "intents"
      /\ edge' = [r \in Trans |-> [edge[r] EXCEPT ![v] = NoEdge]]
      /\ \A t \in Trans \ {v} : pc'[t] = pc[t]
  BY DEF ResetWaitSlot, At, TypeInv, TypeOK
<1> SUFFICES ASSUME NEW t \in Trans PROVE PollSound(t)'
  BY DEF PollInv
<1>2. call[t].target \in Trans /\ edge \in [Trans -> [Trans -> EdgeValue]]
  BY TargetType DEF TypeInv, TypeOK
<1>3. CASE t = v
  BY <1>1, <1>3, NoPollSound DEF Scanning, SlotPolling, RowPolling
<1>4. CASE t # v /\ call[t].target = v
  BY <1>1, <1>4 DEF PollInv, PollSound
<1>5. CASE t # v /\ call[t].target # v
  <2>1. /\ edge'[t][call[t].target] = edge[t][call[t].target]
        /\ pc'[t] = pc[t] /\ pc'[call[t].target] = pc[call[t].target]
    BY <1>1, <1>2, <1>5
  <2> QED BY <1>1, <2>1 DEF PollInv, PollSound
<1> QED BY <1>3, <1>4, <1>5

\* A slot that is freed has no intents left, and tells those who wait for its transaction.
LEMMA FreePoll ==
  ASSUME TypeInv, LockInv, PollInv, NEW v \in Trans, FreeTrans(v)
  PROVE  PollInv'
<1>1. /\ UNCHANGED <<intent, edge>> /\ pc[v] = "intents" /\ pc'[v] = "idle"
      /\ \A i \in Items : intent[i][v] = "NONE"
      /\ \A t \in Trans \ {v} : pc'[t] = pc[t]
      /\ call' = [u \in Trans |->
                    IF call[u].target = v /\ pc[u] \in SlotPolling \cup RowPolling
                    THEN [call[u] EXCEPT !.gone = TRUE] ELSE call[u]]
  BY DEF FreeTrans, At, TypeInv, TypeOK
<1> SUFFICES ASSUME NEW t \in Trans PROVE PollSound(t)'
  BY DEF PollInv
<1>2. call[t].target \in Trans /\ call[t] \in Call
  BY TargetType DEF TypeInv, TypeOK
<1>3. CASE t = v
  BY <1>1, <1>3, NoPollSound DEF Scanning, SlotPolling, RowPolling
<1>4. call'[t] = call[t] \/ call'[t] = [call[t] EXCEPT !.gone = TRUE]
  BY <1>1
<1>5. call'[t].item = call[t].item /\ call'[t].target = call[t].target
  BY <1>2, <1>4 DEF Call
<1>6. CASE t # v /\ call[t].target = v
  <2>1. pc[t] \in RowPolling => call'[t].gone
    <3>1. pc[t] \in RowPolling => call'[t] = [call[t] EXCEPT !.gone = TRUE]
      BY <1>1, <1>6
    <3> QED BY <1>2, <3>1 DEF Call
  <2>2. pc[t] \in Scanning => intent'[call[t].item][v] = "NONE"
    BY <1>1, ScanIsPessimistic
  <2> QED BY <1>1, <1>5, <1>6, <2>1, <2>2 DEF PollSound, RowPolling
<1>7. CASE t # v /\ call[t].target # v
  <2>1. pc'[t] = pc[t] /\ pc'[call[t].target] = pc[call[t].target] /\ call'[t] = call[t]
    BY <1>1, <1>2, <1>7
  <2> QED BY <1>1, <2>1 DEF PollInv, PollSound
<1> QED BY <1>3, <1>6, <1>7

LEMMA PlainStepsPoll ==
  ASSUME TypeInv, LockInv, PollInv, NEW v \in Trans,
         \/ Begin(v) \/ EndTrans(v) \/ StartUnlock(v) \/ Savepoint(v) \/ RollbackToSavepoint(v) \/ UndoDone(v)
  PROVE  PollInv'
<1>1. /\ UNCHANGED <<intent, edge, call>> /\ \A t \in Trans \ {v} : pc'[t] = pc[t]
      /\ pc[v] # "intents" /\ pc'[v] \in {"active", "committed", "unlock", "partial"}
  BY DEF Begin, EndTrans, StartUnlock, Savepoint, RollbackToSavepoint, UndoDone, At, TypeInv, TypeOK
<1>2. PollSound(v)'
  BY <1>1, NoPollSound DEF Scanning, SlotPolling, RowPolling
<1> QED BY <1>1, <1>2, OwnPoll

LEMMA PollStep ==
  ASSUME TypeInv, LockInv, PollInv, [Next]_vars
  PROVE  PollInv'
<1>1. CASE UNCHANGED <<pc, call, intent, edge>>
  BY <1>1 DEF PollInv, PollSound
<1>2. ASSUME NEW v \in Trans, Wait(v) PROVE PollInv'
  BY <1>2, QueuePoll, SlotPoll, RowPoll DEF Wait
<1>3. ASSUME NEW v \in Trans, Finish(v) PROVE PollInv'
  <2>1. ASSUME NEW i \in Items, UnlockHeld(v, i) PROVE PollInv'
    BY <2>1, ReleasePoll DEF UnlockHeld, Scanning, SlotPolling, RowPolling
  <2> QED BY <1>3, <2>1, PlainStepsPoll, ResetPoll, FreePoll, ClearPoll DEF Finish
<1>4. ASSUME NEW v \in Trans, Undo(v) PROVE PollInv'
  <2>1. ASSUME NEW i \in Items, UndoNode(v, i) \/ UnlockRecord(v, i) PROVE PollInv'
    BY <2>1, ReleasePoll DEF UndoNode, UnlockRecord, Scanning, SlotPolling, RowPolling
  <2> QED BY <1>4, <2>1, PlainStepsPoll, ClearPoll DEF Undo
<1>5. ASSUME NEW i \in Relations, AgeLockItem(i) \/ \E t \in Trans : MarkFree(t, i) PROVE PollInv'
  BY <1>1, <1>5 DEF AgeLockItem, MarkFree
<1>6. CASE UNCHANGED vars
  BY <1>1, <1>6 DEF vars
<1> QED BY <1>2, <1>3, <1>4, <1>5, <1>6, RequestPoll, PlainStepsPoll DEF Next

\* The wait table never misses a wait on a slot or on a row, although slots are reused and
\* victims switch their edges off: what the search for deadlocks can miss is in a queue only.
THEOREM PollsStaySeen == Spec => []PollsAreSeen
<1>1. Init => PollInv
  BY DEF Init, PollInv, PollSound, Scanning, SlotPolling, RowPolling
<1>2. (TypeInv /\ LockInv /\ PollInv) /\ [Next]_vars => (TypeInv /\ LockInv /\ PollInv)'
  BY NextTypeInv, NextLockInv, PollStep
<1>3. PollInv => PollsAreSeen
  BY DEF PollInv, PollSound, PollsAreSeen, WaitsFor, WaitingOn, Waiting, QueueWait, HasEdge, Scanning,
         SlotPolling, RowPolling
<1>4. Init => TypeInv /\ LockInv
  BY InitTypeOK, InitLockInv DEF TypeInv, CallInv, Init, LockCall
<1> QED BY <1>1, <1>2, <1>3, <1>4, PTL DEF Spec

-----------------------------------------------------------------------------
(* LockManager implements LockTable: every step grants one lock, lowers one *)
(* lock, or is not seen by the clients.                                     *)

\* The table and the lock manager have the same modes, order and matrices.
LEMMA SameModes ==
  /\ Table!LockMode = LockMode
  /\ \A a, b : Table!Covers(a, b) = Covers(a, b)
  /\ \A a, b : Table!Compatible(a, b) = Compatible(a, b)
  /\ \A a, b : Table!Conversion(a, b) = Conversion(a, b)
<1>1. \A a, b : Table!Covers(a, b) = Covers(a, b)
  BY DEF Table!Covers, Covers
<1>2. \A a, b : Table!Compatible(a, b) = Compatible(a, b)
  BY DEF Table!Compatible, Compatible
<1>3. \A a, b : Table!Conversion(a, b) = Conversion(a, b)
  BY <1>1 DEF Table!Conversion, Conversion
<1>4. Table!LockMode = LockMode
  BY DEF Table!LockMode, LockMode
<1> QED
  BY <1>1, <1>2, <1>3, <1>4

LEMMA GrantedType ==
  ASSUME TypeInv, NEW i \in Items, NEW t \in Trans
  PROVE  /\ done[i][t] \in LockMode /\ intent[i][t] \in LockMode
         /\ Granted(i, t) \in LockMode
<1>1. done[i][t] \in LockMode /\ intent[i][t] \in IntentMode
  BY DEF TypeInv, TypeOK
<1>2. intent[i][t] \in LockMode
  BY <1>1, IntentsCompatible
<1> QED
  BY <1>1, <1>2, ConversionType DEF Granted

\* A step that touches neither of the two is a stutter of the table.
LEMMA HiddenStep ==
  ASSUME UNCHANGED <<done, intent>>
  PROVE  GrantedTable' = GrantedTable
BY DEF GrantedTable, Granted

\* The entries of the table that a step leaves alone.
OnlyChanges(t, i) ==
  \A j \in Items, u \in Trans :
    j # i \/ u # t => done'[j][u] = done[j][u] /\ intent'[j][u] = intent[j][u]

LEMMA OneEntry ==
  ASSUME NEW t \in Trans, NEW i \in Items, OnlyChanges(t, i)
  PROVE  GrantedTable' = [GrantedTable EXCEPT ![i][t] = Granted(i, t)']
<1> DEFINE G == [GrantedTable EXCEPT ![i][t] = Granted(i, t)']
<1>1. \A j \in Items, u \in Trans : j # i \/ u # t => Granted(j, u)' = Granted(j, u)
  BY DEF OnlyChanges, Granted
<1>2. ASSUME NEW j \in Items
      PROVE  G[j] = [u \in Trans |-> Granted(j, u)']
  BY <1>1 DEF GrantedTable
<1>3. G = [j \in Items |-> [u \in Trans |-> Granted(j, u)']]
  BY <1>2 DEF GrantedTable
<1>4. GrantedTable' = [j \in Items |-> [u \in Trans |-> Granted(j, u)']]
  BY DEF GrantedTable
<1> QED
  BY <1>3, <1>4

\* A lock that grows: nobody else minds, since nobody conflicts with the result.
LEMMA GrantStep ==
  ASSUME TypeInv, TypeInv', LockInv', NEW t \in Trans, NEW i \in Items, NEW m \in LockMode,
         OnlyChanges(t, i), Granted(i, t)' = Conversion(Granted(i, t), m)
  PROVE  Table!Next
<1>1. GrantedTable[i][t] = Granted(i, t) /\ \A u \in Trans : GrantedTable[i][u] = Granted(i, u)
  BY DEF GrantedTable
<1>2. \A u \in Trans \ {t} : Granted(i, u)' = Granted(i, u)
  BY DEF OnlyChanges, Granted
<1>3. Covers(Granted(i, t)', m) /\ Granted(i, t)' \in LockMode
  BY GrantedType, ConversionCovers, ConversionType
<1>4. GrantedCompatible'
  BY InvExcludes, PTL
<1>5. ASSUME NEW u \in Trans \ {t} PROVE Compatible(Granted(i, u), m)
  <2>1. Granted(i, u) \in LockMode
    BY GrantedType
  <2>2. Compatible(Granted(i, t)', Granted(i, u))
    BY <1>2, <1>4 DEF GrantedCompatible
  <2>3. Compatible(m, Granted(i, u))
    BY <1>3, <2>1, <2>2, WeakerIsCompatible
  <2> QED
    BY <2>1, <2>3, CompatibleSymmetric
<1>6. Table!Grant(t, i, m)
  <2>1. GrantedTable' = [GrantedTable EXCEPT ![i][t] = Conversion(GrantedTable[i][t], m)]
    BY <1>1, OneEntry
  <2>2. \A u \in Trans \ {t} : Compatible(GrantedTable[i][u], m)
    BY <1>1, <1>5
  <2> QED
    BY <2>1, <2>2, SameModes DEF Table!Grant
<1> QED
  BY <1>6, SameModes DEF Table!Next

\* A lock that shrinks.
LEMMA ReleaseStep ==
  ASSUME TypeInv, TypeInv', NEW t \in Trans, NEW i \in Items,
         OnlyChanges(t, i), Covers(Granted(i, t), Granted(i, t)')
  PROVE  Table!Next
<1>1. GrantedTable[i][t] = Granted(i, t)
  BY DEF GrantedTable
<1>2. Granted(i, t)' \in LockMode
  <2>1. done'[i][t] \in LockMode /\ intent'[i][t] \in LockMode
    BY IntentsCompatible DEF TypeInv, TypeOK
  <2> QED
    BY <2>1, ConversionType DEF Granted
<1>3. PICK m \in LockMode : m = Granted(i, t)'
  BY <1>2
<1>4. Table!Release(t, i, m)
  <2>1. GrantedTable' = [GrantedTable EXCEPT ![i][t] = m]
    BY <1>3, OneEntry
  <2>2. Covers(GrantedTable[i][t], m)
    BY <1>1, <1>3
  <2> QED
    BY <2>1, <2>2, SameModes DEF Table!Release
<1> QED
  BY <1>3, <1>4, SameModes DEF Table!Next

LEMMA LockOptimisticGrants ==
  ASSUME TypeInv, TypeInv', LockInv', NEW t \in Trans, NEW i \in Relations, NEW m \in {"IS", "IX"},
         LockOptimistic(t, i, m)
  PROVE  Table!Next
<1>1. i \in Items /\ m \in LockMode /\ UNCHANGED done
  BY DEF Items, LockMode, LockOptimistic
<1>2. OnlyChanges(t, i) /\ intent'[i][t] = Conversion(intent[i][t], m)
  BY <1>1 DEF OnlyChanges, LockOptimistic, TypeInv, TypeOK
<1>3. Granted(i, t)' = Conversion(Granted(i, t), m)
  <2>1. done[i][t] \in LockMode /\ intent[i][t] \in LockMode
    BY <1>1, GrantedType
  <2>2. Granted(i, t)' = Conversion(done[i][t], Conversion(intent[i][t], m))
    BY <1>1, <1>2 DEF Granted
  <2>3. Conversion(done[i][t], Conversion(intent[i][t], m))
          = Conversion(Conversion(done[i][t], intent[i][t]), m)
    <3>1. PICK a \in LockMode, b \in LockMode : a = done[i][t] /\ b = intent[i][t]
      BY <2>1
    <3>2. Conversion(a, Conversion(b, m)) = Conversion(Conversion(a, b), m)
      BY <1>1, ConversionOrder
    <3> QED
      BY <3>1, <3>2
  <2>4. Granted(i, t) = Conversion(done[i][t], intent[i][t])
    BY DEF Granted
  <2> QED
    BY <2>2, <2>3, <2>4
<1> QED
  BY <1>1, <1>2, <1>3, GrantStep

LEMMA ScanGrants ==
  ASSUME TypeInv, TypeInv', LockInv', NEW t \in Trans, NEW from, Scan(t, from), pc[t] \in LockCall,
         UNCHANGED intent
  PROVE  Table!Next \/ GrantedTable' = GrantedTable
<1>1. CASE ScanStops(t, from)
  BY <1>1, HiddenStep DEF ScanStops
<1>2. CASE ScanPasses(t, from)
  <2>1. PICK i \in Items, m \in LockMode : i = call[t].item /\ m = call[t].mode
    BY LockCallType
  <2>2. OnlyChanges(t, i) /\ done'[i][t] = Conversion(done[i][t], m)
    BY <1>2, <2>1 DEF OnlyChanges, ScanPasses, TypeInv, TypeOK
  <2>3. Granted(i, t)' = Conversion(Granted(i, t), m)
    BY <2>1, <2>2, GrantedType, ConversionOrder DEF Granted
  <2> QED
    BY <2>1, <2>2, <2>3, GrantStep
<1> QED
  BY <1>1, <1>2 DEF Scan

LEMMA UnlockReleases ==
  ASSUME TypeInv, TypeInv', NEW t \in Trans, NEW i \in Items,
         UnlockHeld(t, i) \/ UndoNode(t, i) \/ UnlockRecord(t, i)
  PROVE  Table!Next
<1>1. done' = [done EXCEPT ![i][t] = "NONE"] /\ UNCHANGED intent
  BY DEF UnlockHeld, UndoNode, UnlockRecord, ReleaseNode, ReleaseDropped, ReleaseToQueue,
         ReleaseToUpgrade, ReleaseToHolders, DropNode
<1>2. OnlyChanges(t, i) /\ done'[i][t] = "NONE"
  BY <1>1 DEF OnlyChanges, TypeInv, TypeOK
<1>3. Granted(i, t)' = intent[i][t]
  BY <1>1, <1>2, GrantedType, NoneIsNeutral DEF Granted
<1>4. Covers(Granted(i, t), Granted(i, t)')
  BY <1>3, GrantedType, ConversionCovers DEF Granted
<1> QED
  BY <1>2, <1>4, ReleaseStep

LEMMA ClearIntentReleases ==
  ASSUME TypeInv, TypeInv', NEW t \in Trans, NEW i \in Items, ClearIntent(t, i) \/ UndoIntent(t, i)
  PROVE  Table!Next
<1>1. intent' = [intent EXCEPT ![i][t] = "NONE"] /\ UNCHANGED done
  BY DEF ClearIntent, UndoIntent
<1>2. OnlyChanges(t, i) /\ intent'[i][t] = "NONE"
  BY <1>1 DEF OnlyChanges, TypeInv, TypeOK
<1>3. Granted(i, t)' = done[i][t]
  BY <1>1, <1>2, GrantedType, ConversionOrder DEF Granted
<1>4. Covers(Granted(i, t), Granted(i, t)')
  BY <1>3, GrantedType, ConversionCovers DEF Granted
<1> QED
  BY <1>2, <1>4, ReleaseStep

LEMMA NextImplements ==
  TypeInv /\ TypeInv' /\ LockInv' /\ [Next]_vars => [Table!Next]_GrantedTable
<1> SUFFICES ASSUME TypeInv, TypeInv', LockInv', [Next]_vars
             PROVE  Table!Next \/ GrantedTable' = GrantedTable
  OBVIOUS
<1>1. ASSUME NEW t \in Trans, Request(t) PROVE Table!Next \/ GrantedTable' = GrantedTable
  <2>1. ASSUME NEW i \in Relations, NEW m \in RelationModes, LockOptimistic(t, i, m) PROVE Table!Next
    BY <2>1, LockOptimisticGrants DEF LockOptimistic
  <2>2. ASSUME NEW i, NEW m, NEW nowait, EnterPessimistic(t, i, m, nowait)
        PROVE  GrantedTable' = GrantedTable
    BY <2>2, HiddenStep DEF EnterPessimistic
  <2>3. ASSUME NEW u \in Trans, RowConflict(t, u) PROVE GrantedTable' = GrantedTable
    BY <2>3, HiddenStep DEF RowConflict
  <2> QED
    BY <1>1, <2>1, <2>2, <2>3 DEF Request
<1>2. ASSUME NEW t \in Trans, Wait(t) PROVE Table!Next \/ GrantedTable' = GrantedTable
  <2>1. CASE GrantNow(t)
    BY <2>1, ScanGrants DEF GrantNow, LockCall
  <2>2. CASE Proceed(t)
    <3>1. CASE UNCHANGED done
      BY <2>2, <3>1, HiddenStep DEF Proceed
    <3>2. CASE Scan(t, 0)
      BY <2>2, <3>2, ScanGrants DEF Proceed, LockCall
    <3> QED
      BY <2>2, <3>1, <3>2 DEF Proceed
  <2>3. CASE ContinueScan(t)
    BY <2>3, ScanGrants DEF ContinueScan, LockCall
  <2>4. CASE \/ DroppedItem(t) \/ Refuse(t) \/ Enqueue(t) \/ Suspect(t) \/ Confirm(t)
             \/ Expire(t) \/ Withdraw(t) \/ Resume(t) \/ SlotEnter(t) \/ SlotFreed(t)
             \/ SlotConfirm(t) \/ ExpireSlot(t) \/ RowEnter(t) \/ RowDone(t) \/ RowConfirm(t)
             \/ RowExpire(t)
    <3>1. UNCHANGED <<done, intent>>
      BY <2>4 DEF DroppedItem, Refuse, Enqueue, Suspect, Confirm, Expire, Withdraw, Resume,
                  SlotEnter, SlotFreed, SlotConfirm, ExpireSlot, RowEnter, RowDone, RowConfirm,
                  RowExpire, LeaveRow
    <3> QED
      BY <3>1, HiddenStep
  <2> QED
    BY <1>2, <2>1, <2>2, <2>3, <2>4 DEF Wait
<1>3. ASSUME NEW t \in Trans, Finish(t) PROVE Table!Next \/ GrantedTable' = GrantedTable
  <2>1. EndTrans(t) \/ StartUnlock(t) \/ ResetWaitSlot(t) \/ FreeTrans(t) => UNCHANGED <<done, intent>>
    BY DEF EndTrans, StartUnlock, ResetWaitSlot, FreeTrans
  <2> QED
    BY <1>3, <2>1, HiddenStep, UnlockReleases, ClearIntentReleases DEF Finish
<1>4. ASSUME NEW t \in Trans, Undo(t) PROVE Table!Next \/ GrantedTable' = GrantedTable
  <2>1. Savepoint(t) \/ RollbackToSavepoint(t) \/ UndoDone(t) => UNCHANGED <<done, intent>>
    BY DEF Savepoint, RollbackToSavepoint, UndoDone
  <2> QED
    BY <1>4, <2>1, HiddenStep, UnlockReleases, ClearIntentReleases DEF Undo
<1>5. ASSUME NEW t \in Trans, Begin(t) PROVE GrantedTable' = GrantedTable
  BY <1>5, HiddenStep DEF Begin
<1>6. ASSUME NEW i \in Relations, AgeLockItem(i) \/ \E t \in Trans : MarkFree(t, i)
      PROVE  GrantedTable' = GrantedTable
  BY <1>6, HiddenStep DEF AgeLockItem, MarkFree
<1>7. CASE UNCHANGED vars
  BY <1>7, HiddenStep DEF vars
<1> QED
  BY <1>1, <1>2, <1>3, <1>4, <1>5, <1>6, <1>7 DEF Next

LEMMA InitImplements == Init => Table!Init
<1> SUFFICES ASSUME Init PROVE GrantedTable = [i \in Items |-> [t \in Trans |-> "NONE"]]
  BY DEF Table!Init
<1>1. Conversion("NONE", "NONE") = "NONE"
  BY DEF Conversion, Covers
<1> QED
  BY <1>1 DEF Init, GrantedTable, Granted

\* The hold lists, the intention arrays and the waits together are, to their
\* clients, one table of locks in which a grant never conflicts with another.
THEOREM LockManagerImplementsLockTable == Spec => ImplementsLockTable
<1>1. Init => TypeInv
  BY InitTypeOK DEF TypeInv, CallInv, Init, LockCall
<1> QED
  BY <1>1, InitImplements, NextImplements, NextTypeInv, LockInvariant, PTL
  DEF Spec, ImplementsLockTable, Table!Spec

-----------------------------------------------------------------------------
(* Deadlocks.  In a system of list nodes alone the wait table is exact as   *)
(* far as it goes, and the search of smklWaitGraph.c decides about waits.   *)

\* All locks go through the lists and no wait ends by a timeout.
EveryoneQueues == RelationModes \cap {"IS", "IX"} = {} /\ Timed = {} /\ RowWaiters = {}

Running == {"idle", "active", "escalate", "resumed", "partial", "committed", "unlock", "intents"}

\* Then these are the places there are, and no item has an optimistic lock.
Plain ==
  /\ \A t \in Trans : pc[t] \in Running \cup {"blocked", "suspect", "victim"}
  /\ \A i \in Items, t \in Trans : intent[i][t] = "NONE"

\* u has what t is queued for, and t has not given up.
Blocks(u, t) ==
  \E i \in Items : t \in Requesters(i) /\ u \in Holders(i) \ {t} /\ pc[t] # "victim"

Closed(A)    == \A a \in A : \A u \in Trans : Blocks(u, a) => u \in A
Behind(h, w) == \A A \in SUBSET Trans : h \in A /\ Closed(A) => w \in A

\* Every edge is a wait; and while a victim leaves its queue, the others of its cycle are
\* still waiting for it, so that no release gives it an edge again.
EdgesReal == \A t, u \in Trans : HasEdge(edge, t, u) => Blocks(u, t)
VictimInv ==
  \A w \in Trans : pc[w] = "victim" =>
    /\ latch = w
    /\ \E i \in Items, h \in Trans : w \in Requesters(i) /\ h \in Holders(i) \ {w} /\ Behind(h, w)

WaitInv == Plain /\ EdgesReal /\ VictimInv

\* The kinds of steps that are left.
OthersAlone(x) ==
  \A t \in Trans \ {x} :
    /\ pc'[t] = pc[t] /\ edge'[t] = edge[t]
    /\ \A i \in Items : req'[i][t] = req[i][t] /\ hold'[i][t] = hold[i][t]

Moves(x) ==
  /\ OthersAlone(x) /\ UNCHANGED <<hold, req, edge, latch>>
  /\ \/ pc[x] \in Running /\ pc'[x] \in Running
     \/ pc[x] \in {"blocked", "suspect"} /\ pc'[x] \in {"blocked", "suspect"}
     \/ pc[x] = "blocked" /\ NotQueued(x) /\ pc'[x] = "resumed"

Convicts(x) ==
  /\ pc[x] = "suspect" /\ latch = NoSlot /\ Deadlocked(x)
  /\ latch' = x /\ pc' = [pc EXCEPT ![x] = "victim"] /\ edge' = ResolveDeadlock(edge, x)
  /\ UNCHANGED <<hold, req>>

Releases(x, i) == pc[x] \in Running /\ ReleaseNode(x, i) /\ UNCHANGED <<pc, latch>>

QueueStep ==
  \/ UNCHANGED <<hold, req, edge, pc, latch>>
  \/ \E x \in Trans :
       \/ Moves(x) \/ GrantNow(x) \/ Enqueue(x) \/ Convicts(x) \/ Withdraw(x) \/ ResetWaitSlot(x)
       \/ \E i \in Items : Releases(x, i)

\* Without optimistic locks a scan finds nothing in its way.
LEMMA PlainScan ==
  ASSUME TypeInv, Plain, NEW t \in Trans, NEW from, call[t].item \in Items, Scan(t, from)
  PROVE  ScanPasses(t, from)
<1>1. call[t].mode \in LockMode
  BY DEF TypeInv, TypeOK, Call
<1>2. Blockers(t, from) = {}
  BY <1>1, NoneIsNeutral DEF Blockers, Plain
<1> QED BY <1>2 DEF Scan, ScanStops

LEMMA RequestKind ==
  ASSUME EveryoneQueues, TypeInv, LockInv, Plain, NEW t \in Trans, Request(t)
  PROVE  Plain' /\ Moves(t)
<1>1. pc[t] = "active" /\ pc' = [pc EXCEPT ![t] = "escalate"] /\ UNCHANGED <<hold, req, edge, latch, intent>>
  BY DEF EveryoneQueues, Request, LockOptimistic, EnterPessimistic, RowConflict, At
<1> QED BY <1>1 DEF Plain, Moves, OthersAlone, Running, TypeInv, TypeOK

LEMMA WaitKind ==
  ASSUME EveryoneQueues, TypeInv, LockInv, Plain, NEW t \in Trans, Wait(t)
  PROVE  Plain' /\ (Moves(t) \/ GrantNow(t) \/ Enqueue(t) \/ Convicts(t) \/ Withdraw(t))
<1>1. call[t].item \in Items \/ pc[t] \notin LockCall
  BY DEF TypeInv, CallInv
<1>2. pc \in [Trans -> PC]
  BY DEF TypeInv, TypeOK
<1>3. CASE DroppedItem(t) \/ Refuse(t)
  <2>1. pc[t] = "escalate" /\ pc' = [pc EXCEPT ![t] = "active"] /\ UNCHANGED <<hold, req, edge, latch, intent>>
    BY <1>3 DEF DroppedItem, Refuse, EndCall
  <2> QED BY <1>2, <2>1 DEF Plain, Moves, OthersAlone, Running
<1>4. CASE GrantNow(t) \/ Proceed(t)
  <2>1. pc[t] \in {"escalate", "resumed"} /\ intent' = intent
    BY <1>4 DEF GrantNow, Proceed
  <2>2. edge' = edge /\ EndCall(t)
    BY <1>1, <1>4, <2>1, PlainScan DEF GrantNow, Proceed, LockCall, ScanPasses
  <2>3. Plain' /\ pc'[t] = "active" /\ \A u \in Trans \ {t} : pc'[u] = pc[u]
    BY <1>2, <2>1, <2>2 DEF EndCall, Plain, Running
  <2>4. Proceed(t) => UNCHANGED <<hold, req, latch>>
    BY DEF Proceed
  <2> QED BY <1>4, <2>1, <2>2, <2>3, <2>4 DEF Moves, OthersAlone, Running
<1>5. CASE Enqueue(t)
  BY <1>2, <1>5 DEF Enqueue, At, Plain, Running
<1>6. CASE Suspect(t)
  <2>1. pc[t] = "blocked" /\ pc' = [pc EXCEPT ![t] = "suspect"] /\ UNCHANGED <<hold, req, edge, latch, intent>>
    BY <1>6 DEF Suspect, At, Plain, Running
  <2> QED BY <1>2, <2>1 DEF Plain, Moves, OthersAlone, Running
<1>7. CASE Confirm(t)
  <2>1. CASE Deadlocked(t)
    <3>1. Convicts(t) /\ intent' = intent
      BY <1>7, <2>1 DEF Confirm, Convicts, At
    <3> QED BY <1>2, <3>1 DEF Convicts, Plain, Running
  <2>2. CASE ~Deadlocked(t)
    <3>1. pc[t] = "suspect" /\ pc' = [pc EXCEPT ![t] = "blocked"] /\ UNCHANGED <<hold, req, edge, latch, intent>>
      BY <1>7, <2>2 DEF Confirm, At
    <3> QED BY <1>2, <3>1 DEF Plain, Moves, OthersAlone, Running
  <2> QED BY <2>1, <2>2
<1>8. CASE Withdraw(t)
  BY <1>2, <1>8 DEF Withdraw, EndCall, Plain, Running
<1>9. CASE Resume(t)
  <2>1. pc[t] = "blocked" /\ pc' = [pc EXCEPT ![t] = "resumed"] /\ UNCHANGED <<hold, req, edge, latch, intent>>
        /\ sem[t] > 0
    BY <1>9 DEF Resume, At
  <2>2. req[call[t].item][t] = "NONE"
    BY <2>1 DEF LockInv, SignalMatchesQueue
  <2>3. NotQueued(t)
    BY <2>2 DEF LockInv, RequestsAreCalls, NotQueued, Requesters
  <2> QED BY <1>2, <2>1, <2>3 DEF Plain, Moves, OthersAlone, Running
<1>10. ~(SlotEnter(t) \/ SlotFreed(t) \/ ContinueScan(t) \/ SlotConfirm(t) \/ ExpireSlot(t)
         \/ RowEnter(t) \/ RowDone(t) \/ RowConfirm(t) \/ RowExpire(t) \/ Expire(t))
  BY DEF SlotEnter, SlotFreed, ContinueScan, SlotConfirm, ExpireSlot, RowEnter, RowDone, RowConfirm,
         RowExpire, Expire, Plain, Running, EveryoneQueues
<1> QED BY <1>3, <1>4, <1>5, <1>6, <1>7, <1>8, <1>9, <1>10 DEF Wait

LEMMA QueueKinds ==
  ASSUME EveryoneQueues, TypeInv, LockInv, Plain, [Next]_vars
  PROVE  Plain' /\ QueueStep
<1>1. pc \in [Trans -> PC]
  BY DEF TypeInv, TypeOK
<1>2. ASSUME NEW t \in Trans, Request(t) \/ Wait(t) PROVE Plain' /\ QueueStep
  BY <1>2, RequestKind, WaitKind DEF QueueStep
<1>3. ASSUME NEW t \in Trans,
             \/ Begin(t) \/ EndTrans(t) \/ StartUnlock(t) \/ FreeTrans(t)
             \/ Savepoint(t) \/ RollbackToSavepoint(t) \/ UndoDone(t)
      PROVE  Plain' /\ QueueStep
  <2>1. /\ UNCHANGED <<hold, req, edge, latch, intent>> /\ \A u \in Trans \ {t} : pc'[u] = pc[u]
        /\ pc[t] \in Running /\ pc'[t] \in Running
    BY <1>1, <1>3 DEF Begin, EndTrans, StartUnlock, FreeTrans, Savepoint, RollbackToSavepoint, UndoDone, At,
         Running
  <2>2. Plain' /\ Moves(t)
    BY <2>1 DEF Plain, Moves, OthersAlone
  <2> QED BY <2>2 DEF QueueStep
<1>4. ASSUME NEW t \in Trans, ResetWaitSlot(t) PROVE Plain' /\ QueueStep
  BY <1>1, <1>4 DEF ResetWaitSlot, At, Plain, QueueStep, Running
<1>5. ASSUME NEW t \in Trans, NEW i \in Items, UnlockHeld(t, i) \/ UndoNode(t, i) \/ UnlockRecord(t, i)
      PROVE  Plain' /\ QueueStep
  BY <1>5 DEF UnlockHeld, UndoNode, UnlockRecord, Plain, QueueStep, Releases, Running
<1>6. ASSUME NEW t \in Trans, NEW i \in Items PROVE ~ClearIntent(t, i) /\ ~UndoIntent(t, i)
  BY DEF ClearIntent, UndoIntent, IntentsToUndo, Plain
<1>7. ASSUME NEW i \in Relations, AgeLockItem(i) \/ \E t \in Trans : MarkFree(t, i)
      PROVE  Plain' /\ QueueStep
  BY <1>7 DEF AgeLockItem, MarkFree, Plain, QueueStep
<1>8. CASE UNCHANGED vars
  BY <1>8 DEF vars, Plain, QueueStep
<1> QED BY <1>2, <1>3, <1>4, <1>5, <1>6, <1>7, <1>8 DEF Next, Finish, Undo

\* Who runs is in no queue, and is blocked by nobody.
LEMMA RunningWaitsForNobody ==
  ASSUME LockInv, NEW x \in Trans, pc[x] \notin Queued \/ NotQueued(x)
  PROVE  NotQueued(x) /\ \A u \in Trans : ~Blocks(u, x)
<1>1. NotQueued(x)
  BY DEF LockInv, RequestsAreCalls, NotQueued
<1> QED BY <1>1 DEF Blocks, NotQueued

LEMMA RunningIsNotQueued == Running \cap Queued = {}
BY DEF Running, Queued

\* Nobody is queued on two items.
LEMMA OneQueue ==
  ASSUME LockInv, NEW t \in Trans, NEW i \in Items, NEW j \in Items, t \in Requesters(i), t \in Requesters(j)
  PROVE  i = j
BY DEF LockInv, RequestsAreCalls

\* A step in which nobody stops being blocked by another, except by x, which is not blocked.
LEMMA BehindStays ==
  ASSUME NEW x \in Trans, NEW h \in Trans, NEW w \in Trans, w # x, Behind(h, w),
         \A u \in Trans : ~Blocks(u, x),
         \A a, u \in Trans : Blocks(u, a) => Blocks(u, a)' \/ u = x
  PROVE  Behind(h, w)'
<1> SUFFICES ASSUME NEW A \in SUBSET Trans, h \in A, Closed(A)' PROVE w \in A
  BY DEF Behind
<1>1. Closed(A \cup {x})
  <2> SUFFICES ASSUME NEW a \in A \cup {x}, NEW u \in Trans, Blocks(u, a) PROVE u \in A \cup {x}
    BY DEF Closed
  <2>1. a \in A /\ (Blocks(u, a)' \/ u = x)
    OBVIOUS
  <2> QED BY <2>1 DEF Closed
<1>2. A \cup {x} \in SUBSET Trans /\ h \in A \cup {x}
  OBVIOUS
<1> QED BY <1>1, <1>2 DEF Behind

\* A step that nobody notices in the queues.
LEMMA BehindGrows ==
  ASSUME NEW h \in Trans, NEW w \in Trans, Behind(h, w),
         \A a, u \in Trans : Blocks(u, a) => Blocks(u, a)'
  PROVE  Behind(h, w)'
<1> SUFFICES ASSUME NEW A \in SUBSET Trans, h \in A, Closed(A)' PROVE w \in A
  BY DEF Behind
<1>1. Closed(A)
  BY DEF Closed
<1> QED BY <1>1 DEF Behind

\* What a step of x that releases nothing has to keep.
LEMMA WaitKept ==
  ASSUME TypeInv, LockInv, WaitInv, NEW x \in Trans,
         \A t \in Trans \ {x} : edge'[t] = edge[t] /\ (pc'[t] = "victim" <=> pc[t] = "victim")
                                /\ \A i \in Items : req'[i][t] = req[i][t],
         \A t \in Trans, i \in Items : hold[i][t] # "NONE" => hold'[i][t] # "NONE",
         \A u \in Trans : HasEdge(edge, x, u)' => Blocks(u, x)',
         \A u \in Trans : Blocks(u, x) => Blocks(u, x)',
         latch' = latch, pc[x] # "victim", pc'[x] # "victim"
  PROVE  EdgesReal' /\ VictimInv'
<1>1. \A i \in Items : Holders(i) \subseteq Holders(i)'
  BY DEF Holders
<1>2. \A i \in Items : \A t \in Trans \ {x} : t \in Requesters(i) => t \in Requesters(i)'
  BY DEF Requesters
<1>3. \A t \in Trans, u \in Trans : Blocks(u, t) => Blocks(u, t)'
  BY <1>1, <1>2 DEF Blocks
<1>4. EdgesReal'
  <2> SUFFICES ASSUME NEW t \in Trans, NEW u \in Trans, HasEdge(edge, t, u)' PROVE Blocks(u, t)'
    BY DEF EdgesReal
  <2>1. CASE t # x
    <3>1. HasEdge(edge, t, u)
      BY <2>1 DEF HasEdge
    <3> QED BY <1>3, <3>1 DEF WaitInv, EdgesReal
  <2> QED BY <2>1
<1>5. VictimInv'
  <2> SUFFICES ASSUME NEW w \in Trans, (pc[w] = "victim")'
               PROVE  /\ latch' = w
                      /\ \E i \in Items, h \in Trans : w \in Requesters(i)' /\ h \in Holders(i)' \ {w} /\ Behind(h, w)'
    BY DEF VictimInv
  <2>1. w # x /\ pc[w] = "victim"
    OBVIOUS
  <2>2. latch = w
    BY <2>1 DEF WaitInv, VictimInv
  <2>3. PICK i \in Items, h \in Trans : w \in Requesters(i) /\ h \in Holders(i) \ {w} /\ Behind(h, w)
    BY <2>1 DEF WaitInv, VictimInv
  <2> QED BY <1>1, <1>2, <1>3, <2>1, <2>2, <2>3, BehindGrows
<1> QED BY <1>4, <1>5

LEMMA MovesKeeps ==
  ASSUME TypeInv, LockInv, WaitInv, NEW x \in Trans, Moves(x)
  PROVE  EdgesReal' /\ VictimInv'
<1>1. /\ \A i \in Items : Holders(i)' = Holders(i) /\ Requesters(i)' = Requesters(i)
      /\ UNCHANGED <<hold, req, edge, latch>>
  BY DEF Moves, Holders, Requesters
<1>2. pc[x] # "victim" /\ pc'[x] # "victim"
  BY DEF Moves, Running
<1>3. \A u \in Trans : Blocks(u, x)' <=> Blocks(u, x)
  BY <1>1, <1>2 DEF Blocks
<1>4. \A u \in Trans : HasEdge(edge, x, u)' => Blocks(u, x)'
  BY <1>1, <1>3 DEF HasEdge, WaitInv, EdgesReal
<1> QED BY <1>1, <1>2, <1>3, <1>4, WaitKept DEF Moves, OthersAlone

LEMMA GrantKeeps ==
  ASSUME TypeInv, LockInv, WaitInv, NEW x \in Trans, GrantNow(x)
  PROVE  EdgesReal' /\ VictimInv'
<1> DEFINE i == call[x].item
<1>1. pc[x] = "escalate" /\ i \in Items /\ call[x].mode # "NONE" /\ call[x].mode \in LockMode
  BY DEF GrantNow, TypeInv, TypeOK, CallInv, LockCall, Call
<1>2. ScanPasses(x, 0)
  BY <1>1, PlainScan DEF GrantNow, WaitInv
<1>3. /\ UNCHANGED <<req, edge, latch>> /\ pc'[x] = "active" /\ \A t \in Trans \ {x} : pc'[t] = pc[t]
  BY <1>2 DEF GrantNow, ScanPasses, EndCall, TypeInv, TypeOK
<1>4. hold' = [hold EXCEPT ![i][x] = Conversion(hold[i][x], call[x].mode)]
      /\ hold \in [Items -> [Trans -> LockMode]]
  BY DEF GrantNow, TypeInv, TypeOK
<1>5. Conversion(hold[i][x], call[x].mode) # "NONE"
  <2>1. hold[i][x] \in LockMode
    BY <1>1, <1>4
  <2> QED BY <1>1, <2>1 DEF Conversion, Covers, LockMode
<1>6. \A t \in Trans, j \in Items : hold[j][t] # "NONE" => hold'[j][t] # "NONE"
  BY <1>1, <1>4, <1>5
<1>7. \A u \in Trans : ~Blocks(u, x)
  BY <1>1, RunningWaitsForNobody DEF Queued
<1>8. \A u \in Trans : ~HasEdge(edge, x, u)'
  BY <1>3, <1>7 DEF HasEdge, WaitInv, EdgesReal
<1> QED BY <1>1, <1>3, <1>6, <1>7, <1>8, WaitKept

LEMMA EnqueueKeeps ==
  ASSUME TypeInv, LockInv, WaitInv, NEW x \in Trans, Enqueue(x)
  PROVE  EdgesReal' /\ VictimInv'
<1> DEFINE i == call[x].item
<1>1. pc[x] = "escalate" /\ i \in Items /\ call[x].mode # "NONE"
  BY DEF Enqueue, TypeInv, CallInv, LockCall
<1>2. /\ UNCHANGED <<hold, latch, call>> /\ pc'[x] = "blocked" /\ \A t \in Trans \ {x} : pc'[t] = pc[t]
      /\ req' = [req EXCEPT ![i][x] = call[x].mode] /\ req \in [Items -> [Trans -> LockMode]]
      /\ edge' = [edge EXCEPT ![x] = [u \in Trans |-> IF u \in Holders(i) \ {x} THEN Waits ELSE edge[x][u]]]
      /\ edge \in [Trans -> [Trans -> EdgeValue]]
  BY DEF Enqueue, At, TypeInv, TypeOK
<1>3. /\ \A t \in Trans \ {x} : edge'[t] = edge[t] /\ \A j \in Items : req'[j][t] = req[j][t]
      /\ \A u \in Trans : edge'[x][u] = IF u \in Holders(i) \ {x} THEN Waits ELSE edge[x][u]
      /\ req'[i][x] # "NONE"
  BY <1>1, <1>2
<1>4. \A u \in Trans : ~Blocks(u, x) /\ ~HasEdge(edge, x, u)
  BY <1>1, RunningWaitsForNobody DEF Queued, WaitInv, EdgesReal
<1>5. \A u \in Trans : HasEdge(edge, x, u)' => Blocks(u, x)'
  <2> SUFFICES ASSUME NEW u \in Trans, HasEdge(edge, x, u)' PROVE Blocks(u, x)'
    OBVIOUS
  <2>1. u \in Holders(i) \ {x}
    BY <1>3, <1>4 DEF HasEdge
  <2>2. u \in Holders(i)' /\ x \in Requesters(i)' /\ pc'[x] # "victim"
    BY <1>2, <1>3, <2>1 DEF Holders, Requesters
  <2> QED BY <1>1, <1>2, <2>1, <2>2 DEF Blocks
<1> QED BY <1>1, <1>2, <1>3, <1>4, <1>5, WaitKept

LEMMA WithdrawKeeps ==
  ASSUME TypeInv, LockInv, WaitInv, NEW x \in Trans, Withdraw(x)
  PROVE  EdgesReal' /\ VictimInv'
<1>1. pc[x] = "victim"
  BY DEF Withdraw, WaitInv, Plain, Running
<1>2. call[x].item \in Items
  BY <1>1 DEF TypeInv, CallInv, LockCall
<1>3. /\ UNCHANGED <<hold, edge>> /\ pc'[x] = "active" /\ \A t \in Trans \ {x} : pc'[t] = pc[t]
      /\ \A i \in Items : \A t \in Trans \ {x} : req'[i][t] = req[i][t]
  BY <1>2 DEF Withdraw, Unlink, EndCall, TypeInv, TypeOK
<1>4. \A t \in Trans \ {x} : pc[t] # "victim"
  BY <1>1 DEF WaitInv, VictimInv
<1>5. EdgesReal'
  <2> SUFFICES ASSUME NEW t \in Trans, NEW u \in Trans, HasEdge(edge, t, u)' PROVE Blocks(u, t)'
    BY DEF EdgesReal
  <2>1. Blocks(u, t)
    BY <1>3 DEF HasEdge, WaitInv, EdgesReal
  <2>2. t # x
    BY <1>1, <2>1 DEF Blocks
  <2> QED BY <1>3, <2>1, <2>2 DEF Blocks, Holders, Requesters
<1>6. VictimInv'
  BY <1>3, <1>4 DEF VictimInv
<1> QED BY <1>5, <1>6

LEMMA ResetKeeps ==
  ASSUME TypeInv, LockInv, WaitInv, NEW x \in Trans, ResetWaitSlot(x)
  PROVE  EdgesReal' /\ VictimInv'
<1>1. /\ UNCHANGED <<hold, req, latch>> /\ pc[x] = "unlock" /\ pc'[x] = "intents"
      /\ \A t \in Trans \ {x} : pc'[t] = pc[t]
      /\ edge' = [r \in Trans |-> [edge[r] EXCEPT ![x] = NoEdge]] /\ edge \in [Trans -> [Trans -> EdgeValue]]
  BY DEF ResetWaitSlot, At, TypeInv, TypeOK
<1>2. \A i \in Items : Holders(i)' = Holders(i) /\ Requesters(i)' = Requesters(i)
  BY <1>1 DEF Holders, Requesters
<1>3. \A t, u \in Trans : Blocks(u, t)' <=> Blocks(u, t)
  BY <1>1, <1>2 DEF Blocks
<1>4. \A t, u \in Trans : HasEdge(edge, t, u)' => HasEdge(edge, t, u)
  BY <1>1 DEF HasEdge, Waits, NoEdge
<1>5. EdgesReal'
  BY <1>3, <1>4 DEF WaitInv, EdgesReal
<1>6. VictimInv'
  <2> SUFFICES ASSUME NEW w \in Trans, (pc[w] = "victim")'
               PROVE  /\ latch' = w
                      /\ \E i \in Items, h \in Trans : w \in Requesters(i)' /\ h \in Holders(i)' \ {w} /\ Behind(h, w)'
    BY DEF VictimInv
  <2>1. pc[w] = "victim"
    BY <1>1
  <2>2. PICK i \in Items, h \in Trans : w \in Requesters(i) /\ h \in Holders(i) \ {w} /\ Behind(h, w)
    BY <2>1 DEF WaitInv, VictimInv
  <2>4. Behind(h, w)'
    BY <1>3, <2>2, BehindGrows
  <2> QED BY <1>1, <1>2, <2>1, <2>2, <2>4 DEF WaitInv, VictimInv
<1> QED BY <1>5, <1>6

\* The edges of those that are not queued on the item stay as they are.
LEMMA ReleaseEdges ==
  ASSUME TypeInv, NEW x \in Trans, NEW i \in Items, ReleaseNode(x, i)
  PROVE  \A r \in Trans \ Requesters(i) : edge'[r] = edge[r]
<1>1. edge \in [Trans -> [Trans -> EdgeValue]]
  BY DEF TypeInv, TypeOK
<1>2. \A r \in Trans \ Requesters(i) : EdgesWithout(i, x)[r] = edge[r]
  BY DEF EdgesWithout
<1> SUFFICES ASSUME NEW r \in Trans \ Requesters(i) PROVE edge'[r] = edge[r]
  OBVIOUS
<1>3. CASE edge' = EdgesWithout(i, x)
  BY <1>2, <1>3
<1>4. CASE ReleaseToQueue(x, i)
  <2>1. PICK G \in SUBSET Requesters(i) :
          edge' = [s \in Trans |-> [u \in Trans |->
                     IF s \in Requesters(i) \ G /\ u \in G \cap ahead[i][s] THEN Waits
                     ELSE EdgesWithout(i, x)[s][u]]]
    BY <1>4 DEF ReleaseToQueue
  <2>2. edge'[r] = [u \in Trans |-> EdgesWithout(i, x)[r][u]]
    BY <2>1
  <2>3. edge[r] = [u \in Trans |-> edge[r][u]]
    BY <1>1
  <2> QED BY <1>2, <2>2, <2>3
<1> QED BY <1>3, <1>4 DEF ReleaseNode, ReleaseDropped, ReleaseToUpgrade, ReleaseToHolders

\* The other items, and the lists of the item, after a release.
LEMMA ReleaseLists ==
  ASSUME TypeInv, LockInv, NEW x \in Trans, NEW i \in Items, ReleaseNode(x, i)
  PROVE  /\ \A j \in Items \ {i} : hold'[j] = hold[j] /\ req'[j] = req[j]
         /\ \A r \in Trans, u \in Trans \ {x} :
              r \in Requesters(i) /\ u \in Holders(i) \ {r} => r \in Requesters(i)' /\ u \in Holders(i)'
<1>1. hold \in [Items -> [Trans -> LockMode]] /\ req \in [Items -> [Trans -> LockMode]]
  BY DEF TypeInv, TypeOK
<1>2. \A j \in Items \ {i} : hold'[j] = hold[j] /\ req'[j] = req[j]
  BY <1>1 DEF ReleaseNode, ReleaseDropped, ReleaseToQueue, ReleaseToUpgrade, ReleaseToHolders, Unlink
<1>3. ASSUME NEW r \in Trans, NEW u \in Trans \ {x}, r \in Requesters(i), u \in Holders(i) \ {r}
      PROVE  r \in Requesters(i)' /\ u \in Holders(i)'
  <2>1. ~ReleaseDropped(x, i) /\ ~ReleaseToQueue(x, i)
    BY <1>3 DEF ReleaseDropped, ReleaseToQueue
  <2>2. CASE ReleaseToUpgrade(x, i)
    <3>1. PICK h \in Requesters(i) :
            /\ Holders(i) = {x, h} /\ h # x /\ Unlink(i, {h})
            /\ hold' = [hold EXCEPT ![i][x] = "NONE", ![i][h] = Conversion(req[i][h], hold[i][h])]
      BY <2>2 DEF ReleaseToUpgrade
    <3>2. u = h /\ r # h
      BY <1>3, <3>1
    <3>3. Conversion(req[i][h], hold[i][h]) # "NONE"
      <4>1. req[i][h] \in LockMode \ {"NONE"} /\ hold[i][h] \in LockMode
        BY <1>1, <3>1 DEF Requesters
      <4> QED BY <4>1 DEF Conversion, Covers, LockMode
    <3>4. hold'[i][h] # "NONE" /\ req'[i][r] = req[i][r]
      BY <1>1, <3>1, <3>2, <3>3 DEF Unlink
    <3> QED BY <1>3, <3>2, <3>4 DEF Holders, Requesters
  <2>3. CASE ReleaseToHolders(x, i)
    <3>1. hold'[i][u] = hold[i][u] /\ req' = req
      BY <1>1, <2>3 DEF ReleaseToHolders
    <3> QED BY <1>3, <3>1 DEF Holders, Requesters
  <2> QED BY <2>1, <2>2, <2>3 DEF ReleaseNode
<1> QED BY <1>2, <1>3

\* An edge that is there after a release of those queued on the item.
LEMMA ReleaseEdgesReal ==
  ASSUME TypeInv, LockInv, WaitInv, NEW x \in Trans, NEW i \in Items, Releases(x, i),
         NEW t \in Trans, NEW u \in Trans, t \in Requesters(i), HasEdge(edge, t, u)'
  PROVE  Blocks(u, t)'
<1>1. /\ edge \in [Trans -> [Trans -> EdgeValue]] /\ hold \in [Items -> [Trans -> LockMode]]
      /\ req \in [Items -> [Trans -> LockMode]] /\ pc' = pc
  BY DEF TypeInv, TypeOK, Releases
<1>2. CASE HasEdge(EdgesWithout(i, x), t, u)
  <2>1. u # x /\ HasEdge(edge, t, u)
    BY <1>1, <1>2 DEF HasEdge, EdgesWithout, Waits, NoEdge
  <2>2. PICK j \in Items : t \in Requesters(j) /\ u \in Holders(j) \ {t} /\ pc[t] # "victim"
    BY <2>1 DEF WaitInv, EdgesReal, Blocks
  <2>3. j = i
    BY <2>2, OneQueue
  <2> QED BY <1>1, <2>1, <2>2, <2>3, ReleaseLists DEF Releases, Blocks
<1>3. CASE ~HasEdge(EdgesWithout(i, x), t, u)
  <2>1. ReleaseToQueue(x, i)
    BY <1>3 DEF Releases, ReleaseNode, ReleaseDropped, ReleaseToUpgrade, ReleaseToHolders, HasEdge
  <2>2. PICK G \in SUBSET Requesters(i) :
          /\ hold' = [hold EXCEPT ![i] = [r \in Trans |-> IF r \in G THEN req[i][r] ELSE "NONE"]]
          /\ edge' = [r \in Trans |-> [v \in Trans |->
                        IF r \in Requesters(i) \ G /\ v \in G \cap ahead[i][r] THEN Waits
                        ELSE EdgesWithout(i, x)[r][v]]]
          /\ Unlink(i, G)
    BY <2>1 DEF ReleaseToQueue
  <2>3. t \in Requesters(i) \ G /\ u \in G
    BY <1>3, <2>2 DEF HasEdge
  <2>4. t \in Requesters(i)' /\ u \in Holders(i)' \ {t}
    BY <1>1, <2>2, <2>3 DEF Unlink, Requesters, Holders
  <2>5. pc[t] # "victim"
    <3> SUFFICES ASSUME pc[t] = "victim" PROVE FALSE
      OBVIOUS
    <3>1. PICK j \in Items, h \in Trans : t \in Requesters(j) /\ h \in Holders(j) \ {t} /\ Behind(h, t)
      BY DEF WaitInv, VictimInv
    <3>2. j = i /\ Holders(i) = {x}
      BY <2>1, <3>1, OneQueue DEF ReleaseToQueue
    <3>3. Closed({x}) /\ h = x
      BY <3>1, <3>2, RunningWaitsForNobody, RunningIsNotQueued DEF Releases, Closed
    <3> QED BY <3>1, <3>3 DEF Behind
  <2> QED BY <1>1, <2>4, <2>5 DEF Blocks
<1> QED BY <1>2, <1>3

LEMMA ReleaseKeeps ==
  ASSUME TypeInv, LockInv, WaitInv, NEW x \in Trans, NEW i \in Items, Releases(x, i)
  PROVE  EdgesReal' /\ VictimInv'
<1>1. pc' = pc /\ latch' = latch /\ ReleaseNode(x, i)
  BY DEF Releases
<1>2. \A u \in Trans : ~Blocks(u, x)
  BY RunningWaitsForNobody, RunningIsNotQueued DEF Releases
<1>3. ASSUME NEW j \in Items, NEW r \in Trans, NEW u \in Trans \ {x}, r \in Requesters(j), u \in Holders(j) \ {r}
      PROVE  r \in Requesters(j)' /\ u \in Holders(j)'
  <2>1. CASE j = i
    BY <1>1, <1>3, <2>1, ReleaseLists
  <2>2. CASE j # i
    BY <1>1, <1>3, <2>2, ReleaseLists DEF Requesters, Holders
  <2> QED BY <2>1, <2>2
<1>4. \A a, u \in Trans : Blocks(u, a) => Blocks(u, a)' \/ u = x
  BY <1>1, <1>3 DEF Blocks
<1>5. EdgesReal'
  <2> SUFFICES ASSUME NEW t \in Trans, NEW u \in Trans, HasEdge(edge, t, u)' PROVE Blocks(u, t)'
    BY DEF EdgesReal
  <2>1. CASE t \in Requesters(i)
    BY <2>1, ReleaseEdgesReal
  <2>2. CASE t \notin Requesters(i)
    <3>1. HasEdge(edge, t, u)
      BY <1>1, <2>2, ReleaseEdges DEF HasEdge
    <3>2. PICK j \in Items : t \in Requesters(j) /\ u \in Holders(j) \ {t} /\ pc[t] # "victim"
      BY <3>1 DEF WaitInv, EdgesReal, Blocks
    <3>3. t \in Requesters(j)' /\ u \in Holders(j)'
      BY <1>1, <2>2, <3>2, ReleaseLists DEF Requesters, Holders
    <3> QED BY <1>1, <3>2, <3>3 DEF Blocks
  <2> QED BY <2>1, <2>2
<1>6. VictimInv'
  <2> SUFFICES ASSUME NEW w \in Trans, (pc[w] = "victim")'
               PROVE  /\ latch' = w
                      /\ \E j \in Items, h \in Trans : w \in Requesters(j)' /\ h \in Holders(j)' \ {w} /\ Behind(h, w)'
    BY DEF VictimInv
  <2>1. pc[w] = "victim" /\ latch = w /\ w # x
    BY <1>1 DEF WaitInv, VictimInv, Releases, Running
  <2>2. PICK j \in Items, h \in Trans : w \in Requesters(j) /\ h \in Holders(j) \ {w} /\ Behind(h, w)
    BY <2>1 DEF WaitInv, VictimInv
  <2>3. h # x
    <3>1. Closed({x})
      BY <1>2 DEF Closed
    <3> QED BY <2>1, <2>2, <3>1 DEF Behind
  <2>4. Behind(h, w)'
    BY <1>2, <1>4, <2>1, <2>2, BehindStays
  <2> QED BY <1>1, <1>3, <2>1, <2>2, <2>3, <2>4
<1> QED BY <1>5, <1>6

-----------------------------------------------------------------------------
(* The search, about the wait table of the lock manager.                    *)

Graph == INSTANCE WaitGraphProofs WITH SlotCount <- TransCount, table <- edge

LEMMA SameCardinality ==
  ASSUME NEW S
  PROVE  Graph!Cardinality(S) = Cardinality(S)
BY DEF Graph!Cardinality, Cardinality, Graph!IsFiniteSet, IsFiniteSet

LEMMA SameFrame ==
  ASSUME NEW e
  PROVE  Graph!Frame(e) = Frame(e)
BY SameCardinality DEF Graph!Frame, Frame, Graph!Verdict, Verdict

LEMMA SameMet ==
  ASSUME NEW p, NEW u
  PROVE  Graph!Met(p, u) = Met(p, u)
BY DEF Graph!Met, Met

LEMMA SameVisit ==
  ASSUME NEW e, NEW w, NEW f, NEW x
  PROVE  Graph!Visit(e, w, f, x) = Visit(e, w, f, x)
BY SameMet, SameCardinality
   DEF Graph!Visit, Visit, Graph!GroupWorkers, GroupWorkers, Graph!HasEdge, HasEdge, Graph!Waits, Waits,
       Graph!Enter, Enter

LEMMA SameSearch ==
  ASSUME NEW e, NEW w
  PROVE  Graph!Search(e, w) = Search(e, w)
<1>1. \A f : [x \in Graph!Frame(e) |-> Graph!Visit(e, w, f, x)] = [x \in Frame(e) |-> Visit(e, w, f, x)]
  BY SameFrame, SameVisit
<1>2. \A f : f = [x \in Graph!Frame(e) |-> Graph!Visit(e, w, f, x)] <=> f = [x \in Frame(e) |-> Visit(e, w, f, x)]
  BY <1>1, Zenon
<1>3. (CHOOSE f : f = [x \in Graph!Frame(e) |-> Graph!Visit(e, w, f, x)]) =
        (CHOOSE f : f = [x \in Frame(e) |-> Visit(e, w, f, x)])
  BY <1>2, Zenon
<1> QED BY <1>3 DEF Graph!Search, Search

LEMMA SameTable ==
  ASSUME TypeInv
  PROVE  /\ Graph!Slot = Trans /\ edge \in Graph!Table
         /\ \A t, u \in Trans : Graph!HasEdge(edge, t, u) <=> HasEdge(edge, t, u)
         /\ \A t \in Trans : Graph!CheckDeadlock(edge, Graph!NoGroups, t) <=> Deadlocked(t)
<1>1. Graph!Slot = Trans
  BY DEF Graph!Slot, Trans
<1>2. edge \in Graph!Table
  BY <1>1 DEF Graph!Table, TypeInv, TypeOK, Graph!EdgeValue, EdgeValue, Graph!NoEdge, NoEdge, Graph!Waits, Waits,
              Graph!DeadlockEdge, DeadlockEdge
<1>3. \A t, u \in Trans : Graph!HasEdge(edge, t, u) <=> HasEdge(edge, t, u)
  BY DEF Graph!HasEdge, HasEdge, Graph!Waits, Waits
<1>4. Graph!NoGroups = NoGroups
  BY DEF Graph!NoGroups, NoGroups
<1>5. \A t \in Trans : Graph!CheckDeadlock(edge, Graph!NoGroups, t) <=> Deadlocked(t)
  BY <1>4, SameSearch DEF Graph!CheckDeadlock, CheckDeadlock, Deadlocked, Graph!Enter, Enter
<1> QED BY <1>1, <1>2, <1>3, <1>5

\* Whoever the search calls deadlocked is on a cycle of edges: in every set that is closed
\* under edges and has those whom it waits for.
LEMMA DeadlockedIsOnCycle ==
  ASSUME TypeInv, NEW t \in Trans, Deadlocked(t), NEW A \in SUBSET Trans,
         \A a \in A \cup {t}, u \in Trans : HasEdge(edge, a, u) => u \in A
  PROVE  t \in A
<1>1. t \in Graph!Slot /\ Graph!CheckDeadlock(edge, Graph!NoGroups, t) /\ edge \in Graph!Table
  BY SameTable
<1>2. Graph!OnCycle(t)
  BY <1>1, LockManagerAssumption, Graph!DeadlockIsCycle
<1>3. Graph!Successors(A \cup {t}) \subseteq A
  BY SameTable DEF Graph!Successors
<1> QED BY <1>2, <1>3, SameTable DEF Graph!OnCycle, Graph!Reachable

LEMMA ConvictKeeps ==
  ASSUME TypeInv, LockInv, WaitInv, NEW x \in Trans, Convicts(x)
  PROVE  EdgesReal' /\ VictimInv'
<1>1. /\ UNCHANGED <<hold, req>> /\ pc'[x] = "victim" /\ latch' = x
      /\ \A t \in Trans \ {x} : pc'[t] = pc[t] /\ edge'[t] = edge[t]
      /\ \A u \in Trans : ~HasEdge(edge, x, u)'
  <2>1. \A t \in Trans \ {x} : edge'[t] = edge[t]
    BY ResolveOther DEF Convicts
  <2>2. \A u \in Trans : ~HasEdge(edge, x, u)'
    <3>1. edge \in [Trans -> [Trans -> EdgeValue]]
      BY DEF TypeInv, TypeOK
    <3> QED BY <3>1 DEF Convicts, ResolveDeadlock, HasEdge, Waits, DeadlockEdge
  <2> QED BY <2>1, <2>2 DEF Convicts, TypeInv, TypeOK
<1>2. \A i \in Items : Holders(i)' = Holders(i) /\ Requesters(i)' = Requesters(i)
  BY <1>1 DEF Holders, Requesters
<1>3. \A t \in Trans \ {x} : \A u \in Trans : Blocks(u, t)' <=> Blocks(u, t)
  BY <1>1, <1>2 DEF Blocks
<1>4. EdgesReal'
  BY <1>1, <1>3 DEF WaitInv, EdgesReal, HasEdge
<1>5. \A w \in Trans \ {x} : pc'[w] # "victim"
  BY <1>1, TransType DEF WaitInv, VictimInv, Convicts
<1>6. \E i \in Items, h \in Trans : x \in Requesters(i) /\ h \in Holders(i) \ {x} /\ Behind(h, x)'
  <2> SUFFICES ASSUME \A i \in Items, h \in Trans : x \in Requesters(i) /\ h \in Holders(i) \ {x} => ~Behind(h, x)'
               PROVE  FALSE
    OBVIOUS
  <2> DEFINE A == {a \in Trans : ~Behind(a, x)'}
  <2>1. ASSUME NEW a \in A, NEW u \in Trans, HasEdge(edge, a, u) PROVE u \in A
    <3>1. a # x
      BY DEF Behind
    <3>2. Blocks(u, a)'
      BY <1>3, <2>1, <3>1 DEF WaitInv, EdgesReal
    <3>3. PICK B \in SUBSET Trans : a \in B /\ Closed(B)' /\ x \notin B
      BY DEF Behind
    <3>4. u \in B
      BY <3>2, <3>3 DEF Closed
    <3> QED BY <3>3, <3>4 DEF Behind
  <2>2. ASSUME NEW u \in Trans, HasEdge(edge, x, u) PROVE u \in A
    <3>1. Blocks(u, x)
      BY <2>2 DEF WaitInv, EdgesReal
    <3> QED BY <3>1 DEF Blocks
  <2>3. x \in A
    <3>1. A \in SUBSET Trans
      OBVIOUS
    <3> HIDE DEF A
    <3> QED BY <2>1, <2>2, <3>1, DeadlockedIsOnCycle DEF Convicts
  <2> QED BY <2>3 DEF Behind
<1>7. VictimInv'
  BY <1>1, <1>2, <1>5, <1>6 DEF VictimInv
<1> QED BY <1>4, <1>7

-----------------------------------------------------------------------------
(* Whom the search convicts has a wait that cannot end.                     *)

LEMMA QueueStepKeeps ==
  ASSUME TypeInv, LockInv, WaitInv, QueueStep
  PROVE  EdgesReal' /\ VictimInv'
<1>1. ASSUME UNCHANGED <<hold, req, edge, pc, latch>> PROVE EdgesReal' /\ VictimInv'
  <2>1. \A t, u \in Trans : Blocks(u, t)' <=> Blocks(u, t)
    BY <1>1 DEF Blocks, Holders, Requesters
  <2>2. EdgesReal'
    BY <1>1, <2>1 DEF WaitInv, EdgesReal, HasEdge
  <2>3. \A h, w \in Trans : Behind(h, w) => Behind(h, w)'
    BY <2>1, BehindGrows
  <2>4. VictimInv'
    BY <1>1, <2>3 DEF WaitInv, VictimInv, Holders, Requesters
  <2> QED BY <2>2, <2>4
<1> QED BY <1>1, MovesKeeps, GrantKeeps, EnqueueKeeps, ConvictKeeps, WithdrawKeeps, ResetKeeps, ReleaseKeeps
        DEF QueueStep

LEMMA InitWaitInv == Init => WaitInv
<1> SUFFICES ASSUME Init PROVE WaitInv
  OBVIOUS
<1>1. Plain /\ VictimInv
  BY DEF Init, Plain, VictimInv, Running
<1>2. EdgesReal
  BY DEF Init, EdgesReal, HasEdge, NoEdge, Waits
<1> QED BY <1>1, <1>2 DEF WaitInv

LEMMA WaitInvAlways ==
  ASSUME EveryoneQueues
  PROVE  Spec => [](TypeInv /\ LockInv /\ WaitInv)
<1>1. Init => TypeInv /\ WaitInv
  BY InitTypeOK, InitWaitInv DEF TypeInv, CallInv, Init, LockCall
<1>2. (TypeInv /\ LockInv /\ WaitInv) /\ [Next]_vars => (TypeInv /\ LockInv /\ WaitInv)'
  <2>1. (TypeInv /\ LockInv /\ WaitInv) /\ [Next]_vars => WaitInv'
    BY QueueKinds, QueueStepKeeps DEF WaitInv
  <2> QED BY <2>1, NextTypeInv, NextLockInv
<1> QED BY <1>1, <1>2, InitLockInv, PTL DEF Spec

\* Whom a queued transaction is blocked by is what it cannot go on without.
LEMMA BlockedWaits ==
  ASSUME TypeInv, LockInv, Plain, NEW t \in Trans
  PROVE  \A u \in Trans : Blocks(u, t) <=> u \in WaitsFor(t)
<1>1. \A i \in Items : t \in Requesters(i) => call[t].item = i /\ pc[t] \in {"blocked", "suspect", "victim"}
  BY DEF LockInv, RequestsAreCalls, Queued, Plain, Running
<1>2. CASE pc[t] \in {"blocked", "suspect"}
  <2>1. call[t].item \in Items /\ pc[t] \in QueueWait
    BY <1>2 DEF TypeInv, CallInv, LockCall, QueueWait
  <2>2. pc[t] \notin Waiting \ QueueWait /\ pc[t] \notin RowPolling
    BY <1>2 DEF QueueWait, RowPolling
  <2>3. WaitingOn(t) = Holders(call[t].item) \ {t}
    BY <2>1, <2>2 DEF WaitingOn
  <2>4. WaitsFor(t) = {u \in Holders(call[t].item) \ {t} : t \in Requesters(call[t].item)}
    BY <2>1, <2>2, <2>3 DEF WaitsFor
  <2> QED BY <1>1, <1>2, <2>1, <2>4 DEF Blocks, Holders
<1>3. CASE pc[t] \notin {"blocked", "suspect"}
  <2>1. \A u \in Trans : ~Blocks(u, t)
    BY <1>1, <1>3 DEF Blocks
  <2>2. pc[t] \notin QueueWait /\ pc[t] \notin Waiting
    BY <1>3 DEF Plain, Running, QueueWait, Waiting
  <2>3. WaitsFor(t) = {}
    BY <2>2 DEF WaitsFor, WaitingOn
  <2> QED BY <2>1, <2>3
<1> QED BY <1>2, <1>3

LEMMA DeadlockedIsStuck ==
  ASSUME TypeInv, LockInv, WaitInv, NEW t \in Trans, Deadlocked(t)
  PROVE  Stuck(t)
<1> SUFFICES ASSUME NEW A \in SUBSET Trans, UNION {WaitsFor(a) : a \in A \cup {t}} \subseteq A
             PROVE  t \in A
  BY DEF Stuck, WaitsBehind
<1>1. ASSUME NEW a \in A \cup {t}, NEW u \in Trans, HasEdge(edge, a, u) PROVE u \in A
  <2>1. u \in WaitsFor(a)
    BY <1>1, BlockedWaits DEF WaitInv, EdgesReal
  <2> QED BY <2>1
<1> QED BY <1>1, DeadlockedIsOnCycle

\* Among list nodes a transaction is made a deadlock victim only when its wait cannot end:
\* the search of the wait table, the edges that releases and withdrawals leave in it, and
\* the latch that keeps victims apart, for any number of slots and items.
THEOREM VictimsAreStuck ==
  ASSUME EveryoneQueues
  PROVE  Spec => VictimIsStuck
<1>1. TypeInv /\ LockInv /\ WaitInv /\ [Next]_vars =>
        [\A t \in Trans :
           \/ pc[t] = "suspect" /\ pc'[t] = "victim"
           \/ pc[t] = "slotSuspect" /\ pc'[t] = "active"
           \/ /\ pc[t] = "rowSuspect" /\ pc'[t] = "active"
              /\ ~call[t].gone /\ pc[call[t].target] \notin Ended
           => Stuck(t)]_vars
  <2> SUFFICES ASSUME TypeInv, LockInv, WaitInv, [Next]_vars, NEW t \in Trans,
                      \/ pc[t] = "suspect" /\ pc'[t] = "victim"
                      \/ pc[t] = "slotSuspect" /\ pc'[t] = "active"
                      \/ pc[t] = "rowSuspect" /\ pc'[t] = "active"
               PROVE  Stuck(t)
    OBVIOUS
  <2>1. QueueStep /\ Plain
    BY QueueKinds DEF WaitInv
  <2>2. pc[t] = "suspect" /\ pc'[t] = "victim"
    BY <2>1 DEF Plain, Running
  <2>3. ASSUME NEW x \in Trans, Moves(x) PROVE FALSE
    BY <2>2, <2>3 DEF Moves, OthersAlone, Running
  <2>4. ASSUME NEW x \in Trans, GrantNow(x) \/ Enqueue(x) \/ Withdraw(x) \/ ResetWaitSlot(x) PROVE FALSE
    <3>1. GrantNow(x) => x # t /\ \E label : pc' = [pc EXCEPT ![x] = label]
      BY <2>2 DEF GrantNow, Scan, ScanPasses, ScanStops, EndCall, At
    <3>2. Enqueue(x) \/ Withdraw(x) \/ ResetWaitSlot(x) => x # t /\ \E label : pc' = [pc EXCEPT ![x] = label]
      BY <2>2 DEF Enqueue, Withdraw, ResetWaitSlot, EndCall, At
    <3> QED BY <2>2, <2>4, <3>1, <3>2 DEF TypeInv, TypeOK
  <2>5. ASSUME NEW x \in Trans, Convicts(x) PROVE x = t
    BY <2>2, <2>5 DEF Convicts
  <2>6. ASSUME NEW x \in Trans, NEW i \in Items, Releases(x, i) PROVE FALSE
    BY <2>2, <2>6 DEF Releases
  <2>7. Deadlocked(t)
    BY <2>1, <2>2, <2>3, <2>4, <2>5, <2>6 DEF QueueStep, Convicts
  <2> QED BY <2>7, DeadlockedIsStuck
<1> QED BY <1>1, WaitInvAlways, PTL DEF Spec, VictimIsStuck

-----------------------------------------------------------------------------
(* Where all locks exclude each other the wait table is complete as well.   *)

Excl == {"NONE", "SIX", "X"}

\* No two modes that are asked for can be held at once.
EveryoneExcludes == RelationModes \cup RecordModes \subseteq Excl

ExclInv ==
  /\ \A i \in Items, t \in Trans : hold[i][t] \in Excl /\ req[i][t] \in Excl
  /\ \A t \in Trans : call[t].mode \in Excl

\* Every wait has its edge.
EdgesSeen == \A t, u \in Trans : Blocks(u, t) => HasEdge(edge, t, u)

SeenInv == ExclInv /\ EdgesSeen

LEMMA ExclModes ==
  /\ Excl \subseteq LockMode
  /\ \A a, b \in Excl : Conversion(a, b) \in Excl
  /\ \A a, b \in Excl \ {"NONE"} : ~Compatible(a, b)
BY DEF Excl, LockMode, Conversion, Covers, Compatible

LEMMA ExclJoin ==
  ASSUME NEW M \in SUBSET Excl, NEW m \in M, m # "NONE"
  PROVE  Join(M) \in Excl \ {"NONE"}
BY DEF Excl, Join

LEMMA OneHolder ==
  ASSUME LockInv, ExclInv, NEW i \in Items, NEW t \in Holders(i), NEW u \in Holders(i)
  PROVE  t = u
<1>1. t \in Trans /\ u \in Trans /\ hold[i][t] \in Excl \ {"NONE"} /\ hold[i][u] \in Excl \ {"NONE"}
  BY DEF ExclInv, Holders
<1>2. ~Compatible(hold[i][t], hold[i][u])
  BY <1>1, ExclModes
<1> QED BY <1>1, <1>2 DEF LockInv, HoldListSound

\* A call keeps its mode, or is over, or is a new one with a mode of its kind.
LEMMA CallModes ==
  ASSUME TypeInv, [Next]_vars, NEW t \in Trans
  PROVE  call'[t].mode \in {call[t].mode, "NONE"} \cup RelationModes \cup RecordModes
<1> DEFINE Kept == call'[t].mode = call[t].mode
<1>1. call \in [Trans -> Call]
  BY DEF TypeInv, TypeOK
<1>2. \A u \in Trans : EndCall(u) => call'[t].mode \in {call[t].mode, "NONE"}
  BY <1>1 DEF EndCall, NoCall
<1>3. \A v : \A u \in Trans : ScanStops(u, v) => Kept
  BY <1>1 DEF ScanStops, Call
<1>4. \A v : \A u \in Trans : Scan(u, v) => call'[t].mode \in {call[t].mode, "NONE"}
  BY <1>2, <1>3 DEF Scan, ScanPasses
<1>5. ASSUME NEW u \in Trans, Request(u) PROVE call'[t].mode \in {call[t].mode, "NONE"} \cup RelationModes \cup RecordModes
  <2>1. ASSUME NEW i \in Items, NEW m, NEW nowait, EnterPessimistic(u, i, m, nowait)
        PROVE  call'[t].mode \in {call[t].mode, m}
    BY <1>1, <2>1 DEF EnterPessimistic
  <2>2. ASSUME NEW v \in Trans, RowConflict(u, v) PROVE call'[t].mode \in {call[t].mode, "NONE"}
    BY <1>1, <2>2 DEF RowConflict, NoCall
  <2>3. ASSUME NEW i \in Items, NEW m, LockOptimistic(u, i, m) PROVE Kept
    BY <2>3 DEF LockOptimistic
  <2> QED BY <1>5, <2>1, <2>2, <2>3 DEF Request, Items
<1>6. ASSUME NEW u \in Trans, Wait(u) PROVE call'[t].mode \in {call[t].mode, "NONE"}
  <2>1. DroppedItem(u) \/ Refuse(u) \/ Withdraw(u) => EndCall(u)
    BY DEF DroppedItem, Refuse, Withdraw
  <2>2. GrantNow(u) \/ ContinueScan(u) \/ Proceed(u) => (\E v : Scan(u, v)) \/ EndCall(u)
    BY DEF GrantNow, Proceed, ContinueScan
  <2>3. Enqueue(u) \/ Suspect(u) \/ Confirm(u) \/ Expire(u) \/ Resume(u) \/ SlotFreed(u) => UNCHANGED call
    BY DEF Enqueue, Suspect, Confirm, Expire, Resume, SlotFreed
  <2>4. SlotEnter(u) => Kept
    BY <1>1 DEF SlotEnter, Call
  <2>5. SlotConfirm(u) \/ ExpireSlot(u) \/ RowEnter(u) => EndCall(u) \/ UNCHANGED call
    BY DEF SlotConfirm, ExpireSlot, RowEnter
  <2>6. RowDone(u) \/ RowConfirm(u) \/ RowExpire(u) => EndCall(u) \/ UNCHANGED call
    BY DEF RowDone, RowConfirm, RowExpire, LeaveRow
  <2> QED BY <1>2, <1>4, <1>6, <2>1, <2>2, <2>3, <2>4, <2>5, <2>6 DEF Wait
<1>7. ASSUME NEW u \in Trans, FreeTrans(u) PROVE Kept
  BY <1>1, <1>7 DEF FreeTrans, Call
<1>8. ASSUME NEW u \in Trans, Begin(u) \/ Finish(u) \/ Undo(u), ~FreeTrans(u) PROVE Kept
  BY <1>8 DEF Begin, Finish, Undo, EndTrans, StartUnlock, ResetWaitSlot, UnlockHeld, ClearIntent, Savepoint,
              RollbackToSavepoint, UndoDone, UndoNode, UndoIntent, UnlockRecord
<1>9. ASSUME NEW i \in Relations, AgeLockItem(i) \/ \E u \in Trans : MarkFree(u, i) PROVE Kept
  BY <1>9 DEF AgeLockItem, MarkFree
<1>10. CASE UNCHANGED vars
  BY <1>10 DEF vars
<1> QED BY <1>5, <1>6, <1>7, <1>8, <1>9, <1>10 DEF Next

\* The first in line alone is let in, and everybody else had it ahead.
LEMMA OneIsLetIn ==
  ASSUME TypeInv, LockInv, ExclInv, NEW i \in Items, NEW G \in SUBSET Requesters(i), IsBatch(i, G)
  PROVE  \A g \in G, r \in Requesters(i) : r # g => r \notin G /\ g \in ahead[i][r]
<1>1. \A r \in Requesters(i) : req[i][r] \in Excl \ {"NONE"}
  BY DEF ExclInv, Requesters
<1>2. ASSUME NEW r \in Requesters(i) PROVE r \in G <=> G \cap ahead[i][r] = {}
  <2> DEFINE M == {req[i][g] : g \in G \cap ahead[i][r]}
  <2>1. CASE G \cap ahead[i][r] = {}
    <3>1. Join(M) = "NONE"
      <4>1. M = {}
        BY <2>1
      <4> QED BY <4>1, JoinOfNone
    <3>2. Compatible(Join(M), req[i][r])
      BY <3>1 DEF Compatible
    <3> QED BY <2>1, <3>2 DEF IsBatch
  <2>2. CASE G \cap ahead[i][r] # {}
    <3>1. PICK g \in G : g \in ahead[i][r]
      BY <2>2
    <3>2. M \in SUBSET Excl /\ req[i][g] \in M /\ req[i][g] # "NONE"
      BY <1>1, <3>1 DEF ExclInv
    <3>3. Join(M) \in Excl \ {"NONE"}
      BY <3>2, ExclJoin
    <3>4. ~Compatible(Join(M), req[i][r])
      BY <1>1, <3>3, ExclModes
    <3> QED BY <2>2, <3>4 DEF IsBatch
  <2> QED BY <2>1, <2>2
<1>3. ASSUME NEW g \in G, NEW r \in G, r # g PROVE FALSE
  BY <1>2, <1>3 DEF LockInv, QueueOrdered
<1> QED BY <1>2, <1>3

\* A grant is made to the only holder, if anybody waits.
LEMMA GrantAlone ==
  ASSUME TypeInv, LockInv, ExclInv, NEW x \in Trans, GrantNow(x),
         NEW i, i = call[x].item, NEW r \in Requesters(i)
  PROVE  x \in Holders(i)
<1>1. pc[x] = "escalate" /\ i \in Items /\ call[x].mode \in Excl \ {"NONE"}
  BY DEF GrantNow, TypeInv, CallInv, LockCall, ExclInv
<1>2. PICK h \in Trans : hold[i][h] # "NONE"
  BY <1>1 DEF LockInv, QueueHasHolder, Holders, Requesters
<1> SUFFICES ASSUME x \notin Holders(i) PROVE FALSE
  OBVIOUS
<1> DEFINE M == {hold[i][t] : t \in Trans}
<1>3. M \in SUBSET Excl /\ hold[i][h] \in M
  BY <1>1, <1>2 DEF ExclInv
<1>4. grantedMode[i] = Join(M)
  BY <1>1 DEF LockInv, HoldListSound
<1>5. Join(M) \in Excl \ {"NONE"}
  BY <1>2, <1>3, ExclJoin
<1>6. ~Compatible(Join(M), call[x].mode)
  BY <1>1, <1>5, ExclModes
<1> QED BY <1>4, <1>6 DEF GrantNow, Grantable, GrantedToOthers

LEMMA ReleaseExcl ==
  ASSUME TypeInv, ExclInv, NEW x \in Trans, NEW i \in Items, ReleaseNode(x, i), NEW j \in Items, NEW t \in Trans
  PROVE  hold'[j][t] \in Excl /\ req'[j][t] \in Excl
<1>1. hold \in [Items -> [Trans -> LockMode]] /\ req \in [Items -> [Trans -> LockMode]]
  BY DEF TypeInv, TypeOK
<1>2. hold[j][t] \in Excl /\ req[j][t] \in Excl /\ "NONE" \in Excl
  BY DEF ExclInv, Excl
<1>3. \A R : Unlink(i, R) => req'[j][t] \in {req[j][t], "NONE"}
  BY <1>1 DEF Unlink
<1>4. CASE ReleaseDropped(x, i)
  BY <1>1, <1>2, <1>3, <1>4 DEF ReleaseDropped
<1>5. CASE ReleaseToQueue(x, i)
  <2>1. PICK G \in SUBSET Requesters(i) :
          /\ hold' = [hold EXCEPT ![i] = [r \in Trans |-> IF r \in G THEN req[i][r] ELSE "NONE"]]
          /\ Unlink(i, G)
    BY <1>5 DEF ReleaseToQueue
  <2>2. hold'[j][t] \in {hold[j][t], req[i][t], "NONE"}
    BY <1>1, <2>1
  <2> QED BY <1>2, <1>3, <2>1, <2>2 DEF ExclInv
<1>6. CASE ReleaseToUpgrade(x, i)
  <2>1. PICK h \in Requesters(i) :
          /\ hold' = [hold EXCEPT ![i][x] = "NONE", ![i][h] = Conversion(req[i][h], hold[i][h])]
          /\ Unlink(i, {h})
    BY <1>6 DEF ReleaseToUpgrade
  <2>2. h \in Trans /\ Conversion(req[i][h], hold[i][h]) \in Excl
    BY <2>1, ExclModes DEF ExclInv, Requesters
  <2>3. hold'[j][t] \in {hold[j][t], "NONE", Conversion(req[i][h], hold[i][h])}
    BY <1>1, <2>1, <2>2
  <2> QED BY <1>2, <1>3, <2>1, <2>2, <2>3
<1>7. CASE ReleaseToHolders(x, i)
  BY <1>1, <1>2, <1>7 DEF ReleaseToHolders
<1> QED BY <1>4, <1>5, <1>6, <1>7 DEF ReleaseNode

LEMMA ExclKeeps ==
  ASSUME EveryoneExcludes, TypeInv, LockInv, Plain, ExclInv, QueueStep, [Next]_vars
  PROVE  ExclInv'
<1>1. \A t \in Trans : call'[t].mode \in Excl
  BY CallModes DEF EveryoneExcludes, ExclInv, Excl
<1> SUFFICES ASSUME NEW j \in Items, NEW t \in Trans PROVE hold'[j][t] \in Excl /\ req'[j][t] \in Excl
  BY <1>1 DEF ExclInv
<1>2. hold \in [Items -> [Trans -> LockMode]] /\ req \in [Items -> [Trans -> LockMode]]
  BY DEF TypeInv, TypeOK
<1>3. hold[j][t] \in Excl /\ req[j][t] \in Excl /\ "NONE" \in Excl
  BY DEF ExclInv, Excl
<1>4. CASE UNCHANGED <<hold, req>>
  BY <1>3, <1>4
<1>5. ASSUME NEW x \in Trans, GrantNow(x) PROVE hold'[j][t] \in Excl /\ req'[j][t] \in Excl
  <2>1. Conversion(hold[call[x].item][x], call[x].mode) \in Excl \/ call[x].item \notin Items
    BY ExclModes DEF ExclInv
  <2>2. hold' = [hold EXCEPT ![call[x].item][x] = Conversion(hold[call[x].item][x], call[x].mode)] /\ UNCHANGED req
    BY <1>5 DEF GrantNow
  <2> QED BY <1>2, <1>3, <2>1, <2>2
<1>6. ASSUME NEW x \in Trans, Enqueue(x) PROVE hold'[j][t] \in Excl /\ req'[j][t] \in Excl
  <2>1. req' = [req EXCEPT ![call[x].item][x] = call[x].mode] /\ UNCHANGED hold /\ call[x].mode \in Excl
    BY <1>6 DEF Enqueue, ExclInv
  <2> QED BY <1>2, <1>3, <2>1
<1>7. ASSUME NEW x \in Trans, Withdraw(x) PROVE hold'[j][t] \in Excl /\ req'[j][t] \in Excl
  BY <1>2, <1>3, <1>7 DEF Withdraw, Unlink
<1>8. ASSUME NEW x \in Trans, NEW i \in Items, Releases(x, i) PROVE hold'[j][t] \in Excl /\ req'[j][t] \in Excl
  BY <1>8, ReleaseExcl DEF Releases
<1>9. \A x \in Trans : Moves(x) \/ Convicts(x) \/ ResetWaitSlot(x) => UNCHANGED <<hold, req>>
  BY DEF Moves, Convicts, ResetWaitSlot
<1> QED BY <1>4, <1>5, <1>6, <1>7, <1>8, <1>9 DEF QueueStep

\* A step of x after which it is blocked by nobody whom it has no edge to, and which
\* leaves the others as they were.
LEMMA SeenKept ==
  ASSUME EdgesSeen, NEW x \in Trans,
         \A t \in Trans \ {x} : \A u \in Trans : Blocks(u, t)' => Blocks(u, t) /\ edge'[t][u] = edge[t][u],
         \A u \in Trans : Blocks(u, x)' => HasEdge(edge, x, u)'
  PROVE  EdgesSeen'
BY DEF EdgesSeen, HasEdge

LEMMA MovesSees ==
  ASSUME LockInv, SeenInv, NEW x \in Trans, Moves(x)
  PROVE  EdgesSeen'
<1>1. \A i \in Items : Holders(i)' = Holders(i) /\ Requesters(i)' = Requesters(i)
  BY DEF Moves, Holders, Requesters
<1>2. \A t, u \in Trans : Blocks(u, t)' => Blocks(u, t)
  <2> SUFFICES ASSUME NEW t \in Trans, NEW u \in Trans, Blocks(u, t)' PROVE Blocks(u, t)
    OBVIOUS
  <2>1. CASE t # x
    BY <1>1, <2>1 DEF Blocks, Moves, OthersAlone
  <2>2. CASE t = x
    BY <1>1, <2>2 DEF Blocks, Moves, Running
  <2> QED BY <2>1, <2>2
<1> QED BY <1>2 DEF SeenInv, EdgesSeen, HasEdge, Moves

LEMMA GrantSees ==
  ASSUME TypeInv, LockInv, WaitInv, SeenInv, NEW x \in Trans, GrantNow(x)
  PROVE  EdgesSeen'
<1> DEFINE i == call[x].item
<1>1. pc[x] = "escalate" /\ i \in Items
  BY DEF GrantNow, TypeInv, CallInv, LockCall
<1>2. ScanPasses(x, 0)
  BY <1>1, PlainScan DEF GrantNow, WaitInv
<1>3. /\ UNCHANGED <<req, edge>> /\ \A t \in Trans \ {x} : pc'[t] = pc[t]
      /\ \A j \in Items, t \in Trans : hold'[j][t] = hold[j][t] \/ (j = i /\ t = x)
  BY <1>1, <1>2 DEF GrantNow, ScanPasses, EndCall, TypeInv, TypeOK
<1>4. \A j \in Items : x \notin Requesters(j) /\ Requesters(j)' = Requesters(j)
  BY <1>1, <1>3 DEF LockInv, RequestsAreCalls, Queued, Requesters
<1>5. ASSUME NEW t \in Trans, NEW u \in Trans, Blocks(u, t)' PROVE Blocks(u, t)
  <2>1. PICK j \in Items : t \in Requesters(j) /\ u \in Holders(j)' \ {t} /\ pc'[t] # "victim"
    BY <1>4, <1>5 DEF Blocks
  <2>2. t # x /\ pc[t] # "victim"
    BY <1>3, <1>4, <2>1
  <2>3. u \in Holders(j)
    <3>1. CASE j = i /\ u = x
      BY <2>1, <3>1, GrantAlone DEF SeenInv
    <3>2. CASE ~(j = i /\ u = x)
      BY <1>3, <2>1, <3>2 DEF Holders
    <3> QED BY <3>1, <3>2
  <2> QED BY <2>1, <2>2, <2>3 DEF Blocks
<1> QED BY <1>3, <1>5 DEF SeenInv, EdgesSeen, HasEdge

LEMMA EnqueueSees ==
  ASSUME TypeInv, LockInv, SeenInv, NEW x \in Trans, Enqueue(x)
  PROVE  EdgesSeen'
<1> DEFINE i == call[x].item
<1>1. pc[x] = "escalate" /\ i \in Items
  BY DEF Enqueue, TypeInv, CallInv, LockCall
<1>2. /\ UNCHANGED hold /\ \A t \in Trans \ {x} : pc'[t] = pc[t] /\ edge'[t] = edge[t]
      /\ \A t \in Trans \ {x} : \A j \in Items : req'[j][t] = req[j][t]
      /\ \A j \in Items \ {i} : req'[j][x] = req[j][x]
      /\ \A u \in Trans : edge'[x][u] = IF u \in Holders(i) \ {x} THEN Waits ELSE edge[x][u]
  BY <1>1 DEF Enqueue, At, TypeInv, TypeOK
<1>3. \A j \in Items : x \notin Requesters(j)
  BY <1>1 DEF LockInv, RequestsAreCalls, Queued
<1>4. \A u \in Trans : Blocks(u, x)' => HasEdge(edge, x, u)'
  <2> SUFFICES ASSUME NEW u \in Trans, Blocks(u, x)' PROVE HasEdge(edge, x, u)'
    OBVIOUS
  <2>1. u \in Holders(i) \ {x}
    BY <1>2, <1>3 DEF Blocks, Holders, Requesters
  <2> QED BY <1>2, <2>1 DEF HasEdge
<1>5. \A t \in Trans \ {x} : \A u \in Trans : Blocks(u, t)' => Blocks(u, t)
  BY <1>2 DEF Blocks, Holders, Requesters
<1> QED BY <1>2, <1>4, <1>5, SeenKept DEF SeenInv

LEMMA ConvictSees ==
  ASSUME TypeInv, SeenInv, NEW x \in Trans, Convicts(x)
  PROVE  EdgesSeen'
<1>1. UNCHANGED <<hold, req>> /\ pc'[x] = "victim" /\ \A t \in Trans \ {x} : pc'[t] = pc[t] /\ edge'[t] = edge[t]
  BY ResolveOther DEF Convicts, TypeInv, TypeOK
<1>2. \A u \in Trans : ~Blocks(u, x)'
  BY <1>1 DEF Blocks
<1>3. \A t \in Trans \ {x} : \A u \in Trans : Blocks(u, t)' => Blocks(u, t)
  BY <1>1 DEF Blocks, Holders, Requesters
<1> QED BY <1>1, <1>2, <1>3, SeenKept DEF SeenInv

LEMMA WithdrawSees ==
  ASSUME TypeInv, LockInv, WaitInv, SeenInv, NEW x \in Trans, Withdraw(x)
  PROVE  EdgesSeen'
<1>1. pc[x] = "victim"
  BY DEF Withdraw, WaitInv, Plain, Running
<1>2. call[x].item \in Items /\ \A j \in Items : x \in Requesters(j) => j = call[x].item
  BY <1>1 DEF TypeInv, CallInv, LockCall, LockInv, RequestsAreCalls
<1>3. /\ UNCHANGED <<hold, edge>> /\ \A t \in Trans \ {x} : pc'[t] = pc[t]
      /\ \A j \in Items : \A t \in Trans \ {x} : req'[j][t] = req[j][t]
      /\ \A j \in Items : req'[j][x] = IF j = call[x].item THEN "NONE" ELSE req[j][x]
  BY <1>2 DEF Withdraw, Unlink, EndCall, TypeInv, TypeOK
<1>4. \A u \in Trans : ~Blocks(u, x)'
  BY <1>2, <1>3 DEF Blocks, Requesters
<1>5. \A t \in Trans \ {x} : \A u \in Trans : Blocks(u, t)' => Blocks(u, t)
  BY <1>3 DEF Blocks, Holders, Requesters
<1> QED BY <1>3, <1>4, <1>5, SeenKept DEF SeenInv

LEMMA ResetSees ==
  ASSUME TypeInv, LockInv, SeenInv, NEW x \in Trans, ResetWaitSlot(x)
  PROVE  EdgesSeen'
<1>1. /\ UNCHANGED <<hold, req>> /\ pc[x] = "unlock" /\ pc'[x] = "intents"
      /\ \A t \in Trans \ {x} : pc'[t] = pc[t]
      /\ \A t \in Trans, u \in Trans \ {x} : edge'[t][u] = edge[t][u]
      /\ \A i \in Items : x \notin Holders(i)
  BY DEF ResetWaitSlot, At, TypeInv, TypeOK, Holders
<1>2. \A t, u \in Trans : Blocks(u, t)' => Blocks(u, t) /\ u # x
  <2> SUFFICES ASSUME NEW t \in Trans, NEW u \in Trans, Blocks(u, t)' PROVE Blocks(u, t) /\ u # x
    OBVIOUS
  <2>1. PICK j \in Items : t \in Requesters(j)' /\ u \in Holders(j)' \ {t} /\ pc'[t] # "victim"
    BY DEF Blocks
  <2>2. t \in Requesters(j) /\ u \in Holders(j) \ {t} /\ pc[t] # "victim"
    BY <1>1, <2>1 DEF Holders, Requesters
  <2> QED BY <1>1, <2>2 DEF Blocks
<1> QED BY <1>1, <1>2 DEF SeenInv, EdgesSeen, HasEdge

\* The only holder leaves, and those left in the queue wait for the one let in.
LEMMA ReleaseIsToQueue ==
  ASSUME LockInv, ExclInv, NEW x \in Trans, NEW i \in Items, ReleaseNode(x, i)
  PROVE  ReleaseDropped(x, i) \/ ReleaseToQueue(x, i)
<1>1. x \in Holders(i)
  BY DEF ReleaseNode, ReleaseDropped, ReleaseToQueue, ReleaseToUpgrade, ReleaseToHolders, DropNode, Holders
<1>2. Holders(i) = {x}
  BY <1>1, OneHolder
<1> QED BY <1>2 DEF ReleaseNode, ReleaseToUpgrade, ReleaseToHolders

LEMMA ReleaseSees ==
  ASSUME TypeInv, LockInv, WaitInv, SeenInv, NEW x \in Trans, NEW i \in Items, Releases(x, i)
  PROVE  EdgesSeen'
<1> SUFFICES ASSUME NEW t \in Trans, NEW u \in Trans, Blocks(u, t)' PROVE HasEdge(edge, t, u)'
  BY DEF EdgesSeen
<1>1. /\ req \in [Items -> [Trans -> LockMode]] /\ hold \in [Items -> [Trans -> LockMode]]
      /\ pc' = pc /\ ReleaseNode(x, i)
  BY DEF Releases, TypeInv, TypeOK
<1>2. PICK j \in Items : t \in Requesters(j)' /\ u \in Holders(j)' \ {t} /\ pc[t] # "victim"
  BY <1>1 DEF Blocks
<1>3. CASE j # i
  <2>1. t \in Requesters(j) /\ u \in Holders(j) \ {t}
    BY <1>1, <1>2, <1>3, ReleaseLists DEF Requesters, Holders
  <2>2. t \notin Requesters(i)
    BY <1>3, <2>1, OneQueue
  <2>3. edge'[t] = edge[t]
    BY <1>1, <2>2, ReleaseEdges
  <2>4. HasEdge(edge, t, u)
    BY <1>2, <2>1 DEF SeenInv, EdgesSeen, Blocks
  <2> QED BY <2>3, <2>4 DEF HasEdge
<1>4. CASE j = i
  <2>1. CASE ReleaseDropped(x, i)
    <3>1. req'[i][t] = "NONE"
      BY <1>1, <2>1 DEF ReleaseDropped, Unlink, Requesters
    <3> QED BY <1>2, <1>4, <3>1 DEF Requesters
  <2>2. CASE ReleaseToQueue(x, i)
    <3>1. PICK G \in SUBSET Requesters(i) :
            /\ IsBatch(i, G)
            /\ hold' = [hold EXCEPT ![i] = [r \in Trans |-> IF r \in G THEN req[i][r] ELSE "NONE"]]
            /\ edge' = [r \in Trans |-> [v \in Trans |->
                          IF r \in Requesters(i) \ G /\ v \in G \cap ahead[i][r] THEN Waits
                          ELSE EdgesWithout(i, x)[r][v]]]
            /\ Unlink(i, G)
      BY <2>2 DEF ReleaseToQueue
    <3>2. u \in G
      BY <1>1, <1>2, <1>4, <3>1 DEF Holders
    <3>3. t \in Requesters(i) \ G
      BY <1>1, <1>2, <1>4, <3>1 DEF Requesters, Unlink
    <3>4. u \in G \cap ahead[i][t]
      BY <1>2, <3>1, <3>2, <3>3, OneIsLetIn DEF SeenInv
    <3> QED BY <3>1, <3>3, <3>4 DEF HasEdge
  <2> QED BY <1>1, <2>1, <2>2, ReleaseIsToQueue DEF SeenInv
<1> QED BY <1>3, <1>4

LEMMA QueueStepSees ==
  ASSUME TypeInv, LockInv, WaitInv, SeenInv, QueueStep
  PROVE  EdgesSeen'
<1>1. ASSUME UNCHANGED <<hold, req, edge, pc, latch>> PROVE EdgesSeen'
  BY <1>1 DEF SeenInv, EdgesSeen, HasEdge, Blocks, Holders, Requesters
<1> QED BY <1>1, MovesSees, GrantSees, EnqueueSees, ConvictSees, WithdrawSees, ResetSees, ReleaseSees DEF QueueStep

LEMMA InitSeenInv == Init => SeenInv
BY DEF Init, SeenInv, ExclInv, Excl, EdgesSeen, Blocks, Requesters, NoCall

LEMMA SeenInvAlways ==
  ASSUME EveryoneQueues, EveryoneExcludes
  PROVE  Spec => [](TypeInv /\ LockInv /\ WaitInv /\ SeenInv)
<1>1. (TypeInv /\ LockInv /\ WaitInv) /\ SeenInv /\ [Next]_vars => SeenInv'
  BY QueueKinds, QueueStepSees, ExclKeeps DEF WaitInv, SeenInv
<1> QED BY <1>1, InitSeenInv, WaitInvAlways, PTL DEF Spec

\* Who is stuck is on a cycle of edges.
LEMMA StuckIsOnCycle ==
  ASSUME TypeInv, LockInv, WaitInv, SeenInv, NEW t \in Trans, Stuck(t)
  PROVE  Graph!OnCycle(t)
<1> SUFFICES ASSUME NEW A \in SUBSET Trans, Graph!Successors(A \cup {t}) \subseteq A PROVE t \in A
  BY SameTable DEF Graph!OnCycle, Graph!Reachable
<1>1. ASSUME NEW a \in A \cup {t} PROVE WaitsFor(a) \subseteq A
  <2> SUFFICES ASSUME NEW u \in WaitsFor(a) PROVE u \in A
    OBVIOUS
  <2>1. u \in Trans
    BY DEF WaitsFor, WaitingOn, Holders, TypeInv, TypeOK, Call
  <2>2. Blocks(u, a)
    BY <2>1, BlockedWaits DEF WaitInv
  <2>3. Graph!HasEdge(edge, a, u)
    BY <2>1, <2>2, SameTable DEF SeenInv, EdgesSeen
  <2> QED BY <2>1, <2>3, SameTable DEF Graph!Successors
<1>2. UNION {WaitsFor(a) : a \in A \cup {t}} \subseteq A
  BY <1>1
<1> QED BY <1>2 DEF Stuck, WaitsBehind

\* Among exclusive list nodes a deadlock is always visible: the edges that are set when a
\* request queues and when a release lets the next one in stand for all waits, so that the
\* search convicts somebody who is stuck, for any number of slots and items.
THEOREM DeadlocksAreVisible ==
  ASSUME EveryoneQueues, EveryoneExcludes
  PROVE  Spec => []DeadlockIsVisible
<1>1. TypeInv /\ LockInv /\ WaitInv /\ SeenInv => DeadlockIsVisible
  <2> SUFFICES ASSUME TypeInv, LockInv, WaitInv, SeenInv, NEW t \in Trans, Stuck(t)
               PROVE  \E s \in Trans : Stuck(s) /\ Deadlocked(s)
    BY DEF DeadlockIsVisible
  <2>1. t \in Graph!Slot /\ edge \in Graph!Table /\ Graph!OnCycle(t)
    BY SameTable, StuckIsOnCycle
  <2>2. PICK s \in Graph!Slot : Graph!CheckDeadlock(edge, Graph!NoGroups, s)
    BY <2>1, LockManagerAssumption, Graph!CycleIsFound
  <2>3. s \in Trans /\ Deadlocked(s)
    BY <2>2, SameTable
  <2> QED BY <2>3, DeadlockedIsStuck
<1> QED BY <1>1, SeenInvAlways, PTL
=============================================================================
