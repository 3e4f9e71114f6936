-------------------------- MODULE LockManagerProofs --------------------------
(***************************************************************************)
(* Proofs about LockManager, for every number of transaction slots, every  *)
(* set of items and every choice of who may time out, roll back or drop.   *)
(***************************************************************************)
EXTENDS LockManager, TLAPS

-----------------------------------------------------------------------------
(* Lock modes: the two matrices, for every mode and every set of modes.     *)

\* Every entry of the conversion matrix is the weakest mode that covers both.
THEOREM ConversionFollowsRule ==
  \A a, b \in LockMode : gLockConversionMatrix[a][b] = Conversion(a, b)
BY DEF gLockConversionMatrix, Row, Conversion, Covers, LockMode

\* Every entry of the compatibility matrix is the one the rule gives.
THEOREM CompatibleFollowsRule ==
  \A a, b \in LockMode : gLockCompatibleMatrix[a][b] <=> Compatible(a, b)
BY DEF gLockCompatibleMatrix, Row, Compatible, LockMode

\* The representative mode decides for all nodes at once: it is compatible with a mode
\* exactly when every node of the list is.
THEOREM RepresentativeDecides ==
  ASSUME NEW M \in SUBSET LockMode, NEW m \in LockMode
  PROVE  Compatible(Join(M), m) <=> \A a \in M : Compatible(a, m)
BY DEF Compatible, Join, LockMode

\* A holder that converts keeps clear of everyone it was clear of before and everyone
\* the mode it asks for is clear of, and of nobody else.
THEOREM ConversionIsExact ==
  \A a, b, c \in LockMode :
    Compatible(Conversion(a, b), c) <=> Compatible(a, c) /\ Compatible(b, c)
BY DEF Compatible, Conversion, Covers, LockMode

\* Both results of the conversion matrix are lock modes.
LEMMA ConversionType ==
  \A a, b \in LockMode : Conversion(a, b) \in LockMode
BY DEF Conversion, LockMode

\* The representative mode of a hold list is a lock mode.
LEMMA JoinType ==
  \A M \in SUBSET LockMode : Join(M) \in LockMode
BY DEF Join, LockMode

\* A mode covers itself, and covering is transitive.
LEMMA CoversOrder ==
  \A a, b, c \in LockMode :
    /\ Covers(a, a)
    /\ Covers(a, b) /\ Covers(b, c) => Covers(a, c)
BY DEF Covers, LockMode

\* NONE is below every mode and compatible with every mode.
LEMMA NoneIsNeutral ==
  \A a \in LockMode :
    /\ Covers(a, "NONE")
    /\ Covers("NONE", a) => a = "NONE"
    /\ Compatible(a, "NONE") /\ Compatible("NONE", a)
    /\ Conversion("NONE", a) = a
BY DEF Covers, Compatible, Conversion, LockMode

\* The compatibility matrix is symmetric.
LEMMA CompatibleSymmetric ==
  \A a, b \in LockMode : Compatible(a, b) => Compatible(b, a)
BY DEF Compatible, LockMode

\* A weaker mode is compatible with whatever the stronger one is.
LEMMA WeakerIsCompatible ==
  \A a, b, c \in LockMode : Covers(a, b) /\ Compatible(a, c) => Compatible(b, c)
BY DEF Covers, Compatible, LockMode

\* A converted lock is stronger than both of its parts.
LEMMA ConversionCovers ==
  \A a, b \in LockMode : Covers(Conversion(a, b), a) /\ Covers(Conversion(a, b), b)
BY DEF Covers, Conversion, LockMode

\* A converted lock conflicts with nobody that neither of its parts conflicts
\* with: the conversion of a holder never breaks a grant made before.
LEMMA ConversionCompatible ==
  \A a, b, c \in LockMode :
    Compatible(a, c) /\ Compatible(b, c) => Compatible(Conversion(a, b), c)
BY DEF Compatible, Conversion, Covers, LockMode

\* A mode compatible with the representative mode is compatible with every node
\* of the hold list.
LEMMA RepresentativeDecidesForAll ==
  ASSUME NEW M \in SUBSET LockMode, NEW m \in LockMode, Compatible(Join(M), m), NEW a \in M
  PROVE  Compatible(a, m)
BY DEF Compatible, Join, LockMode

\* One more conversion is one more member of the join.
LEMMA ConversionExtendsJoin ==
  ASSUME NEW M \in SUBSET LockMode, NEW m \in LockMode
  PROVE  /\ Conversion(Join(M), m) = Join(M \cup {m})
         /\ Join(M \cup {"NONE"}) = Join(M)
BY DEF Conversion, Covers, Join, LockMode

\* The representative mode of a list with one lock on it is that lock.
LEMMA JoinOfOne ==
  ASSUME NEW m \in LockMode
  PROVE  Join({m}) = m /\ Join({m, "NONE"}) = m
BY DEF Join, LockMode

\* An empty hold list has no mode.
LEMMA JoinOfNone ==
  Join({}) = "NONE" /\ Join({"NONE"}) = "NONE"
BY DEF Join

\* What covers both parts covers the converted lock.
LEMMA ConversionIsLeast ==
  \A a, b, c \in LockMode : Covers(c, a) /\ Covers(c, b) => Covers(c, Conversion(a, b))
BY DEF Covers, Conversion, LockMode

\* Optimistic locks never conflict with each other.
LEMMA IntentsCompatible ==
  \A a, b \in IntentMode : a \in LockMode /\ Compatible(a, b)
BY DEF Compatible, IntentMode, LockMode

\* The order in which modes are added to a lock does not matter.
LEMMA ConversionOrder ==
  \A a, b, c \in LockMode :
    /\ Conversion(a, Conversion(b, c)) = Conversion(Conversion(a, b), c)
    /\ Conversion(Conversion(a, b), c) = Conversion(Conversion(a, c), b)
    /\ Conversion(a, "NONE") = a
BY DEF Covers, Conversion, LockMode

-----------------------------------------------------------------------------
(* Types.                                                                   *)

LEMMA TransType ==
  /\ Trans \subseteq Nat
  /\ 0 \in Trans
  /\ NoSlot \notin Trans
BY LockManagerAssumption DEF Trans, NoSlot

LEMMA InitTypeOK == Init => TypeOK
BY TransType, LockManagerAssumption
DEF Init, TypeOK, LockMode, IntentMode, EdgeValue, NoEdge, PC, Call, NoCall, NoMark

\* The join of the locks that others have on an item is a mode.
LEMMA GrantedToOthersType ==
  ASSUME TypeOK, NEW i \in Items, NEW t \in Trans
  PROVE  GrantedToOthers(i, t) \in LockMode
<1>1. {hold[i][u] : u \in Holders(i) \ {t}} \in SUBSET LockMode
  BY DEF TypeOK, Holders
<1>2. grantedMode[i] \in LockMode
  BY DEF TypeOK
<1> QED
  BY <1>1, <1>2, JoinType DEF GrantedToOthers

LEMMA IntentModeConverts ==
  \A a \in IntentMode : \A m \in {"IS", "IX"} : Conversion(a, m) \in IntentMode
BY DEF IntentMode, Conversion, Covers

LEMMA NoCallType == NoCall \in Call
BY TransType DEF NoCall, Call, LockMode

LEMMA EndCallType ==
  ASSUME TypeOK, NEW t \in Trans, EndCall(t)
  PROVE  pc' \in [Trans -> PC] /\ call' \in [Trans -> Call]
BY NoCallType DEF EndCall, TypeOK, PC

LEMMA ScanType ==
  ASSUME TypeOK, NEW t \in Trans, NEW from, Scan(t, from), call[t].item \in Items
  PROVE  /\ edge' \in [Trans -> [Trans -> EdgeValue]]
         /\ pc'   \in [Trans -> PC]
         /\ call' \in [Trans -> Call]
         /\ done' \in [Items -> [Trans -> LockMode]]
<1>1. CASE ScanPasses(t, from)
  <2>1. call[t].mode \in LockMode
    BY DEF TypeOK, Call
  <2>2. done' \in [Items -> [Trans -> LockMode]]
    BY <1>1, <2>1, ConversionType DEF ScanPasses, TypeOK
  <2> QED
    BY <1>1, <2>2, EndCallType DEF ScanPasses, TypeOK
<1>2. CASE ScanStops(t, from)
  <2>1. PICK u \in Blockers(t, from) :
          /\ edge' = [edge EXCEPT ![t][u] = Waits]
          /\ call' = [call EXCEPT ![t].target = u]
          /\ At(t, "slotEnter")
          /\ UNCHANGED done
    BY <1>2 DEF ScanStops
  <2>2. u \in Trans
    BY DEF Blockers
  <2>3. edge' \in [Trans -> [Trans -> EdgeValue]]
    BY <2>1, <2>2 DEF TypeOK, EdgeValue, Waits
  <2>4. call' \in [Trans -> Call]
    <3>1. call \in [Trans -> Call]
      BY DEF TypeOK
    <3>2. [call[t] EXCEPT !.target = u] \in Call
      BY <2>2, <3>1 DEF Call
    <3>3. call' = [call EXCEPT ![t] = [call[t] EXCEPT !.target = u]]
      BY <2>1
    <3> QED
      BY <3>1, <3>2, <3>3
  <2> QED
    BY <2>1, <2>3, <2>4 DEF At, TypeOK, PC
<1> QED
  BY <1>1, <1>2 DEF Scan

LEMMA ResolveDeadlockType ==
  ASSUME TypeOK, NEW t \in Trans
  PROVE  ResolveDeadlock(edge, t) \in [Trans -> [Trans -> EdgeValue]]
BY DEF ResolveDeadlock, TypeOK, EdgeValue, DeadlockEdge

LEMMA EdgesWithoutType ==
  ASSUME TypeOK, NEW t \in Trans, NEW i \in Items
  PROVE  EdgesWithout(i, t) \in [Trans -> [Trans -> EdgeValue]]
BY DEF EdgesWithout, TypeOK, EdgeValue, NoEdge

LEMMA UnlinkType ==
  ASSUME TypeOK, NEW i \in Items, NEW R \in SUBSET Trans, Unlink(i, R)
  PROVE  /\ req'   \in [Items -> [Trans -> LockMode]]
         /\ ahead' \in [Items -> [Trans -> SUBSET Trans]]
BY DEF TypeOK, Unlink, LockMode

LEMMA SignalType ==
  ASSUME TypeOK, NEW R \in SUBSET Trans, Signal(R)
  PROVE  sem' \in [Trans -> Nat]
BY DEF TypeOK, Signal

TypeInv == TypeOK /\ CallInv

USE DEF listVars, lockVars, tranVars

LEMMA BeginType ==
  ASSUME TypeInv, NEW t \in Trans, Begin(t)
  PROVE  TypeInv'
BY DEF TypeInv, TypeOK, CallInv, LockCall, PC, Begin, At

LEMMA LockOptimisticType ==
  ASSUME TypeInv, NEW t \in Trans, NEW i \in Relations, NEW m \in RelationModes, LockOptimistic(t, i, m)
  PROVE  TypeInv'
<1>1. intent' \in [Items -> [Trans -> IntentMode]]
  BY IntentModeConverts DEF TypeInv, TypeOK, LockOptimistic, Items
<1>2. calls' \in [Trans -> Nat]
  BY DEF TypeInv, TypeOK, LockOptimistic
<1> QED
  BY <1>1, <1>2 DEF TypeInv, TypeOK, CallInv, LockOptimistic

LEMMA EnterPessimisticType ==
  ASSUME TypeInv, NEW t \in Trans, NEW i \in Items, NEW m \in LockMode \ {"NONE"}, NEW nowait \in BOOLEAN,
         EnterPessimistic(t, i, m, nowait)
  PROVE  TypeInv'
<1>1. [item |-> i, mode |-> m, nowait |-> nowait, target |-> 0, gone |-> FALSE] \in Call
  BY TransType DEF Call
<1>2. call' \in [Trans -> Call]
  BY <1>1 DEF TypeInv, TypeOK, EnterPessimistic
<1>3. call'[t].item = i /\ call'[t].mode = m
  BY DEF TypeInv, TypeOK, EnterPessimistic
<1>4. \A u \in Trans \ {t} : call'[u] = call[u] /\ pc'[u] = pc[u]
  BY DEF TypeInv, TypeOK, EnterPessimistic, At
<1>5. CallInv'
  BY <1>3, <1>4 DEF TypeInv, CallInv
<1>6. pc' \in [Trans -> PC] /\ calls' \in [Trans -> Nat]
  BY DEF TypeInv, TypeOK, EnterPessimistic, At, PC
<1> QED
  BY <1>2, <1>5, <1>6 DEF TypeInv, TypeOK, EnterPessimistic

\* A call that ends leaves nothing to say about its arguments.
LEMMA EndCallInv ==
  ASSUME TypeInv, NEW t \in Trans, EndCall(t)
  PROVE  CallInv'
BY DEF TypeInv, TypeOK, CallInv, EndCall, LockCall

LEMMA ScanCallInv ==
  ASSUME TypeInv, NEW t \in Trans, NEW from, Scan(t, from), pc[t] \in LockCall
  PROVE  CallInv'
<1>1. CASE ScanPasses(t, from)
  BY <1>1, EndCallInv DEF ScanPasses
<1>2. CASE ScanStops(t, from)
  <2>1. PICK u \in Blockers(t, from) : call' = [call EXCEPT ![t].target = u] /\ At(t, "slotEnter")
    BY <1>2 DEF ScanStops
  <2>2. \A v \in Trans : call'[v].item = call[v].item /\ call'[v].mode = call[v].mode
    BY <2>1 DEF TypeInv, TypeOK, Call
  <2> QED
    BY <2>1, <2>2 DEF TypeInv, TypeOK, CallInv, LockCall, At
<1> QED
  BY <1>1, <1>2 DEF Scan

\* The conditions under which a lock call moves on: it has an item and a mode.
LEMMA LockCallType ==
  ASSUME TypeInv, NEW t \in Trans, pc[t] \in LockCall
  PROVE  call[t].item \in Items /\ call[t].mode \in LockMode \ {"NONE"}
BY DEF TypeInv, TypeOK, CallInv, Call

LEMMA DroppedItemType ==
  ASSUME TypeInv, NEW t \in Trans, DroppedItem(t)
  PROVE  TypeInv'
BY EndCallType, EndCallInv DEF TypeInv, TypeOK, DroppedItem

LEMMA RefuseType ==
  ASSUME TypeInv, NEW t \in Trans, Refuse(t)
  PROVE  TypeInv'
<1>1. pessimistic' \in [Items -> BOOLEAN]
  BY DEF TypeInv, TypeOK, Refuse
<1> QED
  BY <1>1, EndCallType, EndCallInv DEF TypeInv, TypeOK, Refuse

LEMMA GrantNowType ==
  ASSUME TypeInv, NEW t \in Trans, GrantNow(t)
  PROVE  TypeInv'
<1>1. pc[t] \in LockCall /\ Scan(t, 0)
  BY DEF GrantNow, LockCall
<1>2. call[t].item \in Items /\ call[t].mode \in LockMode
  BY <1>1, LockCallType
<1>3. Conversion(hold[call[t].item][t], call[t].mode) \in LockMode
  BY <1>2, ConversionType DEF TypeInv, TypeOK
<1>4. Conversion(GrantedToOthers(call[t].item, t), Conversion(hold[call[t].item][t], call[t].mode)) \in LockMode
  BY <1>2, <1>3, ConversionType, GrantedToOthersType DEF TypeInv
<1>5. /\ hold'        \in [Items -> [Trans -> LockMode]]
      /\ grantedMode' \in [Items -> LockMode]
      /\ pessimistic' \in [Items -> BOOLEAN]
  BY <1>2, <1>3, <1>4 DEF TypeInv, TypeOK, GrantNow
<1>6. CallInv'
  BY <1>1, ScanCallInv
<1> QED
  BY <1>1, <1>2, <1>5, <1>6, ScanType DEF TypeInv, TypeOK, GrantNow

LEMMA EnqueueType ==
  ASSUME TypeInv, NEW t \in Trans, Enqueue(t)
  PROVE  TypeInv'
<1>1. call[t].item \in Items /\ call[t].mode \in LockMode
  BY LockCallType DEF Enqueue, LockCall
<1>2. /\ req'   \in [Items -> [Trans -> LockMode]]
      /\ ahead' \in [Items -> [Trans -> SUBSET Trans]]
      /\ pessimistic' \in [Items -> BOOLEAN]
  BY <1>1 DEF TypeInv, TypeOK, Enqueue, Requesters
<1>3. edge' \in [Trans -> [Trans -> EdgeValue]]
  BY DEF TypeInv, TypeOK, Enqueue, EdgeValue, Waits
<1>4. CallInv' /\ pc' \in [Trans -> PC]
  BY DEF TypeInv, TypeOK, CallInv, Enqueue, At, LockCall, PC
<1> QED
  BY <1>2, <1>3, <1>4 DEF TypeInv, TypeOK, Enqueue

LEMMA SuspectType ==
  ASSUME TypeInv, NEW t \in Trans, Suspect(t)
  PROVE  TypeInv'
BY DEF TypeInv, TypeOK, CallInv, LockCall, PC, Suspect, At

LEMMA ConfirmType ==
  ASSUME TypeInv, NEW t \in Trans, Confirm(t)
  PROVE  TypeInv'
<1>1. edge' \in [Trans -> [Trans -> EdgeValue]]
  BY ResolveDeadlockType DEF TypeInv, TypeOK, Confirm
<1>2. CallInv' /\ pc' \in [Trans -> PC]
  BY DEF TypeInv, TypeOK, CallInv, Confirm, At, LockCall, PC
<1> QED
  BY <1>1, <1>2 DEF TypeInv, TypeOK, Confirm

LEMMA ExpireType ==
  ASSUME TypeInv, NEW t \in Trans, Expire(t)
  PROVE  TypeInv'
BY DEF TypeInv, TypeOK, CallInv, LockCall, PC, Expire, At

LEMMA WithdrawType ==
  ASSUME TypeInv, NEW t \in Trans, Withdraw(t)
  PROVE  TypeInv'
<1>1. call[t].item \in Items
  BY LockCallType DEF Withdraw, LockCall
<1>2. sem' \in [Trans -> Nat] /\ latch' \in Trans \cup {NoSlot}
  BY DEF TypeInv, TypeOK, Withdraw
<1>3. req' \in [Items -> [Trans -> LockMode]] /\ ahead' \in [Items -> [Trans -> SUBSET Trans]]
  BY <1>1, UnlinkType DEF TypeInv, Withdraw
<1> QED
  BY <1>2, <1>3, EndCallType, EndCallInv DEF TypeInv, TypeOK, Withdraw

LEMMA ResumeType ==
  ASSUME TypeInv, NEW t \in Trans, Resume(t)
  PROVE  TypeInv'
<1>1. sem' \in [Trans -> Nat]
  BY DEF TypeInv, TypeOK, Resume
<1> QED
  BY <1>1 DEF TypeInv, TypeOK, CallInv, LockCall, PC, Resume, At

LEMMA ProceedType ==
  ASSUME TypeInv, NEW t \in Trans, Proceed(t)
  PROVE  TypeInv'
<1>1. CASE EndCall(t) /\ UNCHANGED <<edge, done>>
  BY <1>1, EndCallType, EndCallInv DEF TypeInv, TypeOK, Proceed
<1>2. CASE Scan(t, 0)
  <2>1. pc[t] \in LockCall
    BY DEF Proceed, LockCall
  <2> QED
    BY <1>2, <2>1, LockCallType, ScanType, ScanCallInv DEF TypeInv, TypeOK, Proceed
<1> QED
  BY <1>1, <1>2 DEF Proceed

\* The wait on another slot.

LEMMA SlotEnterType ==
  ASSUME TypeInv, NEW t \in Trans, SlotEnter(t)
  PROVE  TypeInv'
<1> DEFINE c == [call[t] EXCEPT !.gone = FALSE]
<1>1. call[t] \in Call /\ call' = [call EXCEPT ![t] = c]
  BY DEF TypeInv, TypeOK, SlotEnter
<1>2. c \in Call /\ c.item = call[t].item /\ c.mode = call[t].mode
  BY <1>1 DEF Call
<1> HIDE DEF c
<1>3. call' \in [Trans -> Call]
  BY <1>1, <1>2 DEF TypeInv, TypeOK
<1>4. \A u \in Trans : call'[u].item = call[u].item /\ call'[u].mode = call[u].mode
  BY <1>1, <1>2 DEF TypeInv, TypeOK
<1>5. CallInv' /\ pc' \in [Trans -> PC]
  BY <1>4 DEF TypeInv, TypeOK, CallInv, LockCall, PC, SlotEnter, At
<1> QED
  BY <1>3, <1>5 DEF TypeInv, TypeOK, SlotEnter

\* Taking one edge out of the wait table.
LEMMA EdgeOffType ==
  ASSUME NEW E \in [Trans -> [Trans -> EdgeValue]], NEW t \in Trans, NEW u \in Trans
  PROVE  [E EXCEPT ![t][u] = NoEdge] \in [Trans -> [Trans -> EdgeValue]]
BY DEF EdgeValue, NoEdge

LEMMA TargetType ==
  ASSUME TypeInv, NEW t \in Trans
  PROVE  call[t].target \in Trans
BY DEF TypeInv, TypeOK, Call

LEMMA SlotFreedType ==
  ASSUME TypeInv, NEW t \in Trans, SlotFreed(t)
  PROVE  TypeInv'
<1>1. edge' \in [Trans -> [Trans -> EdgeValue]]
  BY EdgeOffType, TargetType DEF TypeInv, TypeOK, SlotFreed
<1>2. CallInv' /\ pc' \in [Trans -> PC]
  BY DEF TypeInv, TypeOK, CallInv, LockCall, PC, SlotFreed, At
<1> QED
  BY <1>1, <1>2 DEF TypeInv, TypeOK, SlotFreed

LEMMA ContinueScanType ==
  ASSUME TypeInv, NEW t \in Trans, ContinueScan(t)
  PROVE  TypeInv'
<1>1. pc[t] \in LockCall /\ Scan(t, call[t].target + 1)
  BY DEF ContinueScan, LockCall
<1> QED
  BY <1>1, LockCallType, ScanType, ScanCallInv DEF TypeInv, TypeOK, ContinueScan

LEMMA SlotConfirmType ==
  ASSUME TypeInv, NEW t \in Trans, SlotConfirm(t)
  PROVE  TypeInv'
<1>1. CASE /\ edge' = [ResolveDeadlock(edge, t) EXCEPT ![t][call[t].target] = NoEdge]
           /\ EndCall(t)
  <2>1. edge' \in [Trans -> [Trans -> EdgeValue]]
    BY <1>1, ResolveDeadlockType, EdgeOffType, TargetType DEF TypeInv
  <2> QED
    BY <1>1, <2>1, EndCallType, EndCallInv DEF TypeInv, TypeOK, SlotConfirm
<1>2. CASE At(t, "slotEnter") /\ UNCHANGED <<edge, call>>
  BY <1>2 DEF TypeInv, TypeOK, CallInv, LockCall, PC, SlotConfirm, At
<1> QED
  BY <1>1, <1>2 DEF SlotConfirm

LEMMA ExpireSlotType ==
  ASSUME TypeInv, NEW t \in Trans, ExpireSlot(t)
  PROVE  TypeInv'
<1>1. edge' \in [Trans -> [Trans -> EdgeValue]]
  BY EdgeOffType, TargetType DEF TypeInv, TypeOK, ExpireSlot
<1> QED
  BY <1>1, EndCallType, EndCallInv DEF TypeInv, TypeOK, ExpireSlot

\* The wait for a row.

LEMMA RowConflictType ==
  ASSUME TypeInv, NEW t \in Trans, NEW u \in Trans, RowConflict(t, u)
  PROVE  TypeInv'
<1>1. [NoCall EXCEPT !.target = u] \in Call
  BY NoCallType DEF Call
<1>2. call' \in [Trans -> Call]
  BY <1>1 DEF TypeInv, TypeOK, RowConflict
<1>3. \A v \in Trans \ {t} : call'[v] = call[v]
  BY DEF TypeInv, TypeOK, RowConflict
<1>4. CallInv' /\ pc' \in [Trans -> PC] /\ calls' \in [Trans -> Nat]
  BY <1>3 DEF TypeInv, TypeOK, CallInv, LockCall, PC, RowConflict, At
<1> QED
  BY <1>2, <1>4 DEF TypeInv, TypeOK, RowConflict

LEMMA RowEnterType ==
  ASSUME TypeInv, NEW t \in Trans, RowEnter(t)
  PROVE  TypeInv'
<1>1. edge' \in [Trans -> [Trans -> EdgeValue]]
  BY TargetType DEF TypeInv, TypeOK, RowEnter, EdgeValue, Waits
<1>2. CallInv' /\ pc' \in [Trans -> PC]
  BY DEF TypeInv, TypeOK, CallInv, LockCall, PC, RowEnter, At
<1> QED
  BY <1>1, <1>2 DEF TypeInv, TypeOK, RowEnter

LEMMA LeaveRowType ==
  ASSUME TypeInv, NEW t \in Trans, LeaveRow(t)
  PROVE  TypeInv'
<1>1. edge' \in [Trans -> [Trans -> EdgeValue]]
  BY EdgeOffType, TargetType DEF TypeInv, TypeOK, LeaveRow
<1> QED
  BY <1>1, EndCallType, EndCallInv DEF TypeInv, TypeOK, LeaveRow

LEMMA RowConfirmType ==
  ASSUME TypeInv, NEW t \in Trans, RowConfirm(t)
  PROVE  TypeInv'
<1>1. CASE /\ edge' = [ResolveDeadlock(edge, t) EXCEPT ![t][call[t].target] = NoEdge]
           /\ EndCall(t)
  <2>1. edge' \in [Trans -> [Trans -> EdgeValue]]
    BY <1>1, ResolveDeadlockType, EdgeOffType, TargetType DEF TypeInv
  <2> QED
    BY <1>1, <2>1, EndCallType, EndCallInv DEF TypeInv, TypeOK, RowConfirm
<1>2. CASE At(t, "rowPoll") /\ UNCHANGED <<edge, call>>
  BY <1>2 DEF TypeInv, TypeOK, CallInv, LockCall, PC, RowConfirm, At
<1> QED
  BY <1>1, <1>2 DEF RowConfirm

\* The variables that a release of a node changes.

ReleaseTypes ==
  /\ hold  \in [Items -> [Trans -> LockMode]]
  /\ done  \in [Items -> [Trans -> LockMode]]
  /\ edge  \in [Trans -> [Trans -> EdgeValue]]
  /\ req   \in [Items -> [Trans -> LockMode]]
  /\ ahead \in [Items -> [Trans -> SUBSET Trans]]
  /\ sem   \in [Trans -> Nat]
  /\ grantedMode \in [Items -> LockMode]
  /\ pessimistic \in [Items -> BOOLEAN]

LEMMA ReleaseDroppedType ==
  ASSUME TypeInv, NEW t \in Trans, NEW i \in Items, ReleaseDropped(t, i)
  PROVE  ReleaseTypes'
<1>1. Requesters(i) \in SUBSET Trans
  BY DEF Requesters
<1>2. /\ hold' \in [Items -> [Trans -> LockMode]]
      /\ done' \in [Items -> [Trans -> LockMode]]
      /\ grantedMode' \in [Items -> LockMode]
      /\ pessimistic' \in [Items -> BOOLEAN]
  BY DEF TypeInv, TypeOK, ReleaseDropped, DropNode, LockMode
<1> QED
  BY <1>1, <1>2, EdgesWithoutType, UnlinkType, SignalType DEF TypeInv, ReleaseDropped, ReleaseTypes

LEMMA ReleaseToQueueType ==
  ASSUME TypeInv, NEW t \in Trans, NEW i \in Items, ReleaseToQueue(t, i)
  PROVE  ReleaseTypes'
<1>1. PICK G \in SUBSET Requesters(i) :
        /\ hold' = [hold EXCEPT ![i] = [r \in Trans |-> IF r \in G THEN req[i][r] ELSE "NONE"]]
        /\ edge' = [r \in Trans |->
                      [u \in Trans |->
                         IF r \in Requesters(i) \ G /\ u \in G \cap ahead[i][r] THEN Waits
                         ELSE EdgesWithout(i, t)[r][u]]]
        /\ Unlink(i, G) /\ Signal(G)
        /\ grantedMode' = [grantedMode EXCEPT ![i] = Join({req[i][g] : g \in G})]
        /\ pessimistic' = [pessimistic EXCEPT ![i] = G # {}]
  BY DEF ReleaseToQueue
<1>2. G \in SUBSET Trans
  BY DEF Requesters
<1>3. hold' \in [Items -> [Trans -> LockMode]] /\ pessimistic' \in [Items -> BOOLEAN]
  BY <1>1, <1>2 DEF TypeInv, TypeOK, LockMode
<1>4. grantedMode' \in [Items -> LockMode]
  <2>1. {req[i][g] : g \in G} \in SUBSET LockMode
    BY <1>2 DEF TypeInv, TypeOK
  <2> QED
    BY <1>1, <2>1, JoinType DEF TypeInv, TypeOK
<1>5. edge' \in [Trans -> [Trans -> EdgeValue]]
  <2>1. EdgesWithout(i, t) \in [Trans -> [Trans -> EdgeValue]]
    BY EdgesWithoutType DEF TypeInv
  <2>2. Waits \in EdgeValue
    BY DEF Waits, EdgeValue
  <2> QED
    BY <1>1, <2>1, <2>2
<1>6. done' \in [Items -> [Trans -> LockMode]]
  BY DEF TypeInv, TypeOK, ReleaseToQueue, DropNode, LockMode
<1> QED
  BY <1>1, <1>2, <1>3, <1>4, <1>5, <1>6, UnlinkType, SignalType DEF TypeInv, ReleaseTypes

LEMMA ReleaseToUpgradeType ==
  ASSUME TypeInv, NEW t \in Trans, NEW i \in Items, ReleaseToUpgrade(t, i)
  PROVE  ReleaseTypes'
<1>1. PICK h \in Requesters(i) :
        /\ hold' = [hold EXCEPT ![i][t] = "NONE", ![i][h] = Conversion(req[i][h], hold[i][h])]
        /\ grantedMode' = [grantedMode EXCEPT ![i] = Conversion(req[i][h], hold[i][h])]
        /\ Unlink(i, {h}) /\ Signal({h})
  BY DEF ReleaseToUpgrade
<1>2. h \in Trans /\ {h} \in SUBSET Trans
  BY DEF Requesters
<1>3. Conversion(req[i][h], hold[i][h]) \in LockMode
  BY <1>2, ConversionType DEF TypeInv, TypeOK
<1>4. hold' \in [Items -> [Trans -> LockMode]] /\ grantedMode' \in [Items -> LockMode]
  BY <1>1, <1>2, <1>3 DEF TypeInv, TypeOK, LockMode
<1>5. done' \in [Items -> [Trans -> LockMode]] /\ pessimistic' \in [Items -> BOOLEAN]
  BY DEF TypeInv, TypeOK, ReleaseToUpgrade, DropNode, LockMode
<1>6. edge' \in [Trans -> [Trans -> EdgeValue]]
  BY EdgesWithoutType DEF TypeInv, ReleaseToUpgrade
<1> QED
  BY <1>1, <1>2, <1>4, <1>5, <1>6, UnlinkType, SignalType DEF TypeInv, ReleaseTypes

LEMMA ReleaseToHoldersType ==
  ASSUME TypeInv, NEW t \in Trans, NEW i \in Items, ReleaseToHolders(t, i)
  PROVE  ReleaseTypes'
<1>1. {hold[i][u] : u \in Holders(i) \ {t}} \in SUBSET LockMode
  BY DEF TypeInv, TypeOK, Holders
<1>2. grantedMode' \in [Items -> LockMode]
  BY <1>1, JoinType DEF TypeInv, TypeOK, ReleaseToHolders
<1>3. hold' \in [Items -> [Trans -> LockMode]] /\ done' \in [Items -> [Trans -> LockMode]]
  BY DEF TypeInv, TypeOK, ReleaseToHolders, DropNode, LockMode
<1>4. edge' \in [Trans -> [Trans -> EdgeValue]]
  BY EdgesWithoutType DEF TypeInv, ReleaseToHolders
<1> QED
  BY <1>2, <1>3, <1>4 DEF TypeInv, TypeOK, ReleaseToHolders, ReleaseTypes

LEMMA ReleaseNodeType ==
  ASSUME TypeInv, NEW t \in Trans, NEW i \in Items, ReleaseNode(t, i)
  PROVE  ReleaseTypes'
BY ReleaseDroppedType, ReleaseToQueueType, ReleaseToUpgradeType, ReleaseToHoldersType DEF ReleaseNode

\* The end of a transaction.

LEMMA EndTransType ==
  ASSUME TypeInv, NEW t \in Trans, EndTrans(t) \/ StartUnlock(t) \/ RollbackToSavepoint(t) \/ UndoDone(t)
  PROVE  TypeInv'
BY DEF TypeInv, TypeOK, CallInv, LockCall, PC, EndTrans, StartUnlock, RollbackToSavepoint, UndoDone, At

LEMMA MarkFreeType ==
  ASSUME TypeInv, NEW t \in Trans, NEW i \in Relations, MarkFree(t, i)
  PROVE  TypeInv'
<1>1. beFree' \in SUBSET Relations /\ drops' \in [Trans -> SUBSET Relations]
  BY DEF TypeInv, TypeOK, MarkFree
<1> QED
  BY <1>1 DEF TypeInv, TypeOK, CallInv, MarkFree

LEMMA UnlockHeldType ==
  ASSUME TypeInv, NEW t \in Trans, NEW i \in Items, UnlockHeld(t, i) \/ UndoNode(t, i)
  PROVE  TypeInv'
<1>1. ReleaseNode(t, i)
  BY DEF UnlockHeld, UndoNode
<1>2. ReleaseTypes'
  BY <1>1, ReleaseNodeType
<1>3. UNCHANGED <<tranVars, beFree, intent, latch, pc, call>>
  BY DEF UnlockHeld, UndoNode
<1> QED
  BY <1>2, <1>3 DEF TypeInv, TypeOK, CallInv, ReleaseTypes

LEMMA ResetWaitSlotType ==
  ASSUME TypeInv, NEW t \in Trans, ResetWaitSlot(t)
  PROVE  TypeInv'
<1>1. edge' \in [Trans -> [Trans -> EdgeValue]]
  BY DEF TypeInv, TypeOK, ResetWaitSlot, EdgeValue, NoEdge
<1> QED
  BY <1>1 DEF TypeInv, TypeOK, CallInv, LockCall, PC, ResetWaitSlot, At

LEMMA ClearIntentType ==
  ASSUME TypeInv, NEW t \in Trans, NEW i \in Items, ClearIntent(t, i) \/ UndoIntent(t, i)
  PROVE  TypeInv'
<1>1. intent' = [intent EXCEPT ![i][t] = "NONE"] /\ "NONE" \in IntentMode
  BY DEF ClearIntent, UndoIntent, IntentMode
<1>2. intent' \in [Items -> [Trans -> IntentMode]]
  BY <1>1 DEF TypeInv, TypeOK
<1> QED
  BY <1>2 DEF TypeInv, TypeOK, CallInv, ClearIntent, UndoIntent

LEMMA FreeTransType ==
  ASSUME TypeInv, NEW t \in Trans, FreeTrans(t)
  PROVE  TypeInv'
<1>1. ASSUME NEW u \in Trans
      PROVE  /\ [call[u] EXCEPT !.gone = TRUE] \in Call
             /\ [call[u] EXCEPT !.gone = TRUE].item = call[u].item
             /\ [call[u] EXCEPT !.gone = TRUE].mode = call[u].mode
  <2>1. call[u] \in Call
    BY DEF TypeInv, TypeOK
  <2> QED
    BY <2>1 DEF Call
<1>2. call \in [Trans -> Call]
  BY DEF TypeInv, TypeOK
<1>3. \A u \in Trans : call'[u] \in {call[u], [call[u] EXCEPT !.gone = TRUE]}
  BY DEF FreeTrans
<1>4. call' \in [Trans -> Call]
  BY <1>1, <1>2, <1>3 DEF FreeTrans
<1>5. \A u \in Trans : call'[u].item = call[u].item /\ call'[u].mode = call[u].mode
  BY <1>1, <1>3
<1>6. CallInv' /\ pc' \in [Trans -> PC]
  BY <1>5 DEF TypeInv, TypeOK, CallInv, LockCall, PC, FreeTrans, At
<1>7. calls' \in [Trans -> Nat] /\ drops' \in [Trans -> SUBSET Relations]
  BY DEF TypeInv, TypeOK, FreeTrans
<1>8. mark' \in [Trans -> [nodes : SUBSET Items, intents : SUBSET Items]]
  BY DEF TypeInv, TypeOK, FreeTrans, NoMark
<1> QED
  BY <1>4, <1>6, <1>7, <1>8 DEF TypeInv, TypeOK, FreeTrans

LEMMA SavepointType ==
  ASSUME TypeInv, NEW t \in Trans, Savepoint(t)
  PROVE  TypeInv'
BY DEF TypeInv, TypeOK, CallInv, Savepoint

LEMMA UnlockRecordType ==
  ASSUME TypeInv, NEW t \in Trans, NEW i \in Items, UnlockRecord(t, i)
  PROVE  TypeInv'
<1>1. ReleaseTypes'
  BY ReleaseNodeType DEF UnlockRecord
<1> DEFINE k == [mark[t] EXCEPT !.nodes = mark[t].nodes \ {i}]
<1>2. mark' = [mark EXCEPT ![t] = k]
  BY DEF UnlockRecord
<1>3. k \in [nodes : SUBSET Items, intents : SUBSET Items]
  <2>1. mark[t] \in [nodes : SUBSET Items, intents : SUBSET Items]
    BY DEF TypeInv, TypeOK
  <2> QED
    BY <2>1
<1> HIDE DEF k
<1>4. mark' \in [Trans -> [nodes : SUBSET Items, intents : SUBSET Items]]
  BY <1>2, <1>3 DEF TypeInv, TypeOK
<1> QED
  BY <1>1, <1>4 DEF TypeInv, TypeOK, CallInv, ReleaseTypes, UnlockRecord

LEMMA AgeLockItemType ==
  ASSUME TypeInv, NEW i \in Relations, AgeLockItem(i)
  PROVE  TypeInv'
BY DEF TypeInv, TypeOK, CallInv, AgeLockItem

LEMMA NextTypeInv == TypeInv /\ [Next]_vars => TypeInv'
<1> SUFFICES ASSUME TypeInv, [Next]_vars PROVE TypeInv'
  OBVIOUS
<1>1. ASSUME NEW t \in Trans, Request(t) PROVE TypeInv'
  <2>1. RelationModes \subseteq LockMode \ {"NONE"} /\ RecordModes \subseteq LockMode \ {"NONE"}
    BY LockManagerAssumption DEF LockMode
  <2> QED
    BY <1>1, <2>1, LockOptimisticType, EnterPessimisticType, RowConflictType DEF Request, Items
<1>2. ASSUME NEW t \in Trans, Wait(t) PROVE TypeInv'
  BY <1>2, DroppedItemType, RefuseType, GrantNowType, EnqueueType, SuspectType, ConfirmType,
     ExpireType, WithdrawType, ResumeType, ProceedType, SlotEnterType, SlotFreedType,
     ContinueScanType, SlotConfirmType, ExpireSlotType, RowEnterType, LeaveRowType, RowConfirmType
  DEF Wait, RowDone, RowExpire
<1>3. ASSUME NEW t \in Trans, Finish(t) PROVE TypeInv'
  BY <1>3, EndTransType, ResetWaitSlotType, FreeTransType, UnlockHeldType, ClearIntentType DEF Finish
<1>4. ASSUME NEW t \in Trans, Undo(t) PROVE TypeInv'
  BY <1>4, SavepointType, EndTransType, UnlockHeldType, ClearIntentType, UnlockRecordType DEF Undo
<1>5. CASE UNCHANGED vars
  BY <1>5 DEF TypeInv, TypeOK, CallInv, vars
<1> QED
  BY <1>1, <1>2, <1>3, <1>4, <1>5, BeginType, MarkFreeType, AgeLockItemType DEF Next

\* Every variable keeps its type: an item's lists, arrays and modes, the wait
\* table, and the locals of every call.
THEOREM TypeCorrect == Spec => []TypeOK
<1>1. Init => TypeInv
  BY InitTypeOK DEF TypeInv, CallInv, Init, LockCall
<1> QED
  BY <1>1, NextTypeInv, PTL DEF Spec, TypeInv
=============================================================================
