---------------------------- MODULE LockManager ----------------------------
(***************************************************************************)
(* The local lock manager of the storage manager (smk/smkl) together with  *)
(* the waiting half of the transaction manager (smxlSuspend,               *)
(* smxlSuspendOnTransSlot, smxlFreeTrans).                                 *)
(*                                                                         *)
(* A lock item is a relation or a record.  It has a list of granted nodes  *)
(* (mHoldList), a first-come list of waiting nodes (mRequestList) and the  *)
(* representative mode of the granted ones (mGrantedMode).  A relation has *)
(* in addition one byte per transaction slot, mIntentHoldArray, in which a *)
(* transaction records an IS or IX lock without touching the lists; that   *)
(* optimistic path is open only while mIsPessimistic is off.               *)
(*                                                                         *)
(* Everything the code does between taking the latches of an item and      *)
(* releasing them is one action; every latch-free stretch in between is a  *)
(* point where other transactions may run.  A node list of a transaction   *)
(* is represented by the items it has a node on, a request list by the     *)
(* requests and, for each, the ones in front of it.                        *)
(***************************************************************************)
EXTENDS Naturals, FiniteSets, LockModes, WaitGraph

CONSTANTS
  TransCount,      \* size of the transaction (and lock slot) table
  Relations,       \* lock items with an intention array
  Records,         \* lock items in the record hash table
  NoItem,          \* stands for "no lock item"
  RelationModes,   \* modes clients ask on relations
  RecordModes,     \* modes clients ask on records
  MaxCalls,        \* bound: lock calls and row waits of a transaction of each slot
  Impatient,       \* slots whose transactions may ask with NOWAIT
  Timed,           \* slots whose waits may run into their timeout
  Savepointers,    \* slots whose transactions set and use savepoints
  RowWaiters,      \* slots whose transactions meet rows others have locked
  Droppers         \* slots whose transactions may drop a relation

Trans == 0 .. (TransCount - 1)
Items == Relations \cup Records

ASSUME LockManagerAssumption ==
  /\ TransCount \in Nat \ {0}
  /\ MaxCalls \in [Trans -> Nat]
  /\ Relations \cap Records = {}
  /\ NoItem \notin Items
  /\ RelationModes \subseteq LockMode \ {"NONE"}
  /\ RecordModes \subseteq {"S", "X"}
  /\ UNION {Impatient, Timed, Savepointers, RowWaiters, Droppers} \subseteq Trans

VARIABLES
  hold,         \* hold[i][t]: mode of t's node in i's hold list, NONE for no node
  req,          \* req[i][t]: mode of t's node in i's request list
  ahead,        \* ahead[i][t]: the transactions in front of t in that list
  grantedMode,  \* mGrantedMode
  pessimistic,  \* mIsPessimistic
  beFree,       \* relations whose mBeFree is set
  intent,       \* mIntentHoldArray
  edge,         \* the wait table
  latch,        \* holder of gSmklDeadlockLatch
  sem,          \* wake-ups sent to a transaction's session and not consumed
  pc,           \* where each transaction is
  call,         \* the arguments and locals of its current call
  calls,        \* calls it has made, against MaxCalls
  mark,         \* the nodes and intents present at its last savepoint
  drops,        \* relations it has dropped and not yet let the ager reclaim
  done          \* history: the join of the modes t's completed calls on i asked

listVars == <<req, ahead, sem>>
lockVars == <<hold, grantedMode, pessimistic, done>>
tranVars == <<calls, mark, drops>>
vars == <<hold, req, ahead, grantedMode, pessimistic, beFree, intent, edge, latch,
          sem, pc, call, calls, mark, drops, done>>

NoSlot == TransCount
NoCall == [item |-> NoItem, mode |-> "NONE", nowait |-> FALSE, target |-> 0, gone |-> FALSE]
NoMark == [nodes |-> {}, intents |-> {}]

PC == {"idle", "active",
       "escalate", "blocked", "suspect", "victim", "expired", "resumed",
       "slotEnter", "slotWait", "slotSuspect", "slotDone",
       "rowWait", "rowPoll", "rowSuspect",
       "partial", "committed", "unlock", "intents"}

\* States in which smxlTrans.mState is IDLE, COMMIT or ROLLBACK.
Ended == {"idle", "committed", "unlock", "intents"}

\* The states of a call of smklLock or smklLockRecord.
LockCall == {"escalate", "blocked", "suspect", "victim", "expired", "resumed",
             "slotEnter", "slotWait", "slotSuspect", "slotDone"}

SlotPolling == {"slotWait", "slotSuspect"}
RowPolling  == {"rowWait", "rowPoll", "rowSuspect"}

\* The wait table has no slot for request groups: all sessions are dedicated.
NoGroups == [g \in {} |-> 0]

Deadlocked(t) == CheckDeadlock(edge, NoGroups, t)

\* The arguments of a call, and what it keeps while it waits: the slot it waits
\* for and whether that slot was reused.
Call == [item : Items \cup {NoItem}, mode : LockMode,
         nowait : BOOLEAN, target : Trans, gone : BOOLEAN]

TypeOK ==
  /\ hold        \in [Items -> [Trans -> LockMode]]
  /\ req         \in [Items -> [Trans -> LockMode]]
  /\ ahead       \in [Items -> [Trans -> SUBSET Trans]]
  /\ grantedMode \in [Items -> LockMode]
  /\ pessimistic \in [Items -> BOOLEAN]
  /\ beFree      \in SUBSET Relations
  /\ intent      \in [Items -> [Trans -> IntentMode]]
  /\ edge        \in [Trans -> [Trans -> EdgeValue]]
  /\ latch       \in Trans \cup {NoSlot}
  /\ sem         \in [Trans -> Nat]
  /\ pc          \in [Trans -> PC]
  /\ call        \in [Trans -> Call]
  /\ calls       \in [Trans -> Nat]
  /\ mark        \in [Trans -> [nodes : SUBSET Items, intents : SUBSET Items]]
  /\ drops       \in [Trans -> SUBSET Relations]
  /\ done        \in [Items -> [Trans -> LockMode]]

Init ==
  /\ hold        = [i \in Items |-> [t \in Trans |-> "NONE"]]
  /\ req         = [i \in Items |-> [t \in Trans |-> "NONE"]]
  /\ ahead       = [i \in Items |-> [t \in Trans |-> {}]]
  /\ grantedMode = [i \in Items |-> "NONE"]
  /\ pessimistic = [i \in Items |-> FALSE]
  /\ beFree      = {}
  /\ intent      = [i \in Items |-> [t \in Trans |-> "NONE"]]
  /\ edge        = [s \in Trans |-> [t \in Trans |-> NoEdge]]
  /\ latch       = NoSlot
  /\ sem         = [t \in Trans |-> 0]
  /\ pc          = [t \in Trans |-> "idle"]
  /\ call        = [t \in Trans |-> NoCall]
  /\ calls       = [t \in Trans |-> 0]
  /\ mark        = [t \in Trans |-> NoMark]
  /\ drops       = [t \in Trans |-> {}]
  /\ done        = [i \in Items |-> [t \in Trans |-> "NONE"]]

Holders(i)    == {t \in Trans : hold[i][t] # "NONE"}
Requesters(i) == {t \in Trans : req[i][t] # "NONE"}

-----------------------------------------------------------------------------
(* What the mode decisions read.                                           *)

\* The representative mode as it is, the holder's own share included.
GrantedToAll(i, t) == grantedMode[i]

\* smklCheckLockConflict, smklAddLockNode and smklAddNewLockNode: the mode a
\* new lock of t must be compatible with.  A holder leaves itself out.
GrantedToOthers(i, t) ==
  IF t \in Holders(i) THEN Join({hold[i][u] : u \in Holders(i) \ {t}})
  ELSE grantedMode[i]

Grantable(t) == Compatible(GrantedToOthers(call[t].item, t), call[t].mode)

\* The slots, from a given one on, whose optimistic lock t cannot share.
Blockers(t, from) ==
  {u \in Trans \ {t} : /\ u >= from
                       /\ ~Compatible(intent[call[t].item][u], call[t].mode)}

\* One call after the other: t is back in its client's hands.
EndCall(t) ==
  /\ pc'   = [pc   EXCEPT ![t] = "active"]
  /\ call' = [call EXCEPT ![t] = NoCall]

At(t, label) == pc' = [pc EXCEPT ![t] = label]

-----------------------------------------------------------------------------
(* smklLock, first half: the optimistic lock, under t's own item latch.     *)

Begin(t) ==
  /\ pc[t] = "idle"
  /\ At(t, "active")
  /\ UNCHANGED <<listVars, lockVars, tranVars, beFree, intent, edge, latch, call>>

LockOptimistic(t, i, m) ==
  /\ pc[t] = "active" /\ calls[t] < MaxCalls[t]
  /\ i \notin beFree
  /\ ~pessimistic[i]
  /\ m \in {"IS", "IX"}
  /\ intent' = [intent EXCEPT ![i][t] = Conversion(@, m)]
  /\ calls'  = [calls EXCEPT ![t] = @ + 1]
  /\ UNCHANGED <<listVars, lockVars, beFree, edge, latch, pc, call, mark, drops>>

\* The optimistic path is shut, or the item is a record: t drops its latch and
\* goes for all of them.
EnterPessimistic(t, i, m, nowait) ==
  /\ pc[t] = "active" /\ calls[t] < MaxCalls[t]
  /\ i \notin beFree
  /\ i \in Relations => pessimistic[i] \/ m \notin {"IS", "IX"}
  /\ nowait => t \in Impatient
  /\ At(t, "escalate")
  /\ call'  = [call EXCEPT ![t] = [item |-> i, mode |-> m, nowait |-> nowait,
                               target |-> 0, gone |-> FALSE]]
  /\ calls' = [calls EXCEPT ![t] = @ + 1]
  /\ UNCHANGED <<listVars, lockVars, beFree, intent, edge, latch, mark, drops>>

-----------------------------------------------------------------------------
(* The scan of the intention array, with all latches of the item held.      *)

\* No slot from `from` on is in the way: the call has its lock.
ScanPasses(t, from) ==
  /\ Blockers(t, from) = {}
  /\ done' = [done EXCEPT ![call[t].item][t] = Conversion(@, call[t].mode)]
  /\ EndCall(t)
  /\ UNCHANGED edge

\* The first such slot is waited for, with the latches released.
ScanStops(t, from) ==
  \E u \in Blockers(t, from) :
    /\ \A v \in Blockers(t, from) : u <= v
    /\ edge' = [edge EXCEPT ![t][u] = Waits]
    /\ call' = [call EXCEPT ![t].target = u]
    /\ At(t, "slotEnter")
    /\ UNCHANGED done

\* A scan that starts after t's own slot.
ScanAfterOwn(t, from) ==
  LET start == IF from > t THEN from ELSE t IN ScanPasses(t, start) \/ ScanStops(t, start)

Scan(t, from) == ScanPasses(t, from) \/ ScanStops(t, from)

-----------------------------------------------------------------------------
(* smklLockPessimistic, with all latches of the item held.                  *)

\* The relation was dropped before t had the latches: no lock, no error.
DroppedItem(t) ==
  /\ pc[t] = "escalate"
  /\ call[t].item \in beFree
  /\ EndCall(t)
  /\ UNCHANGED <<listVars, lockVars, tranVars, beFree, intent, edge, latch>>

\* NOWAIT and a conflict: an error, but the item has become pessimistic.
Refuse(t) ==
  /\ pc[t] = "escalate"
  /\ call[t].item \notin beFree
  /\ call[t].nowait /\ ~Grantable(t)
  /\ pessimistic' = [pessimistic EXCEPT ![call[t].item] = TRUE]
  /\ EndCall(t)
  /\ UNCHANGED <<listVars, tranVars, hold, grantedMode, done, beFree, intent, edge, latch>>

\* A grant that forgets to shut the optimistic path.
GrantNowStayOptimistic(t) ==
  LET i == call[t].item
  IN  /\ pc[t] = "escalate" /\ i \notin beFree /\ Grantable(t)
      /\ hold' = [hold EXCEPT ![i][t] = Conversion(@, call[t].mode)]
      /\ grantedMode' = [grantedMode EXCEPT ![i] =
                           Conversion(GrantedToOthers(i, t), Conversion(hold[i][t], call[t].mode))]
      /\ Scan(t, 0)
      /\ UNCHANGED <<listVars, tranVars, pessimistic, beFree, intent, latch>>

\* Compatible with what the others hold: requests that wait are passed by.
GrantNow(t) ==
  LET i == call[t].item
      mode == Conversion(hold[i][t], call[t].mode)
  IN  /\ pc[t] = "escalate"
      /\ i \notin beFree
      /\ Grantable(t)
      /\ hold' = [hold EXCEPT ![i][t] = mode]
      /\ grantedMode' = [grantedMode EXCEPT ![i] = Conversion(GrantedToOthers(i, t), mode)]
      /\ pessimistic' = [pessimistic EXCEPT ![i] = TRUE]
      /\ Scan(t, 0)
      /\ UNCHANGED <<listVars, tranVars, beFree, intent, latch>>

\* An enqueue that leaves the wait table alone.
EnqueueNoEdge(t) ==
  LET i == call[t].item
  IN  /\ pc[t] = "escalate" /\ i \notin beFree /\ ~call[t].nowait /\ ~Grantable(t)
      /\ req'   = [req EXCEPT ![i][t] = call[t].mode]
      /\ ahead' = [ahead EXCEPT ![i][t] = Requesters(i)]
      /\ pessimistic' = [pessimistic EXCEPT ![i] = TRUE]
      /\ At(t, "blocked")
      /\ UNCHANGED <<hold, grantedMode, done, tranVars, beFree, intent, edge, latch, sem, call>>

\* A conflict: t queues and its slot waits for everyone who holds the item.
Enqueue(t) ==
  LET i == call[t].item
  IN  /\ pc[t] = "escalate"
      /\ i \notin beFree
      /\ ~call[t].nowait /\ ~Grantable(t)
      /\ req'   = [req EXCEPT ![i][t] = call[t].mode]
      /\ ahead' = [ahead EXCEPT ![i][t] = Requesters(i)]
      /\ edge'  = [edge EXCEPT ![t] =
                     [u \in Trans |-> IF u \in Holders(i) \ {t} THEN Waits ELSE edge[t][u]]]
      /\ pessimistic' = [pessimistic EXCEPT ![i] = TRUE]
      /\ At(t, "blocked")
      /\ UNCHANGED <<hold, grantedMode, done, tranVars, beFree, intent, latch, sem, call>>

-----------------------------------------------------------------------------
(* smxlSuspend, and what smklLockPessimistic makes of its result.           *)

\* The requests of R leave the list of i, with the places they had in it.
Unlink(i, R) ==
  /\ req'   = [req   EXCEPT ![i] = [r \in Trans |-> IF r \in R THEN "NONE" ELSE @[r]]]
  /\ ahead' = [ahead EXCEPT ![i] = [r \in Trans |-> IF r \in R THEN {} ELSE @[r] \ R]]

\* The check at the start of the wait, or after SMKL_DEADLOCK_CHECK_INTERVAL,
\* made without any latch.
Suspect(t) ==
  /\ pc[t] \in {"blocked", "slotWait", "rowPoll"}
  /\ Deadlocked(t)
  /\ At(t, CASE pc[t] = "blocked"  -> "suspect"
             [] pc[t] = "slotWait" -> "slotSuspect"
             [] pc[t] = "rowPoll"  -> "rowSuspect")
  /\ UNCHANGED <<listVars, lockVars, tranVars, beFree, intent, edge, latch, call>>

\* A confirmation that trusts the first check.
ConfirmUnchecked(t) ==
  /\ pc[t] = "suspect" /\ latch = NoSlot
  /\ edge' = ResolveDeadlock(edge, t) /\ latch' = t /\ At(t, "victim")
  /\ UNCHANGED <<listVars, lockVars, tranVars, beFree, intent, call>>

\* The second check, under the deadlock latch.  A victim keeps the latch until
\* its request is gone.
Confirm(t) ==
  /\ pc[t] = "suspect" /\ latch = NoSlot
  /\ \/ /\ Deadlocked(t)
        /\ edge'  = ResolveDeadlock(edge, t)
        /\ latch' = t
        /\ At(t, "victim")
     \/ /\ ~Deadlocked(t)
        /\ At(t, "blocked")
        /\ UNCHANGED <<edge, latch>>
  /\ UNCHANGED <<listVars, lockVars, tranVars, beFree, intent, call>>

\* The lock timeout, a query timeout or the end of the session.
Expire(t) ==
  /\ pc[t] = "blocked" /\ t \in Timed
  /\ At(t, "expired")
  /\ UNCHANGED <<listVars, lockVars, tranVars, beFree, intent, edge, latch, call>>

\* A withdrawal that leaves a wake-up it may have got in the semaphore.
WithdrawKeepSignal(t) ==
  /\ pc[t] \in {"victim", "expired"}
  /\ Unlink(call[t].item, {t})
  /\ latch' = IF pc[t] = "victim" THEN NoSlot ELSE latch
  /\ EndCall(t)
  /\ UNCHANGED <<lockVars, tranVars, beFree, intent, edge, sem>>

\* A withdrawal that forgets the deadlock latch.
WithdrawKeepLatch(t) ==
  /\ pc[t] \in {"victim", "expired"}
  /\ Unlink(call[t].item, {t})
  /\ sem' = [sem EXCEPT ![t] = 0]
  /\ EndCall(t)
  /\ UNCHANGED <<lockVars, tranVars, beFree, intent, edge, latch>>

\* A failed wait unlinks its request, if it is still there, drops a wake-up
\* that came meanwhile and reports the error.  t may hold the lock by now.
Withdraw(t) ==
  /\ pc[t] \in {"victim", "expired"}
  /\ Unlink(call[t].item, {t})
  /\ sem'   = [sem EXCEPT ![t] = 0]
  /\ latch' = IF pc[t] = "victim" THEN NoSlot ELSE latch
  /\ EndCall(t)
  /\ UNCHANGED <<lockVars, tranVars, beFree, intent, edge>>

\* knlSuspend consumes a wake-up.
Resume(t) ==
  /\ pc[t] = "blocked" /\ sem[t] > 0
  /\ sem' = [sem EXCEPT ![t] = @ - 1]
  /\ At(t, "resumed")
  /\ UNCHANGED <<req, ahead, lockVars, tranVars, beFree, intent, edge, latch, call>>

\* A waiter that does not look whether the relation was dropped.
ProceedAnyway(t) ==
  /\ pc[t] = "resumed"
  /\ Scan(t, 0)
  /\ UNCHANGED <<listVars, hold, grantedMode, pessimistic, tranVars, beFree, intent, latch>>

\* Back under the latches: the lock is there, unless the relation was dropped.
Proceed(t) ==
  /\ pc[t] = "resumed"
  /\ \/ /\ call[t].item \in beFree
        /\ EndCall(t)
        /\ UNCHANGED <<edge, done>>
     \/ /\ call[t].item \notin beFree
        /\ Scan(t, 0)
  /\ UNCHANGED <<listVars, hold, grantedMode, pessimistic, tranVars, beFree, intent, latch>>

-----------------------------------------------------------------------------
(* smklLock, second half: waiting on another slot, smxlSuspendOnTransSlot.  *)

\* It remembers the target's transaction sequence number, tries for a deadlock
\* and polls.  call.gone is that the number has changed since.
SlotEnter(t) ==
  /\ pc[t] = "slotEnter"
  /\ call' = [call EXCEPT ![t].gone = FALSE]
  /\ At(t, "slotWait")
  /\ UNCHANGED <<listVars, lockVars, tranVars, beFree, intent, edge, latch>>

\* A poll that takes the end of the transaction for the end of its locks.
SlotFreedByState(t) ==
  /\ pc[t] = "slotWait" /\ ~call[t].nowait
  /\ pc[call[t].target] \in Ended
  /\ edge' = [edge EXCEPT ![t][call[t].target] = NoEdge]
  /\ At(t, "slotDone")
  /\ UNCHANGED <<listVars, lockVars, tranVars, beFree, intent, latch, call>>

\* The target's slot was reused or its optimistic lock is gone.
SlotFreed(t) ==
  LET u == call[t].target
  IN  /\ pc[t] = "slotWait" /\ ~call[t].nowait
      /\ call[t].gone \/ intent[call[t].item][u] = "NONE"
      /\ edge' = [edge EXCEPT ![t][u] = NoEdge]
      /\ At(t, "slotDone")
      /\ UNCHANGED <<listVars, lockVars, tranVars, beFree, intent, latch, call>>

\* With the latches taken again the scan goes on behind the target.
ContinueScan(t) ==
  /\ pc[t] = "slotDone"
  /\ Scan(t, call[t].target + 1)
  /\ UNCHANGED <<listVars, hold, grantedMode, pessimistic, tranVars, beFree, intent, latch>>

\* The second check.  A victim gives up the call but keeps its node.
SlotConfirm(t) ==
  /\ pc[t] = "slotSuspect" /\ latch = NoSlot
  /\ \/ /\ Deadlocked(t)
        /\ edge' = [ResolveDeadlock(edge, t) EXCEPT ![t][call[t].target] = NoEdge]
        /\ EndCall(t)
     \/ /\ ~Deadlocked(t)
        /\ At(t, "slotEnter")
        /\ UNCHANGED <<edge, call>>
  /\ UNCHANGED <<listVars, lockVars, tranVars, beFree, intent, latch>>

ExpireSlot(t) ==
  /\ pc[t] = "slotWait"
  /\ t \in Timed \/ call[t].nowait
  /\ edge' = [edge EXCEPT ![t][call[t].target] = NoEdge]
  /\ EndCall(t)
  /\ UNCHANGED <<listVars, lockVars, tranVars, beFree, intent, latch>>

-----------------------------------------------------------------------------
(* smklWaitTransLock: t met a row whose last change is of a transaction u   *)
(* that was active when t looked, and waits for the end of u.               *)

RowConflict(t, u) ==
  /\ pc[t] = "active" /\ calls[t] < MaxCalls[t] /\ t \in RowWaiters
  /\ u # t /\ pc[u] \notin Ended
  /\ call'  = [call EXCEPT ![t] = [NoCall EXCEPT !.target = u]]
  /\ calls' = [calls EXCEPT ![t] = @ + 1]
  /\ At(t, "rowWait")
  /\ UNCHANGED <<listVars, lockVars, beFree, intent, edge, latch, mark, drops>>

RowEnter(t) ==
  /\ pc[t] = "rowWait"
  /\ edge' = [edge EXCEPT ![t][call[t].target] = Waits]
  /\ At(t, "rowPoll")
  /\ UNCHANGED <<listVars, lockVars, tranVars, beFree, intent, latch, call>>

\* The end of every wait for a row, good or bad.
LeaveRow(t) ==
  /\ edge' = [edge EXCEPT ![t][call[t].target] = NoEdge]
  /\ EndCall(t)
  /\ UNCHANGED <<listVars, lockVars, tranVars, beFree, intent, latch>>

RowDone(t) ==
  /\ pc[t] = "rowPoll"
  /\ call[t].gone \/ pc[call[t].target] \in Ended
  /\ LeaveRow(t)

\* The second check.  The victim's other edges are switched off.
RowConfirm(t) ==
  /\ pc[t] = "rowSuspect" /\ latch = NoSlot
  /\ \/ /\ Deadlocked(t)
        /\ edge' = [ResolveDeadlock(edge, t) EXCEPT ![t][call[t].target] = NoEdge]
        /\ EndCall(t)
     \/ /\ ~Deadlocked(t)
        /\ At(t, "rowPoll")
        /\ UNCHANGED <<edge, call>>
  /\ UNCHANGED <<listVars, lockVars, tranVars, beFree, intent, latch>>

RowExpire(t) == pc[t] = "rowPoll" /\ t \in Timed /\ LeaveRow(t)

-----------------------------------------------------------------------------
(* smklUnlockNode, with all latches of the item held.                       *)

\* What every release does: t's node and t's lock are gone, and nobody queued
\* on the item waits for t any more.
DropNode(t, i) ==
  /\ hold[i][t] # "NONE"
  /\ done' = [done EXCEPT ![i][t] = "NONE"]

EdgesWithout(i, t) ==
  [r \in Trans |-> IF r \in Requesters(i) THEN [edge[r] EXCEPT ![t] = NoEdge] ELSE edge[r]]

Signal(R) == sem' = [r \in Trans |-> IF r \in R THEN sem[r] + 1 ELSE sem[r]]

\* The last holder of a dropped relation sends everybody away.
ReleaseDropped(t, i) ==
  /\ DropNode(t, i)
  /\ Holders(i) = {t}
  /\ i \in beFree
  /\ hold' = [hold EXCEPT ![i][t] = "NONE"]
  /\ edge' = EdgesWithout(i, t)
  /\ Unlink(i, Requesters(i)) /\ Signal(Requesters(i))
  /\ grantedMode' = [grantedMode EXCEPT ![i] = "NONE"]
  /\ pessimistic' = [pessimistic EXCEPT ![i] = FALSE]

\* The requests that are granted when each one is compared, first come
\* first served, with the join of those granted before it.
IsBatch(i, G) ==
  \A r \in Requesters(i) :
    r \in G <=> Compatible(Join({req[i][g] : g \in G \cap ahead[i][r]}), req[i][r])

\* The last holder lets the next ones in.  A request left behind waits for the
\* ones granted before its turn came.
ReleaseToQueue(t, i) ==
  /\ DropNode(t, i)
  /\ Holders(i) = {t}
  /\ i \notin beFree
  /\ \E G \in SUBSET Requesters(i) :
       /\ IsBatch(i, G)
       /\ hold' = [hold EXCEPT ![i] = [r \in Trans |-> IF r \in G THEN req[i][r] ELSE "NONE"]]
       /\ edge' = [r \in Trans |->
                     [u \in Trans |->
                        IF r \in Requesters(i) \ G /\ u \in G \cap ahead[i][r] THEN Waits
                        ELSE EdgesWithout(i, t)[r][u]]]
       /\ Unlink(i, G) /\ Signal(G)
       /\ grantedMode' = [grantedMode EXCEPT ![i] = Join({req[i][g] : g \in G})]
       /\ pessimistic' = [pessimistic EXCEPT ![i] = G # {}]

\* A merge that forgets the representative mode.
ReleaseToUpgradeKeepMode(t, i) ==
  /\ DropNode(t, i)
  /\ \E h \in Requesters(i) :
       /\ Holders(i) = {t, h} /\ h # t
       /\ hold' = [hold EXCEPT ![i][t] = "NONE", ![i][h] = Conversion(req[i][h], @)]
       /\ Unlink(i, {h}) /\ Signal({h})
  /\ edge' = EdgesWithout(i, t)
  /\ UNCHANGED <<grantedMode, pessimistic>>

\* One holder is left and has asked for a stronger mode: its request is merged
\* into its node.
ReleaseToUpgrade(t, i) ==
  /\ DropNode(t, i)
  /\ \E h \in Requesters(i) :
       /\ Holders(i) = {t, h} /\ h # t
       /\ LET mode == Conversion(req[i][h], hold[i][h])
          IN  /\ hold' = [hold EXCEPT ![i][t] = "NONE", ![i][h] = mode]
              /\ grantedMode' = [grantedMode EXCEPT ![i] = mode]
       /\ Unlink(i, {h}) /\ Signal({h})
  /\ edge' = EdgesWithout(i, t)
  /\ UNCHANGED pessimistic

\* Other holders are left: nobody gets in, whatever is still held.
ReleaseToHolders(t, i) ==
  /\ DropNode(t, i)
  /\ Holders(i) # {t}
  /\ \A h \in Requesters(i) : Holders(i) # {t, h}
  /\ hold' = [hold EXCEPT ![i][t] = "NONE"]
  /\ edge' = EdgesWithout(i, t)
  /\ grantedMode' = [grantedMode EXCEPT ![i] = Join({hold[i][u] : u \in Holders(i) \ {t}})]
  /\ UNCHANGED <<req, ahead, sem, pessimistic>>

ReleaseNode(t, i) ==
  \/ ReleaseDropped(t, i)   \/ ReleaseToQueue(t, i)
  \/ ReleaseToUpgrade(t, i) \/ ReleaseToHolders(t, i)

-----------------------------------------------------------------------------
(* smxlCommit or smxlRollback, then smxlFreeTrans with smklUnlock.          *)

EndTrans(t) ==
  /\ pc[t] = "active"
  /\ At(t, "committed")
  /\ UNCHANGED <<listVars, lockVars, tranVars, beFree, intent, edge, latch, call>>

\* The pending operation of a DROP, with the relation locked in X by the drop
\* itself.
MarkFree(t, i) ==
  /\ pc[t] = "committed" /\ t \in Droppers
  /\ i \notin beFree /\ done[i][t] = "X"
  /\ beFree' = beFree \cup {i}
  /\ drops'  = [drops EXCEPT ![t] = @ \cup {i}]
  /\ UNCHANGED <<listVars, lockVars, calls, mark, intent, edge, latch, pc, call>>

StartUnlock(t) ==
  /\ pc[t] = "committed"
  /\ At(t, "unlock")
  /\ UNCHANGED <<listVars, lockVars, tranVars, beFree, intent, edge, latch, call>>

UnlockHeld(t, i) ==
  /\ pc[t] = "unlock"
  /\ ReleaseNode(t, i)
  /\ UNCHANGED <<tranVars, beFree, intent, latch, pc, call>>

\* smklResetWaitSlot: nobody waits for t any more.
ResetWaitSlot(t) ==
  /\ pc[t] = "unlock"
  /\ \A i \in Items : hold[i][t] = "NONE"
  /\ edge' = [r \in Trans |-> [edge[r] EXCEPT ![t] = NoEdge]]
  /\ At(t, "intents")
  /\ UNCHANGED <<listVars, lockVars, tranVars, beFree, intent, latch, call>>

\* No latch: the array element is t's own.
ClearIntent(t, i) ==
  /\ pc[t] = "intents" /\ intent[i][t] # "NONE"
  /\ intent' = [intent EXCEPT ![i][t] = "NONE"]
  /\ UNCHANGED <<listVars, lockVars, tranVars, beFree, edge, latch, pc, call>>

\* smklWakeupWaitTrans and SMXL_RESET_TRANS: the slot takes a new transaction
\* sequence number and may be used again.
FreeTrans(t) ==
  /\ pc[t] = "intents"
  /\ \A i \in Items : intent[i][t] = "NONE"
  /\ At(t, "idle")
  /\ call'  = [u \in Trans |->
                 IF call[u].target = t /\ pc[u] \in SlotPolling \cup RowPolling
                 THEN [call[u] EXCEPT !.gone = TRUE] ELSE call[u]]
  /\ calls' = [calls EXCEPT ![t] = 0]
  /\ mark'  = [mark  EXCEPT ![t] = NoMark]
  /\ drops' = [drops EXCEPT ![t] = {}]
  /\ UNCHANGED <<listVars, lockVars, beFree, intent, edge, latch>>

-----------------------------------------------------------------------------
(* Savepoints, records unlocked early, and the ager.                        *)

\* smklSavepoint, for a named savepoint or the start of a statement: the ends
\* of the node list and of the relation list.
Savepoint(t) ==
  /\ pc[t] = "active" /\ t \in Savepointers
  /\ mark' = [mark EXCEPT ![t] = [nodes   |-> {i \in Items : hold[i][t] # "NONE"},
                                  intents |-> {i \in Items : intent[i][t] # "NONE"}]]
  /\ UNCHANGED <<listVars, lockVars, calls, drops, beFree, intent, edge, latch, pc, call>>

\* smklUnlockForSavepoint: first the nodes behind the savepoint, one at a time,
\* then the optimistic locks.
RollbackToSavepoint(t) ==
  /\ pc[t] = "active" /\ t \in Savepointers
  /\ At(t, "partial")
  /\ UNCHANGED <<listVars, lockVars, tranVars, beFree, intent, edge, latch, call>>

NodesToUndo(t)   == {i \in Items \ mark[t].nodes : hold[i][t] # "NONE"}
IntentsToUndo(t) == {i \in Items \ mark[t].intents : intent[i][t] # "NONE"}

UndoNode(t, i) ==
  /\ pc[t] = "partial" /\ i \in NodesToUndo(t)
  /\ ReleaseNode(t, i)
  /\ UNCHANGED <<tranVars, beFree, intent, latch, pc, call>>

UndoIntent(t, i) ==
  /\ pc[t] = "partial" /\ NodesToUndo(t) = {} /\ i \in IntentsToUndo(t)
  /\ intent' = [intent EXCEPT ![i][t] = "NONE"]
  /\ UNCHANGED <<listVars, lockVars, tranVars, beFree, edge, latch, pc, call>>

UndoDone(t) ==
  /\ pc[t] = "partial" /\ NodesToUndo(t) = {} /\ IntentsToUndo(t) = {}
  /\ At(t, "active")
  /\ UNCHANGED <<listVars, lockVars, tranVars, beFree, intent, edge, latch, call>>

\* smklUnlockRecord, of a record that t has locked.
UnlockRecord(t, i) ==
  /\ pc[t] = "active" /\ t \in Savepointers /\ i \in Records
  /\ ReleaseNode(t, i)
  /\ mark' = [mark EXCEPT ![t].nodes = @ \ {i}]
  /\ UNCHANGED <<calls, drops, beFree, intent, latch, pc, call>>

\* An ager that does not wait until the drop has let its lock go.
AgeLockItemEarly(i) ==
  /\ i \in beFree
  /\ \A t \in Trans : call[t].item # i
  /\ beFree' = beFree \ {i}
  /\ UNCHANGED <<listVars, lockVars, tranVars, intent, edge, latch, pc, call>>

\* smklAgingLockHandle, once the drop has been let go and no statement that saw
\* the relation is left.  A relation created later may have the same lock item.
AgeLockItem(i) ==
  /\ i \in beFree
  /\ \A t \in Trans : i \notin drops[t] /\ call[t].item # i
  /\ beFree' = beFree \ {i}
  /\ UNCHANGED <<listVars, lockVars, tranVars, intent, edge, latch, pc, call>>

-----------------------------------------------------------------------------
Request(t) ==
  \/ \E i \in Relations, m \in RelationModes :
       \/ LockOptimistic(t, i, m)
       \/ \E nowait \in BOOLEAN : EnterPessimistic(t, i, m, nowait)
  \/ \E i \in Records, m \in RecordModes, nowait \in BOOLEAN : EnterPessimistic(t, i, m, nowait)
  \/ \E u \in Trans : RowConflict(t, u)

Wait(t) ==
  \/ DroppedItem(t) \/ Refuse(t)  \/ GrantNow(t)  \/ Enqueue(t)
  \/ Suspect(t)     \/ Confirm(t) \/ Expire(t)    \/ Withdraw(t)
  \/ Resume(t)      \/ Proceed(t)
  \/ SlotEnter(t)   \/ SlotFreed(t) \/ ContinueScan(t) \/ SlotConfirm(t) \/ ExpireSlot(t)
  \/ RowEnter(t)    \/ RowDone(t)   \/ RowConfirm(t)   \/ RowExpire(t)

Finish(t) ==
  \/ EndTrans(t) \/ StartUnlock(t) \/ ResetWaitSlot(t) \/ FreeTrans(t)
  \/ \E i \in Items : UnlockHeld(t, i) \/ ClearIntent(t, i)

Undo(t) ==
  \/ Savepoint(t) \/ RollbackToSavepoint(t) \/ UndoDone(t)
  \/ \E i \in Items : UndoNode(t, i) \/ UndoIntent(t, i) \/ UnlockRecord(t, i)

Next ==
  \/ \E t \in Trans : Begin(t) \/ Request(t) \/ Wait(t) \/ Finish(t) \/ Undo(t)
  \/ \E t \in Trans, i \in Relations : MarkFree(t, i)
  \/ \E i \in Relations : AgeLockItem(i)

Spec == Init /\ [][Next]_vars

-----------------------------------------------------------------------------
(* Safety.                                                                  *)

\* What t has been granted on i, by lists and by intention array together.
Granted(i, t) == Conversion(done[i][t], intent[i][t])

\* Two transactions never have conflicting locks on an item, whichever of the
\* two mechanisms each of them came through.
GrantedCompatible ==
  \A i \in Items : \A t, u \in Trans : t # u => Compatible(Granted(i, t), Granted(i, u))

\* The hold list has no conflict, and the representative mode, which grants are
\* decided by, is exactly the join of its nodes.
HoldListSound ==
  \A i \in Items :
    /\ \A t, u \in Trans : t # u => Compatible(hold[i][t], hold[i][u])
    /\ grantedMode[i] = Join({hold[i][t] : t \in Trans})

\* A queued request has another holder to wait for: there is always somebody
\* whose release will look at it.
QueueHasHolder ==
  \A i \in Items : \A t \in Requesters(i) : Holders(i) \ {t} # {}

\* A wake-up is pending exactly when the request was granted, or sent away, and
\* its owner has not noticed: none is lost, sent twice, or left for a later wait.
SignalMatchesQueue ==
  \A t \in Trans :
    sem[t] = IF /\ pc[t] \in {"blocked", "suspect", "victim", "expired"}
                /\ req[call[t].item][t] = "NONE"
             THEN 1 ELSE 0

\* The assertion of smklLock after a wait on a slot: the optimistic lock is gone,
\* even when the slot belongs to another transaction by now.
SlotReleased ==
  \A t \in Trans : pc[t] = "slotDone" => intent[call[t].item][call[t].target] = "NONE"

Waiting == {"blocked", "suspect", "slotEnter", "slotWait", "slotSuspect", "rowPoll", "rowSuspect"}

\* A queued request holds its owner up until it is taken off the list.
QueueWait == {"blocked", "suspect", "expired"}

\* Whom t is waiting for, as far as t knows.
WaitingOn(t) ==
  CASE pc[t] \in QueueWait           -> Holders(call[t].item) \ {t}
    [] pc[t] \in Waiting \ QueueWait -> {call[t].target}
    [] OTHER                         -> {}

\* Whom t really cannot go on without: what it waits for is still there.
WaitsFor(t) ==
  {u \in WaitingOn(t) :
     CASE pc[t] \in QueueWait  -> t \in Requesters(call[t].item)
       [] pc[t] \in RowPolling -> ~call[t].gone /\ pc[u] \notin Ended
       [] OTHER                -> intent[call[t].item][u] # "NONE"}

\* The transactions that a chain of waits leads to from t: they are in every set that has
\* those whom t and its own members wait for.
WaitsBehind(t) ==
  {u \in Trans : \A A \in SUBSET Trans : UNION {WaitsFor(a) : a \in A \cup {t}} \subseteq A => u \in A}

Stuck(t) == t \in WaitsBehind(t)

\* A transaction is made a deadlock victim only if it is stuck.
VictimIsStuck ==
  [][\A t \in Trans :
       \/ pc[t] = "suspect" /\ pc'[t] = "victim"
       \/ pc[t] = "slotSuspect" /\ pc'[t] = "active"
       \/ /\ pc[t] = "rowSuspect" /\ pc'[t] = "active"
          /\ ~call[t].gone /\ pc[call[t].target] \notin Ended
       => Stuck(t)]_vars

\* A deadlock is always visible: somebody who is stuck is deadlocked by the wait
\* table, or a victim has not left its wait yet.
DeadlockIsVisible ==
  (\E t \in Trans : Stuck(t)) =>
    \E t \in Trans : Stuck(t) /\ Deadlocked(t)

\* Nobody locks a relation once its drop is committed.
DropIsFinal ==
  [][\A i \in beFree : \A t \in Trans :
       /\ done'[i][t] \in {done[i][t], "NONE"}
       /\ intent'[i][t] \in {intent[i][t], "NONE"}]_vars

\* The assertion of smklAgingLockHandle: a lock item is freed only when nobody
\* holds it, waits for it or has an intent in it.
AgedItemIsEmpty ==
  [][\A i \in beFree \ beFree' :
       \A t \in Trans : hold[i][t] = "NONE" /\ req[i][t] = "NONE" /\ intent[i][t] = "NONE"]_vars

-----------------------------------------------------------------------------
(* The inductive invariant: what every step relies on to keep the above.    *)

Queued == {"blocked", "suspect", "victim", "expired"}

\* Every lock call has an item and a mode.
CallInv == \A t \in Trans : pc[t] \in LockCall => call[t].item \in Items /\ call[t].mode # "NONE"

\* A queued request is the call its owner is waiting in.
RequestsAreCalls ==
  \A i \in Items : \A t \in Requesters(i) :
    pc[t] \in Queued /\ call[t].item = i /\ call[t].mode = req[i][t]

\* Of two requests one is in front of the other.
QueueOrdered ==
  \A i \in Items : \A r, s \in Requesters(i) : r # s => r \in ahead[i][s] \/ s \in ahead[i][r]

\* The list node is as strong as the lock, shuts the optimistic path, and no lock
\* was completed over an optimistic one that it conflicts with.
NodesBackLocks ==
  \A i \in Items : \A t \in Trans :
    /\ Covers(hold[i][t], done[i][t])
    /\ hold[i][t] # "NONE" => pessimistic[i]
    /\ \A u \in Trans \ {t} : Compatible(done[i][t], intent[i][u])

\* A call that scans has its node, and nothing in its way in the slots behind it.
\* A call that was woken has its node unless the relation was dropped.
CallSound(t) ==
  LET i == call[t].item
      u == call[t].target
      scanning == pc[t] \in {"slotEnter", "slotDone"} \cup SlotPolling
      woken    == \/ pc[t] = "resumed"
                  \/ pc[t] \in {"blocked", "suspect"} /\ req[i][t] = "NONE"
  IN  /\ scanning \/ (woken /\ i \notin beFree) => Covers(hold[i][t], call[t].mode)
      /\ scanning => \A v \in Trans \ {t} : v < u => Compatible(intent[i][v], call[t].mode)
      /\ (pc[t] \in SlotPolling /\ call[t].gone) \/ pc[t] = "slotDone" => intent[i][u] = "NONE"

LockInv ==
  /\ RequestsAreCalls   /\ QueueOrdered   /\ NodesBackLocks
  /\ SignalMatchesQueue /\ QueueHasHolder /\ HoldListSound
  /\ \A t \in Trans : CallSound(t)

-----------------------------------------------------------------------------
(* Liveness.                                                                *)

\* A step of t that its server process takes when it can: everything but the
\* client's own choices.
Progress(t) ==
  \/ Wait(t)
  \/ EndTrans(t) \/ StartUnlock(t) \/ ResetWaitSlot(t) \/ FreeTrans(t)
  \/ UndoDone(t)
  \/ \E i \in Items : UnlockHeld(t, i) \/ ClearIntent(t, i) \/ UndoNode(t, i) \/ UndoIntent(t, i)

\* The deadlock latch is free again and again, not all the time, and every
\* process that waits for it gets it in the end.
Confirmation(t) == Confirm(t) \/ SlotConfirm(t) \/ RowConfirm(t)

FairSpec == Spec /\ \A t \in Trans : WF_vars(Progress(t)) /\ SF_vars(Confirmation(t))

\* Every wait ends, with the lock or with an error.
EveryWaitEnds == \A t \in Trans : pc[t] \in Waiting ~> pc[t] \notin Waiting

-----------------------------------------------------------------------------
(* What the clients see.                                                    *)

GrantedTable == [i \in Items |-> [t \in Trans |-> Granted(i, t)]]

Table == INSTANCE LockTable WITH
  Transactions <- Trans, LockItems <- Items, granted <- GrantedTable

\* The two mechanisms together are one lock table.
ImplementsLockTable == Table!Spec

=============================================================================
