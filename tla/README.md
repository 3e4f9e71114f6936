# GOLDILOCKS in TLA+

GOLDILOCKS is a relational database server in C: a storage manager with its own
lock manager, undo and redo, a kernel layer of latches and events, an SQL layer,
and dedicated and shared server processes that attach to one shared memory
segment. All concurrency control goes through that shared memory, so the state
of the system is plain data and its steps are what one process does between
taking latches and releasing them.

This directory models the parts on which the rest stands: the **lock manager** with its
waits and its deadlock detection, the **redo log buffer** with group commit, crash and
restart, the **latches** under both, the **system change numbers** with the ager, and the
**plan cache**. It checks them with TLC, and proves with TLAPS every safety property that the runs
check, some of them under hypotheses that section 4 names. The rest is inventoried and planned below.

Paths are relative to the repository; `SM` is `src/layer/StorageManager/dev/src`, `Kernel` is
`src/layer/Kernel/dev/src`.

## 1. Inventory

| component | state it keeps | operations | hard behaviour | what makes it correct |
|---|---|---|---|---|
| lock manager, `SM/smk/smkl` | per relation or record: `mHoldList`, `mRequestList`, `mGrantedMode`, `mBeFree`; per relation `mIsPessimistic` and the byte array `mIntentHoldArray` | lock (optimistic, pessimistic), unlock, savepoint, partial unlock, unlock of one record, mark free, aging | two lock paths that do not read each other; latches dropped while waiting; upgrades; withdrawn requests | no conflicting locks; no request without somebody to wake it; a wake-up belongs to its wait |
| wait table, `smklWaitGraph.c` | byte matrix over transaction and request group slots, worker counts, one latch | add and remove edge, search, confirm, resolve | searched without latch, edges added and removed by many | a victim is deadlocked; a deadlock is found |
| transaction manager, `SM/smx/smxl` | `smxlTrans` slots with state and sequence number | begin, commit, rollback, free, suspend, resume | state changes long before locks go; slots are reused while others poll them | a waiter never takes another transaction, or an unfinished one, for its own |
| savepoints and statements | ends of the node and relation lists | mark, roll back | locks of later statements only | released locks are exactly the later ones |
| drop and ager | `mBeFree`, agable SCN | mark, free | others wait for the dropped relation | nobody locks it afterwards; a freed item is empty |
| shared sessions, `gdispatcher`, `gserver` | one request queue per group | enqueue, dequeue, run | servers stuck in waits while the end they wait for is queued | deadlocks through queues are found |
| latches, condition variables, `Kernel/kna`, `knn` | latch word, reference count, waiter lists, one semaphore per thread | acquire, try, time out, escalate, release, wait, broadcast | timeouts racing a release; no hand-over | no lost and no left-over wake-up; readers or one writer |
| SCN manager and ager, `smxlScnMgr.c`, `smaStmt.c` | `mSystemScn`, four agable SCNs, five published views per session | begin and end of transactions and statements, drop, one pass of the ager | read field by field without latches | undo and dropped objects that a view needs are not agable; nobody running counts as committed |
| redo log buffer, pending buffers, flusher, `smrLogBuffer.c`, `smrPendBuffer.c` | `mLsn`, rear and front in LSN and SBSN, pending rings, two latches, group | write, write pending, apply, flush, group commit, restart | LSN order over several buffers; four ways out of a commit wait; a crash inside a write | the log has no gap; a commit returns after its log is on disk |
| log groups, checkpoint, restart | log files with states, control file | switch, archive, checkpoint, redo, undo | crash between any two steps | committed data survives, the rest does not |
| plan cache, `Kernel/knl/knlPlanCache.c`, `Kernel/knpc` | flanges (SQL text, plans, reference count, age) in the blocks of clocks, hash, free and aging hands | fix, unfix, scan, discard, cache, age, extend, clean up | three kinds of latches for the same flange; two sessions that compile one SQL; reset outside the latch of the clock | a fixed plan is not freed; counts are exact; no flange is lost |
| sequences, XA, backup, mirror | see PROJECT.json | | | |
| SQL, data types, clients, tools | sequential transformations and drivers | | | not a subject here |

**How they interact.** A server calls `smklLock` inside a statement. A conflict
puts its node on the request list and its session to sleep on a semaphore
(`smxlSuspend`, `knaSuspend`), or makes it poll another transaction's slot
(`smxlSuspendOnTransSlot`, `smklWaitTransLock`). At the end of a transaction
`smxlFreeTrans` releases its nodes, grants queued ones, wakes their owners
(`smxlResume`), clears its column of the wait table and its intents, and gives
the slot a new sequence number. With a shared session the same runs in a shared
server, and the dispatcher adds the edge *session → group* while a request is
queued. A change writes its log into the buffer or, when the buffer latch is
taken, into a pending buffer, and a commit waits in `smrFlushLog` until its LSN is on
disk. Each statement publishes its view SCN; the ager takes the minimum of what all
sessions publish, and undo below it is reused. A statement fixes its plan in the plan cache before
and unfixes it after its execution, and whoever compiles ages a clock when there is no room. All of them sleep on the semaphore of
their thread (`knaLatch.c`, `knnCondVar.c`).

## 2. Modules

| module | what it is | extends |
|---|---|---|
| `LockModes` | the six modes, conversion, compatibility, join | – |
| `WaitGraph` | the search of `smklWaitGraph.c` as a recursive function of a call's frame, edge macros, resolution | – |
| `LockTable` | the **abstract specification**: a table of granted modes, grant and release | `LockModes` |
| `LockManager` | the lock manager with waits, ends, savepoints, drops | `LockModes`, `WaitGraph`; `INSTANCE LockTable` |
| `SharedWait` | request groups, queues, shared servers, and the edges that go with them | `WaitGraph` |
| `RedoLog` | **abstract specification**: a set of logs whose stable part is a prefix | – |
| `LogBuffer` | log buffer, pending buffers, group commit, flusher, page writer, crash and restart | `INSTANCE RedoLog` |
| `RWLock` | **abstract specification**: readers, or one writer who may enter again | – |
| `Latch` | a latch and a condition variable on the semaphores of their threads | `INSTANCE RWLock` |
| `ScnManager` | views of sessions against the ager | – |
| `PlanCache` | flanges, clocks and hash of the plan cache, and the sessions that use them | – |
| `MCLockManager`, `MCSharedWait`, `MCLogBuffer`, `MCLatch`, `MCScnManager`, `MCPlanCache` | bounds for TLC | the above |
| `MCWaitGraph` | every wait table over four slots, with victims resolved in any order | `WaitGraph` |
| `LockManagerProofs`, `LockSafetyProofs`, `WaitGraphProofs`, `SharedWaitProofs`, `LogBufferProofs`, `LatchProofs`, `ScnManagerProofs`, `PlanCacheProofs` | theorems | the modules they are about; `LockSafetyProofs` and `SharedWaitProofs` also have `INSTANCE WaitGraphProofs`, each with its own wait table |

### LockManager

| variable | code |
|---|---|
| `hold[i][t]`, `req[i][t]` | mode of `t`'s node in `mHoldList`, `mRequestList` (`NONE`: no node) |
| `ahead[i][t]` | order of the request list: who is in front of `t` |
| `grantedMode`, `pessimistic`, `beFree`, `intent` | `mGrantedMode`, `mIsPessimistic`, `mBeFree`, `mIntentHoldArray` |
| `edge`, `latch` | the wait table, `gSmklDeadlockLatch` |
| `sem` | semaphore count of the session (`knaResume` / `knaSuspend`) |
| `pc`, `call` | place and locals of the current call; `call.gone`: the target slot has another sequence number |
| `mark`, `drops`, `calls` | savepoint, own drops, bound |
| `done` | history: the join of what `t`'s completed calls asked; read only by `MarkFree` (which drops only what the drop itself locked in X) and by properties |

A call of `smklLock` is: `LockOptimistic` (own latch only), or
`EnterPessimistic`, then with all latches `GrantNow`, `Enqueue`, `Refuse` or
`DroppedItem`. A queued call sleeps in `blocked`, and leaves by `Resume` and
`Proceed` (granted or dropped), `Expire` and `Withdraw` (timeout), or `Suspect`,
`Confirm` and `Withdraw` (victim). After a grant the intention array is scanned
(`Scan`): at the first conflicting slot the latches are dropped and the slot is
polled (`SlotEnter`, `SlotFreed`, `ContinueScan`, `SlotConfirm`, `ExpireSlot`).
`RowConflict` to `RowExpire` are `smklWaitTransLock`. A transaction ends by
`EndTrans`, `StartUnlock`, `UnlockHeld` for each node, `ResetWaitSlot`,
`ClearIntent` for each relation, `FreeTrans`.

Choices:
- What runs under the latches of an item is one action; every latch-free stretch
  is a state of its own. A check and its resolution under the deadlock latch are
  one action; the check before a wait and the periodic one are both `Suspect`.
- Nodes are released in any order (the code: list order), which includes the code's.
- `smklWaitRecord` is the same path as `smklLockRecord` on an existing item.
  Creation and removal of record items in the hash bucket are left out.
- A dropped relation that is found before the call has waited returns without a
  lock (`DroppedItem`); the test before the latches is omitted when nothing happens.
- One savepoint mark per transaction; the latest one counts.
- `AgeLockItem` requires `drops` to be clear: it stands for the agable SCN test.
- All sessions are dedicated here (`NoGroups`).

### SharedWait

Sessions send requests (change a row, end the transaction). The wait table and the queues change in separate
steps, because no latch covers both: the dispatcher adds *session → group* (`AddRequestEdge`,
`ztimDispatcher.c:710`; the session is `sending`) and then queues the request (`Enqueue`, 717; `queued`);
a free server of the group takes the oldest (`Dequeue`, `ztss.c:489`; `taken`), receives and parses the packet, and only
then removes the edge (`RemoveRequestEdge`, `ztss.c:86`; `served`). All other sessions and servers may move, search
and confirm between any two of these. A server whose row is owned by an open
transaction adds *group → session* and *session → target* and polls
(`smklWaitTransLock`), until `Done` or `Confirm`; its locals are reset when the wait ends (`Forget`). `End` is the
release of `smxlFreeTrans` in one step and row waits have no timeout: both are in
`LockManager`; here the subject is the queues.

`GroupEdgesExact` names the stages in which the edge of a request stands (`Asking`: `sending`, `queued`, `taken`) and those
in which no server can act on it (`Unserved`: the first two, which `Stuck` uses). The edge is too early and too late,
never missing while the request is queued.

### LogBuffer

A log is its LSN and the first and last block it lies in; blocks are numbered (SBSN).

| variable | code |
|---|---|
| `lsn`, `rearLsn`, `rearSbsn`, `frontLsn`, `frontSbsn` | `mLsn`, `mRearLsn`, `mRearSbsn`, `mFrontLsn`, `mFrontSbsn` |
| `buffer` | the complete logs of the log buffer; the blocks up to `frontSbsn` are on disk |
| `bufferLatch`, `fileLatch`, `flushWaiter`, `groupLsn` | the two latches, the waiter with `mForLogFlush`, `mGroupCommitLsn` |
| `pend`, `pendLatch` | published logs of each pending buffer, and its latch |
| `awaited`, `cursor` | progress of `smrWaitPendingLog` and `smrApplyPendingLogs` |
| `disk` | what the last restart found |
| `dirty` | recovery LSN and SBSN of dirty pages, for the page writer |
| `call` | what each thread is doing, with the locals of `smrFlushLog` |

A thread that finds the buffer latch free takes its LSN under it and puts its log
(`TakeLsn`, `PutLog`), after waiting for and applying what is pending; otherwise it takes
its LSN under the latch of a pending buffer (`BeginPendingLog`) and publishes the log later
(`PublishPendingLog`). `BeginFlush`, `JoinGroup`, `DriveGroup`, `CloseBlock`, `FlushByTrans`, `EndWait`
are `smrFlushLog` in the order of its exits. A writer that finds the buffer full under the latch releases it
(`LeaveForRoom`), and picks the block it waits for from `frontSbsn` and `rearSbsn` as they are by then (`WaitForRoom`;
the two unlatched reads at `smrLogBuffer.c:1447` are one step); `FlushStreamLog` and `BeginFlushAll` to
`CloseBlock` are the flusher of gmaster. `StartDisk` and `EndDisk` are two steps, and a crash
between them leaves any prefix of the blocks on disk (`LastBlocks`). `CrashAndRestart` cuts a
partial log as `smrRecoveryMgr.c` does and starts with an empty buffer.

### Latch

Everything done under the spin lock of a latch or of a condition variable is one action;
the semaphore operations after it are actions of their own. `Request`, `GetLatch`,
`FailLatch` and `QueueForLatch` are `knaAcquireLatchInternal` (ways to ask: wait, timed, try,
retry count 1; normal or high priority), `Escalate`, `ReleaseLatch` with `Wake`, then `WakeUp`
or `TimeOut` and `Leave` and `Drain`, which take back a wake-up that came too late.
`CondWait`, `CondBroadcast` use the same semaphore; the order of the condition variable's list is
dropped, since a broadcast takes any of it. `swallowed` is a history variable: a waiter that
timed out has consumed a wake-up meant for a waiter (the comment at `knaLatch.c:337`
accepts this); the properties about lost wake-ups except those behaviours and no others.

### ScnManager

Every load and every store of a field that another process reads is a step.
`shared[s]` has the five fields of a session that the ager reads, `slot[s]` its transaction,
`stmts[s]` the rings of open statements, `agable` the four results of the ager and `ager` the
locals of its pass. `Load`, `Store`, `Check` are `smxlGetAtomicSystemScn` (publish, and look again whether
the system SCN is still the same); around it `AllocTrans`, `Activate`
and `EndTrans` to `FreeTrans` for a transaction, `AllocStatement` to `OpenStatement` and `FreeStatement` for a
statement, `Pending` (the SCN a dropped relation is stamped with) and `AgeDropped` for a drop. `BeginPass`, `ReadField`, `ReadSlot`, `EndPass` are
`smxlBuildAgableScn`, one field or slot at a time. Left out: READ UNCOMMITTED (a view of infinity),
prepared and global transactions, agable SCNs of single tablespaces, views disabled for validation or
rollback to a savepoint.

### PlanCache

| variable | code |
|---|---|
| `flange[f]` | a `knpcFlange`: `sql` is `mSqlString`, `ref` `mRefCount`, `plans` `mPlans`, `age`, `dropped`; `findable`: `mSqlLength` is the length of the text |
| `linked` | what is in the overflow list of a hash bucket |
| `ring`, `count`, `free`, `hand` | `mBlockList`, `mFlangeCount`, `mFreeHand`, `mAgingHand` of each clock |
| `pc`, `stmt`, `handle`, `found`, `text`, `tries`, `ager` | place and locals of a session: SQL, flange, the flange `knlCacheSql` has found, text buffer, retry count, locals of `knpcAgingClock` |
| `fixed` | `mSqlFixList` of the session, one entry |

A statement fixes what it finds (`FixSql`, `AddFixedSql`), may discard it, unfixes it (`UnfixSql`,
`RemoveFixedSql`), and compiles when there is nothing that fits (`Compile`). To cache the plan it takes an
empty flange (`FindEmpty`), extends the clock (`ExtendClock`, `LinkBlock`) or ages it
(`BeginAging` to `EndAging`, a flange a step) and tries again, or gives up (`GiveUp`, `GoOnWithout`).
Then it puts the flange into the hash or, when the SQL is there by now, frees it and joins
the other, by the pointer it has found (`Insert`, `Join`). `FlangeFetchNext` is the scan of the fixed table of plans.

Choices:
- A hash bucket is one SQL. Flanges of other SQLs in the same bucket would only wait for its latch.
- What runs under the latch of a bucket or the spin lock of a flange is one action. The exception is
  the last store of `knpcResetFlange`: between `Insert` and `Join` other sessions may move. The latch of a clock is
  held over all actions of an aging.
- `STL_RING_UNLINK` leaves an element linked to itself (`stlRing.h:412`), so a second unlink, by another
  discard or by aging, does nothing; the model removes from a set.
- A plan is what `aCompareFunc` tells apart; plan memory and its allocators are left out, and with
  them why an allocation fails: it may fail at any time.
- `knlCachePlan` is left out: nobody calls it.
- `AgingThreshold`, `DeadAge`, `BlockSize` are constants of the code; the runs use small ones.
- `Die` and `Cleanup` are in `CrashSpec` only. A session that is killed with an exclusive latch takes
  the server down (`knlResolveSystemFatal`), so `Die` is not enabled while one is held.

## 3. Runs

| run | instance | question and result |
|---|---|---|
| `pairs` | 2 transactions, relation and record, IX S X, 2 calls each, NOWAIT, timeout, savepoints, drop | the inductive invariant of the proofs, no conflicting locks over both mechanisms; refines `LockTable` |
| `queue` | 3 transactions, IX S X, 2+1+1 calls, one drops | queues have holders, wake-ups, slot waits; nobody locks a dropped relation; a freed item is empty |
| `records` | 3 transactions, 2 records, fair | deadlocks visible, victims stuck, waits end |
| `wait_graph` | every table over 4 slots | search sound, somebody detects, cycles end |
| `shared` | 4 sessions, 2 groups with 2 servers each, the last session changes twice, fair | group edges exact although they change apart from the queues, deadlocks through the queues found, victims stuck, in the end nobody waits (781,157 states) |
| `log` | 2 threads, 2 pending buffers, flusher, 3 LSNs | LSN order over all buffers, front and rear, a returned commit is on disk; refines `RedoLog` (1.5 million states) |
| `log_crash` | 1 thread, page writer, flusher, 2 crashes, a buffer of 3 blocks, fair | what `mFrontLsn` promises, what a restart finds, every flush ends, also with a full buffer, but for finding 9 (176,134 states) |
| `latch` | 3 threads, one of them calls twice, all ways to ask, fair | semaphores exact, no lost wake-up, waits end; refines `RWLock` |
| `scn` | 2 sessions, one queries with 2 statements, one changes and drops, 3 SCNs | nobody running counts as committed, views keep their undo, a drop is aged last |
| `plans` | 2 sessions, 2 SQLs with 2 plans, a clock of 1 or 2 blocks with 1 flange each | no flange is lost, counts exact, fixed plans stay, an SQL is cached once |
| `hidden_deadlock`, `log_member` | | findings 1 and 2 of section 5 |

All type invariants are proved for every value of the constants, and so is `HoldListSound`; the runs
repeat only `TypeOK` of `SharedWait` and `LogBuffer`, and what is part of `LockInv` and `PlanInv`.

Configurations beside the runs, for `tlc -config X.cfg M`:

| configuration | module | result |
|---|---|---|
| `MCLogAlone.cfg` | `MCLogBuffer` | 2 threads without the flusher, a buffer of 3 blocks, fair: the groups write for themselves and every flush ends; passes |
| `MCLogRoom.cfg` | `MCLogBuffer` | `EveryFlushReturns` violated, finding 9 |
| `MCScnSerial.cfg` | `MCScnManager` | `SerializableIsKept` violated, finding 3 |
| `MCPlanReset.cfg`, `MCPlanText.cfg`, `MCPlanCleanup.cfg`, `MCPlanExtend.cfg`, `MCPlanHand.cfg` | `MCPlanCache` | `CachedOnce`, `TextIsFreedOnce`, `UnfixIsCounted`, `CountIsLimited`, `AgingMakesRoom` violated, findings 4 to 8 |
| `MCSharedSizes.cfg` | `MCSharedWait` | `DeadlockIsVisible` violated with groups of different size (section 5) |
| `MCSharedHalf.cfg` | `MCSharedWait` | `NoFalseVictim` violated: a victim although a server of the group is free (section 5) |

**Bounds.** `MaxCalls` of the lock manager bounds the calls of one transaction and starts anew with
each transaction of a slot, so slots are reused without limit. Three
transactions are the least with a holder, a queued request and one that passes
it, and with a cycle longer than two; a cycle of two items needs two calls. A
node list of one transaction per item is the code's, so lists are as long as the
number of transactions. Four slots give the wait table every pattern of a search
that meets a foreign cycle before or after its own. Four sessions, three of them in one
group with two servers, are the least with a session queued behind a full group while another
group still moves. `MaxRequests` gives the session that is alone in its group two changes, so that it can hold a row and
ask for another one; with two for everybody the run is too long.
IX, S and X (and SIX, which an upgrade makes of IX and S) include every pair of
modes that conflicts within and across the two mechanisms except those with IS, which
conflicts with X alone; IS is in the proofs.

`LogBuffer`: `PendCount` 2 is the least where pending buffers must be merged; `PendRoom` 1
makes a pending buffer full after one log, so writers also fall back to the latch. `Room` 5 and
`WaitBlocks` 3 make the buffer full with the logs of three LSNs that take two blocks each; `log_crash`, with two LSNs, has
`Room` 3 and `WaitBlocks` 1 for the same reason (the least `RoomAssumption` allows), so that waiting for room is part of
`EveryFlushEnds`.
`Shapes` has a log within the rear block and one over two blocks; that a log starts in the next
block because no header fits (`next`) gives no order that these do not. `MaxBatch` bounds the
pages of one write to 1 (see section 6). `MaxLsn` counts up and cannot wrap in the lifetime of a
system; `MaxCrash` 2 lets a log be cut, written again and cut again.

`Latch`: `MaxCalls` is 2 for the thread with a shared environment, which may enter again, and 1
for the others: a holder, a waiter and one that overtakes it. `ExclWakeup` 1 and `SharedWakeup` 2
are below the number of waiters.

`ScnManager`: `MaxScn` 3 leaves two increments, one before and one after a load (`MaxOther` 2
keeps one for the session's own commit and drop). `Transactors`, `Kinds` and `MaxStmts` give the
two sessions different jobs, which keeps the run at a minute and a half.

`PlanCache`: two sessions are the least that compile the same SQL, and two SQLs the least where an aged flange
comes back with another text. A block of one flange and at most two blocks have the steps
of any number, since the hands only tell blocks apart: one block, the hand that moves, and the block that is
linked in between; the configurations of findings 4 to 8 also use two flanges a block. `DeadAge` 1 is the code's. The
reference count wraps at `RefLimit`, one more than the number of sessions. `CrashSpec` has no passing run: each
kill may leave a count behind for ever (between `FixSql` and `AddFixedSql`), so what holds without kills
does not hold with them, and `MCPlanCleanup.cfg` stops at the first state that shows it.

**Deadlock check of TLC.** It is off in `queue` and `hidden_deadlock`, because
there the system itself stops (finding 1); in `wait_graph`, which ends when its work is done; and in
`shared`, the `log` runs, `latch` and `scn`, where requests, LSNs, calls and SCNs are
bounded and the bounded system stops when they are used up. In those, that nobody waits for ever is
what `EveryWaitEnds` and `EveryFlushEnds` say.

**Fairness.** Lock manager: `WF(Progress(t))`: a server process that can take a step takes one,
and a client ends its transaction sooner or later. `SF(Confirmation(t))`: the
deadlock latch is released again and again and a latch waiter polls it with a
timeout, so every confirming process gets it in the end. No fairness is assumed
of clients' requests, of timeouts, or of savepoints. In `SharedWait` it is
`WF(Enqueue)`, `WF(Dequeue)`, `WF(Serve)` and `WF(AddRequestEdge(s, "end"))`; the number of requests is bounded, which
matters: a waiter for a row polls, and a stream of later transactions without end could take
the row before it each time. `EveryWaitEnds` says there that from some point on nobody waits, which with
bounded requests is the same as that every wait ends.
`LogBuffer`: weak fairness for each thread inside a call and for each duty of the flusher; none for
new calls or crashes. `JoinGroup` at a free buffer latch has strong fairness: while a writer has work for it the flusher takes
that latch again and again, but lets `LOG_SYNC_INTERVAL` pass in between (`ztmtLogFlush.c:153`), and a woken latch
waiter needs far less. `Latch`: weak fairness for each thread inside a call and for a release; none for calls, timeouts,
broadcasts. Neither hands a latch over, and weak fairness is enough only because the calls are
finitely many: with an endless stream of newcomers a waiter may starve, in the code too.
`ScnManager` has no liveness property and no fairness.

## 4. Proofs

All for every number of slots, items, sessions, calls, threads, buffers and crashes, and every choice of
who times out, drops or uses savepoints. What is assumed of the constants:

- `LockManagerAssumption`, `ScnAssumption`, `LogBuffer`'s `ConstantsAssumption`: their sets and types.
- `ConstantsAssumption` of `Latch`: threads are finitely many. `SharedWaitAssumption`: so are the
  groups, which are numbered from 0 (property `SHARED_REQUEST_QUEUE_COUNT`, `smklDef.h:139`).
- `PlanCacheAssumption`: sessions are fewer than the reference count can hold.
- `SlotAssumption` (`MCWaitGraph`): the wait table has some natural number of slots.
- `RoomAssumption`: `WaitBlocks + 2 <= Room`, without which every writer waits for ever (section 5). It does not exclude finding 9.
- Five theorems have hypotheses of their own, without which they are false (see there):
  `FlushesAreDurable` (`MaxBatch = 1 \/ PendCount = 0`), `VictimsAreStuck`, `DeadlocksAreVisible`, and, with
  `ReadInOrder`, `DeadlocksThroughQueuesAreVisible` and `SharedVictimsAreStuck`.

What follows goes module by module.

- `LockManagerProofs`: the two matrices of the code are the ones their rules give
  (`ConversionFollowsRule`, `CompatibleFollowsRule`), a conversion excludes exactly what the two
  modes exclude (`ConversionIsExact`), and the representative mode decides for the whole hold
  list (`RepresentativeDecides`), which is why the code may keep one mode instead of a list.
- `TypeCorrect` (`LockManagerProofs`).
- `LockInvariant` (`LockSafetyProofs`): `LockInv` is inductive together with
  `TypeOK` and `CallInv`. Its parts and why each is needed:
  - `RequestsAreCalls`: a queued node is its owner's current call, so that what a
    release grants is what the sleeper asked for;
  - `QueueOrdered`: the request list has an order, so a batch of grants is unique enough
    to leave each skipped request somebody in front of it;
  - `NodesBackLocks`: a node covers what its owner was granted, exists only on a
    pessimistic item, and no completed lock conflicts with another's intent. This links
    the two lock paths;
  - `SignalMatchesQueue`: otherwise a left-over wake-up would end the next wait at once;
  - `QueueHasHolder`: otherwise an empty hold list could leave a queue behind;
  - `HoldListSound`: the cached `mGrantedMode` decides about grants;
  - `CallSound`: what a call knows between two latched stretches: its node is in place, and
    the slots its scan has passed stay clear because the item is pessimistic.
- From it: `HoldListIsSound`, `QueueAlwaysHasHolder`, `NoWakeupIsLost`,
  `SlotsAreReleased`, and `LocksExclude` (`GrantedCompatible`: no two
  transactions ever have conflicting locks on an item).
- `LockManagerImplementsLockTable` (`LockSafetyProofs`): with
  `granted <- Conversion(done, intent)` every step is a grant, a release or a
  stutter of `LockTable`.
- `DropsAreFinal` (`DropIsFinal`) and `AgedItemsAreEmpty` (`AgedItemIsEmpty`). `DropInv` is inductive on
  top of `LockInv`: whoever has a node on a dropped relation dropped it and is between its commit and
  the release of the node, and whoever has an intent in it has not yet cleared its intents. It holds when
  the relation is marked because the X lock of the drop leaves no other holder (`GrantedCompatible`),
  and stays because nobody grants on it again: the optimistic path, the entry with all latches and the wake-up look at
  `mBeFree`, a release there grants nobody, and a scan under way would have a node. That the freed item has no
  queued node follows from `QueueHasHolder`: a queue without a holder does not exist.
- `PollsStaySeen` (`PollsAreSeen`): who polls a slot or a row has its edge in the wait table until
  its target clears its intents, so that what the deadlock search can miss (finding 1) is a wait in
  a queue, never one that polls. `PollInv` must say more than the property, since the target slot may end and be
  used again during the poll: the edge is there as long as the intent is, and an item that is scanned is
  pessimistic, so that no new intent appears. The exception `pc[u] = "intents"` is the code's:
  `smklResetWaitSlot` clears the column before the intents (section 5, stale edges).
- `VictimsAreStuck` (`VictimIsStuck`), where all locks go through the lists (`EveryoneQueues`: relations are locked in
  S, SIX or X, records in any mode, and nobody times out or waits for a row). Those are the instances
  without stale edges (section 5), for which the property is false. The inductive invariant on top of `LockInv`
  is `WaitInv`:
  - `Plain`, the places that are left; no intents, so no scan finds anything in its way;
  - `EdgesReal`, every edge is a wait: who is queued has an edge only to holders. A release takes the edges to the node
    along, which are all the edges of the request it lets in; a victim's edges were switched off when it was convicted; and the
    edges a release adds lead to those it let in;
  - `VictimInv`, which `EdgesReal` needs: between its conviction and its withdrawal a victim is still in the queue, and a release
    by the last holder would give it an edge again, which would outlive the wait. The last holder cannot release: it
    waits, through others, for the victim. This holds of one victim at a time only, so it needs the latch
    that `smklCheckDeadlock` keeps until the request is gone.

  Then `SearchIsSound` about the table gives a cycle of edges, and every edge is a wait.
- `DeadlocksAreVisible` (`DeadlockIsVisible`), where in addition no two modes in use can be held together
  (`EveryoneExcludes`: SIX and X). With a shared mode it is false: that is finding 1. `SeenInv` adds to `WaitInv` that every wait
  has its edge (`EdgesSeen`). A request queues with its edges; and as long as anybody is queued, a new grant
  can only be made to the one holder itself (`GrantAlone`), which everybody has an edge to already, and a release lets in
  exactly one, whom all others had ahead of them (`OneIsLetIn`), so that the edges the release adds are all that is missing.
  Then `SearchIsComplete` gives somebody whom the search convicts, and `VictimsAreStuck`'s argument says that it is stuck.

- `WaitGraphProofs`, for wait tables of any size: `SearchIsSound` (`CheckIsSound`) and `SearchIsComplete`
  (`SomeoneDetects`) with dedicated sessions only (`NoGroups`), `KnotIsFound` and `DeadlockIsHeld` with request groups.
  - That `Search` is a function at all needs a proof, since it is defined by recursion. A frame's size is first
    the slots not on its chain, then whether it is the turn of a group, then the slots not yet looked at
    (`Depth`, `Size`), and each frame needs only smaller ones. The turn of a group counts because a
    group may descend into a slot that is on the chain already; but it is one of a transaction, since groups do not wait for
    groups (`GroupsWaitForTrans`). By induction on a bound of that size the equation of the search
    has a solution (`SearchIs`), and what holds of every frame is shown at a smallest one of which it does not (`FindAll`).
  - Soundness: a chain is made of edges, and `TRUE` means one more leads back to its head. As an invariant of the
    frames (`FindIsSound`): whatever set of slots has the slots of the chain and is closed under edges has the head again.
  - Completeness: from a slot on a cycle the search cannot return `FALSE`, because then no cycle leads
    back to any slot it went through (`FindsNothing`, `CycleIsMet`). It may return `EXIT`, for a cycle of
    others; but then the slot of the chain that the cycle closes on, asking for itself with the rest of the chain, gets
    `TRUE` (`ExitShowsCycle`, with `FewerFindNothing`: a shorter chain in front cannot turn a verdict
    to `FALSE`). This is what makes it safe that the code gives up at a cycle without the asking slot.
  - Completeness with groups: a `Knot` is a set of slots in which a transaction waits for one of them, and a group for
    as many as it has servers, all of them in the set. There no frame ends with `FALSE` (`KnotStep`, `KnotIsMet`): a
    group counts each of its successors and arrives at its number of servers, so it answers `TRUE`.
    As before an `EXIT` shows a slot behind the head that itself gets `TRUE` (`ExitShowsKnot`), and this slot
    waits for a transaction: one that waits for a group would have got the group's `TRUE`.
  - Soundness with groups: take the chains that the search has met and not answered with `FALSE`. Their last slots
    are `Held`: each has a successor among them (`TransFinds`), and a group has them all there (`GroupFinds`), because
    one `FALSE` stops its count short of its servers. A group that has fewer successors than servers
    is included: its verdict is that of the last one, which is what the exception of `VictimIsStuck` is about.

- `SharedWaitProofs`: `SharedTypes`, `GroupEdgesStayExact` (`GroupEdgesExact`),
  `RequestsAreQueuedOnce`, `WaitsAreSeen`, `EndsAreNoticed`, for any groups, servers and requests. The inductive
  invariant is `SharedInv`: `QueueExact`, a session is in the queue of its own group once
  while it is `queued` and in no other (without it the edge removed by `RemoveRequestEdge` could be needed by a second
  entry); `GroupEdgesExact`; `EndIsNoticed`, a wait is for an open transaction or has been told of its end, and rows belong to
  open ones; and `WaitsAreInTable`, which with the group edges says that the wait table shows every wait
  there is. The finiteness of the groups is needed only to keep the slots of groups and sessions apart.
- `DeadlocksThroughQueuesAreVisible` (`DeadlockIsVisible` of `SharedWait`), `SharedVictimsAreStuck` (`VictimIsStuck`)
  and `ServersAreBounded`. Two more invariants stand on top of `SharedInv`: `EdgesAreWaits`, the converse of `WaitsAreInTable`,
  that every edge is of a wait (of a session for its group or for the one it polls for, of a group for sessions it runs);
  and `ServersBounded` with `OpenWasServed`, that a group has no more requests in work than servers, and at least one server if
  a session of it has a transaction. (Without the last one a group of no servers, which the code calls not
  deadlocked, would hold sessions for ever.)
  - Visible: the sessions that cannot move, less those without a transaction, together with the groups they are
    queued for, are a knot (`StuckIsSeen`): a session polls for one target, whose edge is there because it has not ended; and
    the servers of a full group all wait, so that its edges are as many as its servers. `KnotIsFound` gives one that is told.
  - Stuck: `DeadlockIsHeld` gives slots that wait for each other. A session of them that polls has its target among
    them, since no edge is stale; one that asks for a server has its group there with every server that waits, and these are all
    servers it has, since it has the edge of a request and is not half stuck (`DeadlockIsStuck`). That a request may have been
    taken already with its edge still there is no further exception: the server that took it does not wait, so the group is
    half stuck, or it has no stuck server and is not called deadlocked.
  - `ReadInOrder`, their hypothesis, says that the count which `smklWaitGraph.c:181` reads from the end of the array is
    that of the group. It is so with one group, the default (`SHARED_REQUEST_QUEUE_COUNT`,
    `knpPropertyList.c:3239`), and with groups of equal size, as in `shared`. Otherwise a
    group may count to the servers of another one, and both are false: with two servers in one group and one in the other
    TLC finds a deadlock nobody sees (`MCSharedSizes.cfg`), and a victim that is not stuck.

- `ScnTypes` and `RunningIsHidden` (`ScnManagerProofs`): a transaction that has not ended is never
  below `mAgableViewScn`, whatever the sessions store and whenever the ager reads. The inductive
  invariant is `ScnInv`: `TypeOK`; `Ordered`, the results and the current pass are at most the system SCN,
  and `mAgableViewScn` at most `mMinTransViewScn`; and for each session `CallOK`, its locals are SCNs, and
  `ViewOK`: once the view of a transaction is fixed it is the published one, and it is `Kept`, that is no
  finished pass has passed it, and the present one is below it or will still read it. The heart is
  two facts: after a successful `Check` the system SCN equals the published view, so every pass so far,
  which is at most the system SCN, is below it; and a later pass starts at a later system SCN but
  meets the field before it publishes.
- `OpenViewsAreKept` (`ViewsAreKept`) and `DropsAreLast` (`DropIsLast`), by `ReadInv` on top of `ScnInv`.
  A session publishes one field for all its statements, so one view per statement is
  not enough: `Older` and `Sorted` say that the rings are in the order of their views, hence that the first
  statement, whose view `FreeStatement` publishes again, has the least one. `KeptScn` and `KeptStmt` follow each view through the
  fields, the locals of the pass and the results, as `Kept` does; `PublishOK` and `OpenOK` carry what is known
  between the check of an SCN and the statement that uses it, `DropOK` that the SCN a drop stamps its relation with is
  newer than the session's own `disabled` field, and `TransOK` that a serializable transaction has no statement newer
  than its view. The pass's locals must be in it, since a pass may have read a field before it was changed
  and write its result after.

- `LatchProofs`: `LatchTypes`, `SemaphoresAreExact` (`SemaphoreExact`), `AFreeLatchHasAContender`
  (`WaitersAreWoken`) and `LatchImplementsRWLock`. The inductive invariant is `LatchInv`: `TypeOK`;
  `ModeInv`, the mode and the count say how many hold the latch (the count is the number of readers, or
  how often the one writer has entered), needed because the release looks at the count only; `AskInv`, who
  asks does not hold it, or is its known owner; `ListInv`, a thread is in a list at most once and only
  while it waits there, so that a wake-up is given once; and `SemaphoreExact`. A release leaves the
  latch free and wakes at least the first waiter, who stays a contender until he has looked
  again; from that follows `WaitersAreWoken`.

- `PlanCacheProofs`: `ReferencesAreExact` (`RefCountExact`), `FixedPlansStay` (`HandlesAreValid`) and
  `NoFlangeIsLost` (`PlanInv`), for any number of sessions, SQLs, clocks and blocks. Their conjunction `CacheInv`
  is inductive, and none of the three is alone. Aging frees only what has a count of 0, so that it takes nothing
  from a user needs `RefCountExact`; that the decrement of an unfix does not wrap needs that its session is one of the
  users; that a flange `knpcAllocFlange` finds empty has no user needs `FlangesSound`, and that the new flange
  can be freed by `Insert` without the latch of the clock needs that its session is its only user (`NewFlange`).
  `TypeOK` carries that both hands stay on blocks of the ring.
  `TextsAreCachedOnce` (`OneFlangePerSql`) needs one fact more (`OneInv`): a flange about to be inserted
  was emptied, so it is not marked dropped. Then the look at the hash and the link, both under the latch of the
  bucket, leave at most one findable flange for a text. `FoundStays`, part of `PlanInv`, is what makes the pointer of
  `knlCacheSql` safe: aging and discard need the latch of the bucket (`FoundKeep`).

- `LogBufferProofs`, for any threads, pending buffers of any length, any room and any number of crashes.
  `LogInv` is inductive: `TypeOK` (`LogTypes`); `OwnersOK`, each latch has the owner that the places
  of the threads say; `BufferOK`, the logs of the buffer lie in LSN order, leave no block out and fit; `FrontOK`,
  what `mFrontLsn` and `mFrontSbsn` say of the blocks, and that a write under way ends below the rear; `PendingOK`, an LSN
  without a place is in one pending buffer or one hand, in order, and newer than all that have one; and
  `Settled`, what the owner of the buffer latch knows of the pending buffers it has waited for. The last is what
  makes the code right: `smrWaitPendingLog` looks at one buffer after another while LSNs are still taken,
  and it is enough because whoever takes one later gets a newer LSN than the owner's.
  From it `PendingStaysNewer`, `FrontStaysBelowRear`, `FrontLsnStaysDurable`, `LogsEnterInOrder` (`LsnOrder`), and
  `LogImplementsRedoLog`, whose abstract set is the buffered and the pending logs together.
- `CommitsAreDurable` and `FlushesAreDurable` (`FlushIsDurable`): who returns from `smrFlushLog` has its log on disk. `FlushInv`, on
  top of `LogInv`, says what the caller knows at each exit: with a hint, its
  log has a place and ends in that block or before (`KnowsLog`), what it closes or
  waits for covers its log (`KnowsEnd`, `KnowsPlace`, `KnowsTarget`), and dirty pages know true pairs
  (`DirtyOK`). A commit has one log, so this needs no hypothesis. A page writer that asks for several pages passes the
  newest LSN with the highest SBSN, which may be of different pages when logs are pending (section 5): with
  `MaxBatch > 1` and pending buffers the property fails, which is why the theorem excludes exactly that case.
  Both except the returns of finding 2 (`WroteItself`).

**Model-checked only.** The properties of `LockManager` about the deadlock search, and those of `SharedWait`, are proved
under the hypotheses named above, and only model-checked outside: for `LockManager` in instances with
optimistic locks, timeouts and row waits, where they hold for reasons of the instance. All
liveness (`CyclesResolved`, `EveryWaitEnds`, `EveryFlushEnds`), since fairness and `ENABLED` are outside the
prover. What holds only with exceptions (findings, observations) is proved with the same exceptions.

## 5. Findings

Each is a configuration in which TLC finds a property violated. The first two are runs of PROJECT.json, which
quotes the lines; for the others the configuration is named here.

1. `hidden_deadlock`: `smklLockNode.c:238` grants past a queue without an edge
   from those queued to the new holder. The deadlock that closes through it is in
   no check's view, and the waiters sleep until a timeout, if they have one.
2. `log_member`: a member of a commit group forgets its own block number
   (`smrLogBuffer.c:1617`). If it then finds the file latch free, it writes the blocks below the rear
   block, takes that for success and returns, while its log is in the rear block or in a pending buffer.
   `FlushIsDurable` of the passing runs excepts exactly these returns (`WroteItself`).
3. `MCScnSerial.cfg`: `smxlAllocTrans` takes the view (`smxlManager.c:229`) before the slot is active (239),
   and the pass of the ager skips idle slots without their latch (2053). The agable SCN passes
   the view of a serializable transaction that is just being begun, against the comment and the
   assertion at `smxlScnMgr.c:588` and 602.

4. `MCPlanReset.cfg`: `knlCacheSql` frees a flange it does not need without the latch of the clock, and
   `knpcResetFlange` writes `mSqlLength` (`knpcFlange.c:164`) after the store that makes the flange empty (163).
   Whoever takes it in between caches an SQL nobody can find, so that it is cached again.
   `OneFlangePerSql` of the passing run excepts these flanges.
5. `MCPlanText.cfg`: after an aging without success `knpcAllocFlange` frees the text (`knpcFlange.c:374`), leaves the
   loop, and frees it again (389), against the assertion at `knmDynamic.c:963`.
6. `MCPlanCleanup.cfg`: a session killed inside `knlUnfixSql`, between the decrement (`knlPlanCache.c:168`) and the
   removal of its note (171), is cleaned up with a second decrement, which belongs to somebody else.
7. `MCPlanExtend.cfg`: `knpcExtendClock` compares with `MAXIMUM_FLANGE_COUNT` before it takes the latch
   (`knpcClock.c:409`); sessions that extend at once exceed it.
8. `MCPlanHand.cfg`: in a clock of one block (`MAXIMUM_FLANGE_COUNT` up to 256) the free hand stays behind
   the last flange (`knpcFlange.c:272`, 310), and what aging frees is never used again.

9. `MCLogRoom.cfg`: a writer that finds the buffer full releases the latch (`smrLogBuffer.c:1439`) before it reads which block to
   wait for (1447-1448). When the flusher has written everything and closed the rear block in between, that is the new, empty rear
   block; the LSN it passes is `STL_INT64_MAX`, so `smrWaitFlusher` (2293) returns only when that block is on disk. The flusher
   has nothing to write (`SomethingToFlush`) and the writer's own log has no place yet: it sleeps until
   somebody else logs. `EveryFlushEnds` excepts a thread that stays so (`AwaitsEmptyBlock`), and no other.

Observations, met while modelling and without a run of their own:

- A request that timed out leaves its edges in the wait table (`smklManager.c:1715`); the next one to
  wait for its transaction sees a cycle and is made a victim. The `records` run has no timeouts.
- A wait on a dropped relation that fails by timeout (`smklManager.c:1768`) may leave a node in the
  transaction's own list; nodes in that list are below the level of `LockManager`.
- A pending buffer that wraps early jumps to its top before it has checked for room
  (`smrPendBuffer.c:140`); positions in the array are below the level of `LogBuffer`.
- A new block of a clock is linked behind the block of the free hand (`knpcClock.c:450`), where the comment above says
  in front of it; the model follows the code.
- The worker count of a request group is read in reverse order (`smklWaitGraph.c:181`), which shows
  with groups of different size: `MCSharedSizes.cfg` ends in a deadlock that nobody in it is told of. `shared` has
  groups of equal size (`ReadInOrder`).
- A group search that counted too few deadlocked successors still returns the verdict of the last one
  (`smklWaitGraph.c:231`). `MCSharedHalf.cfg` shows a victim of that: a session with a transaction is queued in a group of
  two servers, one of which waits for a second session and the other is free; the second session, served by the
  other group, waits for a row of the first, and is told that it is deadlocked, although the free server would take the
  request of the first. It happens also when the free server has just taken that request, with the edge still in the table and
  the queue empty (`ztss.c:489` before 86), or before the dispatcher has queued it (`ztimDispatcher.c:710` before
  717). `VictimIsStuck` therefore excepts a group that has the edge of a request and some of its servers stuck, but not all
  (`GroupIsHalfStuck`); with a queued request in place of the edge the property is false.
- Stale edges: `smklResetWaitSlot` clears the column of the slot before its intents are cleared
  (`smklManager.c:675-681`), and a scan that still sees the intent adds an edge after
  that (228), which outlives the transaction and points to the next one of the slot;
  `smklWaitTransLock` adds its edge (914) before it compares the transaction (939).
  The model has these steps too. `VictimIsStuck` of `SharedWait` therefore excepts the
  states with such an edge (`EdgeIsStale`).
- The page writer waits for the maximum LSN and, separately, the maximum SBSN of a batch
  (`smpManager.c:476-479`, also 801-805 and 2458-2461). They may belong to different pages, and then a
  page may be written before its log. The runs have one page per batch.
- `LOG_BUFFER_SIZE` at its minimum (`knlDef.h:1752`) equals the room kept for pending logs
  (`SML_PENDING_LOG_BUFFER_SIZE`, `smlDef.h:1770`): every writer waits for room for ever
  (`smrLogBuffer.c:1432`). `RoomAssumption` excludes it.
- `mMinTransViewScn` is loaded and published in two steps without a second look
  (`smaStmt.c:127-137`), and after a SERIALIZABLE statement it is not reset
  (`smaStmt.c:342`).
- `smxlGetAtomicSystemScn` stores an older SCN for a moment before it looks again, so one
  pass of the ager may go behind the last (`STL_DASSERT` at `smxlScnMgr.c:531`; the comment at
  `smaStmt.c:145` knows it).

The passing runs that check deadlocks are instances where these do not arise:
records have no intents and only X locks, so nobody passes a queue.

## 6. Not modelled, and the plan

PROJECT.json lists every component with its reason and every hazard with the
properties that cover it. Not modelled because there is no protocol to find: SQL, data types,
formatting, drivers and tools are sequential transformations, and they are most of the lines of the
repository; B-trees and pages are large data structures whose concurrency is that of latches. In order,
what is worth modelling next:

1. Undo relations (`smxlUndoRelation.c`): reuse of undo segments against `mAgableScn`, on top of
   `ScnManager`.
2. Log switching, archiving, checkpoint and restart (redo and undo of transactions) on top of `LogBuffer`, with the release of
   locks before the flush in `smxlFreeTrans`.
3. `Sequence` (`smq`), `Event` (`smgEvent`, `kneEvent`), XA branches.
4. Proofs: of the properties the runs check only liveness is left without a theorem. Next are
   results that no run states because they speak of any instance: that a wait in a queue misses an edge only when it was passed (finding 1 turned into a theorem), that
   what a statement rollback releases is exactly what it took, and, with `CrashSpec` of `PlanCache`, what
   survives a killed session.
