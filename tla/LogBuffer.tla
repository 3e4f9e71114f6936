------------------------------ MODULE LogBuffer ------------------------------
(***************************************************************************)
(* The redo log buffer of smrLogBuffer.c and the pending log buffers of    *)
(* smrPendBuffer.c: how a log gets its LSN and its place, how the buffer   *)
(* reaches the disk, how a commit waits for that (group commit), and what  *)
(* a crash leaves.                                                         *)
(*                                                                         *)
(* A log is its LSN and the blocks it occupies; blocks are numbered by     *)
(* SBSN.  Contents, log files and their switching, and the mirror are left *)
(* out; mBlockLogFlushing (online backup) is 0; commits are synchronous    *)
(* (SML_TRANSACTION_CWM_WAIT).  A latch is its owner: knaLatch.c hands no  *)
(* latch over, so whoever finds it free takes it.                          *)
(***************************************************************************)
EXTENDS Integers, Sequences, FiniteSets, FiniteSetsExt

CONSTANTS
  Trans,         \* threads that log and commit
  PageWriters,   \* threads that write dirty pages
  Flusher,       \* the log flusher of gmaster
  NoOne,         \* not a thread
  PendCount,     \* mPendBufferCount
  PendRoom,      \* logs that fit into one pending buffer
  Room,          \* mBufferBlockCount - sGuaranteeDis - 1
  WaitBlocks,    \* blocks a writer waits for when the buffer is full (1000/2)
  FlusherActive, \* smrIsLogFlusherActive
  Shapes,        \* ways a log may lie in the blocks, see Places
  MaxBatch,      \* bound on the pages of one write
  MaxLsn,        \* bound on mLsn
  MaxCrash       \* bound on crashes

Thread == Trans \cup PageWriters \cup {Flusher}
Pend   == 1 .. PendCount

InvalidSbsn == -1                            \* SMR_INVALID_SBSN
Unbounded   == -2                            \* STL_INT64_MAX, a block that no block reaches

ASSUME ConstantsAssumption ==
  /\ {PendCount, PendRoom, Room, MaxLsn, MaxCrash} \subseteq Nat
  /\ {WaitBlocks, MaxBatch} \subseteq Nat \ {0}
  /\ FlusherActive \in BOOLEAN
  /\ NoOne \notin Thread /\ Flusher \notin Trans \cup PageWriters
  /\ Trans \cap PageWriters = {}

\* A writer that finds the buffer full waits until WaitBlocks blocks are written,
\* so that many must be below the rear block of a full buffer.
ASSUME RoomAssumption == WaitBlocks + 2 <= Room

VARIABLES
  lsn,          \* mLsn, the LSN of the next log
  buffer,       \* the logs of the log buffer: [lsn, first, last]
  rearLsn, rearSbsn,
  frontLsn, frontSbsn,
  bufferLatch,  \* owner of mBufferLatch
  flushWaiter,  \* its waiter with mForLogFlush, which is at the head of its list
  groupLsn,     \* mGroupCommitLsn
  fileLatch,    \* owner of mFileLatch
  pend,         \* published logs of each pending buffer, oldest first
  pendLatch,    \* owner of the latch of each pending buffer
  awaited,      \* smrWaitPendingLog: pending buffers not yet looked at
  cursor,       \* smrPendLogCursor: logs of each pending buffer still to apply
  disk,         \* LSNs that the last restart found in the log files
  dirty,        \* recovery LSN and SBSN of the dirty pages
  crashes,
  call          \* what each thread is doing

logVars   == <<lsn, buffer, rearLsn, rearSbsn>>
frontVars == <<frontLsn, frontSbsn>>
pendVars  == <<pend, pendLatch, awaited, cursor>>
worldVars == <<disk, dirty, crashes>>
vars == <<logVars, frontVars, bufferLatch, flushWaiter, groupLsn, fileLatch, pendVars,
          worldVars, call>>

\* A thread between two calls.  pc: where it is; op: for whom it works; my, hint: LSN
\* and SBSN of its log or pages; goal, till: aLsn and sLastSbsn of smrFlushLog; skip:
\* sSkipFlush; then: where it goes on after it has waited or written to disk.
Free == [pc |-> "idle", op |-> "log", my |-> 0, hint |-> InvalidSbsn, goal |-> 0,
         till |-> InvalidSbsn, skip |-> FALSE, then |-> "idle"]

Init ==
  /\ lsn = 1 /\ buffer = {} /\ rearLsn = 0 /\ rearSbsn = 0
  /\ frontLsn = 0 /\ frontSbsn = -1
  /\ bufferLatch = NoOne /\ flushWaiter = NoOne /\ groupLsn = 0 /\ fileLatch = NoOne
  /\ pend = [p \in Pend |-> << >>]
  /\ pendLatch = [p \in Pend |-> NoOne]
  /\ awaited = {} /\ cursor = [p \in Pend |-> 0]
  /\ disk = {} /\ dirty = {} /\ crashes = 0
  /\ call = [t \in Thread |-> Free]

-----------------------------------------------------------------------------
(* Blocks, latches, calls *)

\* mBlockOffset > SMR_BLOCK_HDR_SIZE: something is written in the rear block.
RearUsed == \E r \in buffer : r.last = rearSbsn

\* SMR_BUFFER_BLOCK_SWITCH
SwitchedRear == IF RearUsed THEN rearSbsn + 1 ELSE rearSbsn

\* The places a log may take: what is left of the rear block, the next block when
\* not even its header fits, or both (a chained log).
Places(l) ==
  {r \in [lsn : {l}, first : {rearSbsn, rearSbsn + 1}, last : {rearSbsn, rearSbsn + 1}] :
     \/ "rear" \in Shapes /\ r.last = rearSbsn /\ r.first = rearSbsn
     \/ "next" \in Shapes /\ r.first = rearSbsn + 1 /\ r.last = rearSbsn + 1 /\ RearUsed
     \/ "chained" \in Shapes /\ r.first = rearSbsn /\ r.last = rearSbsn + 1}

\* Is there no room between the block a log ends in and the front?
Full(r) == r.last - frontSbsn >= Room

\* smrWriteLogToBlock, piece by piece; rearSbsn follows.
WriteLog(r) == buffer' = buffer \cup {r} /\ rearLsn' = r.lsn

\* (mutant) the log that goes on in the next block counts.
HeaderLsnOfAnyLog(b) ==
  (CHOOSE r \in buffer : /\ r.first <= b /\ b <= r.last
                         /\ \A q \in buffer : q.first <= b => q.lsn <= r.lsn).lsn

\* The LSN mFrontLsn takes from the header of block b: that of its last log, or the
\* one before when that log goes on in the next block.
HeaderLsn(b) ==
  LET last == CHOOSE r \in buffer : /\ r.first <= b /\ b <= r.last
                                    /\ \A q \in buffer : q.first <= b => q.lsn <= r.lsn
  IN  IF last.last > b THEN last.lsn - 1 ELSE last.lsn


At(t, s)     == call[t].pc = s
Become(t, c) == call' = [call EXCEPT ![t] = c]
Goto(t, s)   == Become(t, [call[t] EXCEPT !.pc = s])

\* (mutant) nobody is woken.
ReleaseBufferSilently == bufferLatch' = NoOne /\ UNCHANGED flushWaiter

\* knlReleaseLatch on mBufferLatch wakes the waiter at the head of the list: the one
\* that waits to flush, or the flusher, whose priority also puts it first.
ReleaseBuffer ==
  /\ bufferLatch' = NoOne
  /\ \/ flushWaiter' = NoOne
     \/ call[Flusher].pc \in {"all", "reclose"} /\ UNCHANGED flushWaiter

\* A wait or a write to disk is over: the call ends, or starts again at "then".
GoOn(t) ==
  LET c == call[t] IN
  Become(t, IF c.then = "flush"
            THEN [Free EXCEPT !.pc = "flush", !.op = c.op, !.my = c.my, !.hint = c.hint,
                              !.goal = c.goal]
            ELSE [Free EXCEPT !.pc = c.then, !.op = IF c.then = "try" THEN c.op ELSE "log"])

\* The buffer is full: the latch is released, and once there is room everything starts
\* again at s.
LeaveForRoom(t, s) == Become(t, [call[t] EXCEPT !.pc = "room", !.then = s])

\* A write is over: a commit goes on to flush, an update leaves a dirty page.
Written(t, sbsn) ==
  LET c == call[t] IN
  IF c.op = "commit"
  THEN /\ Become(t, [c EXCEPT !.pc = "flush", !.hint = sbsn, !.goal = c.my])
       /\ UNCHANGED worldVars
  ELSE /\ Become(t, Free)
       /\ dirty' = IF PageWriters = {} THEN dirty
                   ELSE dirty \cup {[lsn |-> c.my, sbsn |-> sbsn]}
       /\ UNCHANGED <<disk, crashes>>

-----------------------------------------------------------------------------
(* smrWriteStreamLog *)

\* With pending buffers the buffer latch is only tried; without, it is waited for.
TryBufferLatch(t, o) ==
  /\ \/ At(t, "idle") /\ lsn <= MaxLsn
     \/ At(t, "try") /\ o = call[t].op
  /\ \/ /\ bufferLatch = NoOne /\ bufferLatch' = t
        /\ Become(t, [Free EXCEPT !.pc = "stamp", !.op = o])
     \/ /\ bufferLatch # NoOne /\ UNCHANGED bufferLatch
        /\ Become(t, [Free EXCEPT !.pc = IF PendCount > 0 THEN "pend" ELSE "latch", !.op = o])
  /\ UNCHANGED <<logVars, frontVars, flushWaiter, groupLsn, fileLatch, pendVars, worldVars>>

AcquireBufferLatch(t) ==
  /\ At(t, "latch") /\ bufferLatch = NoOne
  /\ bufferLatch' = t /\ Goto(t, "stamp")
  /\ UNCHANGED <<logVars, frontVars, flushWaiter, groupLsn, fileLatch, pendVars, worldVars>>

Usable(p) == pendLatch[p] = NoOne /\ Len(pend[p]) < PendRoom

\* (mutant) mLsn is read but not incremented.
BeginPendingLogStale(t) ==
  /\ At(t, "pend")
  /\ \E p \in Pend : Usable(p) /\ pendLatch' = [pendLatch EXCEPT ![p] = t]
  /\ Become(t, [call[t] EXCEPT !.pc = "publish", !.my = lsn])
  /\ UNCHANGED <<logVars, frontVars, bufferLatch, flushWaiter, groupLsn,
                 fileLatch, pend, awaited, cursor, worldVars>>

\* smrWritePendingLog: the first pending buffer whose latch is free and that has
\* room; the LSN is taken under its latch.
BeginPendingLog(t) ==
  /\ At(t, "pend")
  /\ \/ /\ \E p \in Pend : /\ Usable(p) /\ \A q \in Pend : q < p => ~Usable(q)
                           /\ pendLatch' = [pendLatch EXCEPT ![p] = t]
        /\ lsn' = lsn + 1
        /\ Become(t, [call[t] EXCEPT !.pc = "publish", !.my = lsn])
     \/ /\ \A p \in Pend : ~Usable(p)
        /\ Goto(t, "latch")
        /\ UNCHANGED <<lsn, pendLatch>>
  /\ UNCHANGED <<buffer, rearLsn, rearSbsn, frontVars, bufferLatch, flushWaiter, groupLsn,
                 fileLatch, pend, awaited, cursor, worldVars>>

\* The log is copied, mRearPbsn moves past it and the latch is released.
PublishPendingLog(t) ==
  /\ At(t, "publish")
  /\ \E p \in Pend : /\ pendLatch[p] = t
                     /\ pend' = [pend EXCEPT ![p] = Append(@, call[t].my)]
                     /\ pendLatch' = [pendLatch EXCEPT ![p] = NoOne]
  /\ Written(t, InvalidSbsn)
  /\ UNCHANGED <<logVars, frontVars, bufferLatch, flushWaiter, groupLsn, fileLatch,
                 awaited, cursor>>

\* (mutant) logs still pending are left where they are.
TakeLsnAtOnce(t) ==
  /\ At(t, "stamp")
  /\ lsn' = lsn + 1
  /\ Become(t, [call[t] EXCEPT !.pc = "put", !.my = lsn])
  /\ UNCHANGED <<buffer, rearLsn, rearSbsn, frontVars, bufferLatch, flushWaiter, groupLsn,
                 fileLatch, pendVars, worldVars>>

\* The owner of the buffer latch takes its LSN, and first applies pending logs when
\* it has not got the LSN after the last one in the buffer.
TakeLsn(t) ==
  /\ At(t, "stamp")
  /\ lsn' = lsn + 1
  /\ IF PendCount > 0 /\ lsn # rearLsn + 1
     THEN Become(t, [call[t] EXCEPT !.pc = "writeWait", !.my = lsn]) /\ awaited' = Pend
     ELSE Become(t, [call[t] EXCEPT !.pc = "put", !.my = lsn]) /\ UNCHANGED awaited
  /\ UNCHANGED <<buffer, rearLsn, rearSbsn, frontVars, bufferLatch, flushWaiter, groupLsn,
                 fileLatch, pend, pendLatch, cursor, worldVars>>

\* smrWriteStreamLogInternal for the thread's own log, and the release.
PutLog(t) ==
  /\ At(t, "put")
  /\ \E r \in Places(call[t].my) :
       \/ /\ ~Full(r)
          /\ WriteLog(r)
          /\ rearSbsn' = IF call[t].op = "commit" THEN r.last + 1 ELSE r.last
          /\ Written(t, r.last)
       \/ /\ Full(r)
          /\ LeaveForRoom(t, "try")
          /\ UNCHANGED <<buffer, rearLsn, rearSbsn, worldVars>>
  /\ ReleaseBuffer
  /\ UNCHANGED <<lsn, frontVars, groupLsn, fileLatch, pendVars>>

-----------------------------------------------------------------------------
(* smrWaitPendingLog and smrApplyPendingLogs, by the owner of the buffer latch *)

Writing(t) == call[t].pc \in {"writeWait", "writeApply"}

EndLsn(t) == IF Writing(t) THEN call[t].my - 1 ELSE call[t].goal

\* (mutant) a log that is just being copied into a pending buffer is not waited for.
WaitNotAtAll(t) ==
  /\ call[t].pc \in {"writeWait", "flushWait"}
  /\ cursor' = [p \in Pend |-> Len(pend[p])]
  /\ Goto(t, IF Writing(t) THEN "writeApply" ELSE "flushApply")
  /\ UNCHANGED <<logVars, frontVars, bufferLatch, flushWaiter, groupLsn, fileLatch, pend,
                 pendLatch, awaited, worldVars>>

\* A pending buffer whose latch is held is waited for; when all have been looked
\* at, the cursor is set to what is published.
WaitPendingLog(t) ==
  /\ call[t].pc \in {"writeWait", "flushWait"}
  /\ \/ /\ \E p \in awaited : pendLatch[p] = NoOne /\ awaited' = awaited \ {p}
        /\ UNCHANGED <<cursor, call>>
     \/ /\ awaited = {}
        /\ cursor' = [p \in Pend |-> Len(pend[p])]
        /\ Goto(t, IF Writing(t) THEN "writeApply" ELSE "flushApply")
        /\ UNCHANGED awaited
  /\ UNCHANGED <<logVars, frontVars, bufferLatch, flushWaiter, groupLsn, fileLatch, pend,
                 pendLatch, worldVars>>

\* smrReadPendingLog: the pending buffers that have a log for the cursor, and the
\* one whose log is the oldest.
Readable(t) == {p \in Pend : cursor[p] > 0 /\ Head(pend[p]) <= EndLsn(t)}

\* (mutant) the first pending buffer instead of the oldest log.
FirstReadable(t, p) == p \in Readable(t) /\ \A q \in Readable(t) : p <= q

Oldest(t, p) == p \in Readable(t) /\ \A q \in Readable(t) : Head(pend[p]) <= Head(pend[q])

\* Into the buffer; or, when that is full, the cursor is given up (what it has read is
\* gone from the pending buffer) and the caller retries.
ApplyPendingLog(t) ==
  /\ call[t].pc \in {"writeApply", "flushApply"}
  /\ \E p \in Pend : Oldest(t, p) /\ \E r \in Places(Head(pend[p])) :
       \/ /\ ~Full(r)
          /\ WriteLog(r) /\ rearSbsn' = r.last
          /\ pend' = [pend EXCEPT ![p] = Tail(@)]
          /\ cursor' = [cursor EXCEPT ![p] = @ - 1]
          /\ Become(t, IF Writing(t) THEN call[t] ELSE [call[t] EXCEPT !.till = r.last])
          /\ UNCHANGED <<bufferLatch, flushWaiter>>
       \/ /\ Full(r)
          /\ ReleaseBuffer
          /\ cursor' = [q \in Pend |-> 0]
          /\ IF t = Flusher THEN Goto(t, "reclose")
             ELSE LeaveForRoom(t, IF Writing(t) THEN "try" ELSE "flush")
          /\ UNCHANGED <<buffer, rearLsn, rearSbsn, pend>>
  /\ UNCHANGED <<lsn, frontVars, groupLsn, fileLatch, pendLatch, awaited, worldVars>>

PendingLogsApplied(t) ==
  /\ call[t].pc \in {"writeApply", "flushApply"} /\ Readable(t) = {}
  /\ cursor' = [q \in Pend |-> 0]
  /\ Goto(t, IF Writing(t) THEN "put" ELSE "close")
  /\ UNCHANGED <<logVars, frontVars, bufferLatch, flushWaiter, groupLsn, fileLatch, pend,
                 pendLatch, awaited, worldVars>>

-----------------------------------------------------------------------------
(* smrFlushLog *)

\* A page writer collects dirty pages and asks for their newest LSN and SBSN.
CollectPages(t) ==
  /\ At(t, "idle")
  /\ \E B \in SUBSET dirty :
       /\ B # {} /\ Cardinality(B) <= MaxBatch
       /\ LET newest == Max({d.lsn : d \in B}) IN
            Become(t, [Free EXCEPT !.pc = "flush", !.op = "page", !.my = newest,
                                   !.goal = newest, !.hint = Max({d.sbsn : d \in B})])
       /\ dirty' = dirty \ B
  /\ UNCHANGED <<logVars, frontVars, bufferLatch, flushWaiter, groupLsn, fileLatch, pendVars,
                 disk, crashes>>

\* Nothing to do; or the block of the log is known to be switched; or the buffer
\* latch is needed.
BeginFlush(t) ==
  LET c == call[t] IN
  /\ At(t, "flush")
  /\ \/ frontLsn >= c.goal /\ Become(t, Free)
     \/ frontLsn < c.goal /\ IF c.op = "commit" /\ c.hint # InvalidSbsn
                             THEN Become(t, [c EXCEPT !.pc = "io", !.till = c.hint])
                             ELSE Goto(t, "join")
  /\ UNCHANGED <<logVars, frontVars, bufferLatch, flushWaiter, groupLsn, fileLatch, pendVars,
                 worldVars>>

\* smrAcquireLatchOrJoinGroup: take the free latch and drive the group; or queue for
\* it and drive the group later; or leave everything to the thread that queues.
JoinGroup(t) ==
  LET newest == Max({groupLsn, call[t].goal}) IN
  /\ \/ At(t, "join")
     \/ At(t, "queued") /\ flushWaiter # t
  /\ groupLsn' = newest
  /\ \/ /\ bufferLatch = NoOne
        /\ bufferLatch' = t
        /\ Become(t, [call[t] EXCEPT !.pc = "group", !.goal = newest])
        /\ UNCHANGED flushWaiter
     \/ /\ bufferLatch # NoOne /\ flushWaiter = NoOne
        /\ flushWaiter' = t /\ Goto(t, "queued")
        /\ UNCHANGED bufferLatch
     \/ /\ bufferLatch # NoOne /\ flushWaiter # NoOne
        /\ Become(t, [call[t] EXCEPT !.pc = "io", !.skip = TRUE, !.till = Unbounded])
        /\ UNCHANGED <<bufferLatch, flushWaiter>>
  /\ UNCHANGED <<logVars, frontVars, fileLatch, pendVars, worldVars>>

\* The driver, with the latch, looks again, and waits for logs that are being
\* written if its LSN is not in the buffer.
DriveGroup(t) ==
  LET c == call[t] IN
  /\ At(t, "group")
  /\ \/ /\ frontLsn >= c.goal
        /\ ReleaseBuffer /\ Become(t, Free)
        /\ UNCHANGED awaited
     \/ /\ frontLsn < c.goal
        /\ Become(t, [c EXCEPT !.pc = "flushWait", !.till = c.hint])
        /\ awaited' = IF c.goal > rearLsn THEN Pend ELSE {}
        /\ UNCHANGED <<bufferLatch, flushWaiter>>
  /\ UNCHANGED <<logVars, frontVars, groupLsn, fileLatch, pend, pendLatch, cursor, worldVars>>

\* (mutant) the rear block is not switched when the last log is known to be in it.
CloseBlockOfNoHint(t) ==
  LET next == IF t = Flusher THEN "self" ELSE "io" IN
  /\ At(t, "close")
  /\ IF call[t].till = InvalidSbsn
     THEN /\ rearSbsn' = SwitchedRear
          /\ Become(t, [call[t] EXCEPT !.pc = next, !.till = SwitchedRear - 1])
     ELSE UNCHANGED rearSbsn /\ Goto(t, next)
  /\ ReleaseBuffer
  /\ UNCHANGED <<lsn, buffer, rearLsn, frontVars, groupLsn, fileLatch, pendVars, worldVars>>

\* When the last log to flush may be in the rear block, that block is switched.
CloseBlock(t) ==
  LET next == IF t = Flusher THEN "self" ELSE "io" IN
  /\ At(t, "close")
  /\ IF call[t].till \in {rearSbsn, InvalidSbsn}
     THEN /\ rearSbsn' = SwitchedRear
          /\ Become(t, [call[t] EXCEPT !.pc = next, !.till = SwitchedRear - 1])
     ELSE UNCHANGED rearSbsn /\ Goto(t, next)
  /\ ReleaseBuffer
  /\ UNCHANGED <<lsn, buffer, rearLsn, frontVars, groupLsn, fileLatch, pendVars, worldVars>>

-----------------------------------------------------------------------------
(* Writing to disk *)

\* Is block b at or behind target?
Reaches(b, target) == target # Unbounded /\ b >= target

\* (mutant) the rear block is written, too.
BelowOrRear(target) == IF Reaches(rearSbsn - 1, target) THEN target ELSE rearSbsn

\* smrFlushBufferInternal, before it writes: never the rear block.
Below(target) == IF Reaches(rearSbsn - 1, target) THEN target ELSE rearSbsn - 1

StartDisk(t) ==
  LET last == Below(call[t].till) IN
  \/ last <= frontSbsn /\ GoOn(t) /\ UNCHANGED fileLatch
  \/ /\ last > frontSbsn
     /\ fileLatch' = t
     /\ Become(t, [call[t] EXCEPT !.pc = "disk", !.till = last])

\* smrFlushBufferByTrans: write if the file latch is free, else leave it to others.
FlushByTrans(t) ==
  /\ At(t, "io")
  /\ \/ fileLatch = NoOne /\ StartDisk(t)
     \/ /\ fileLatch # NoOne
        /\ Goto(t, IF FlusherActive THEN "wait" ELSE "self")
        /\ UNCHANGED fileLatch
  /\ UNCHANGED <<logVars, frontVars, bufferLatch, flushWaiter, groupLsn, pendVars, worldVars>>

\* smrFlushBuffer: wait for the file latch.
FlushBuffer(t) ==
  /\ At(t, "self")
  /\ \/ Reaches(frontSbsn, call[t].till) /\ GoOn(t) /\ UNCHANGED fileLatch
     \/ ~Reaches(frontSbsn, call[t].till) /\ fileLatch = NoOne /\ StartDisk(t)
  /\ UNCHANGED <<logVars, frontVars, bufferLatch, flushWaiter, groupLsn, pendVars, worldVars>>

\* smrWriteBufferBlocks has written: the front moves, the waiters find out.
EndDisk(t) ==
  /\ At(t, "disk")
  /\ frontSbsn' = call[t].till /\ frontLsn' = HeaderLsn(call[t].till)
  /\ fileLatch' = NoOne
  /\ GoOn(t)
  /\ UNCHANGED <<logVars, bufferLatch, flushWaiter, groupLsn, pendVars, worldVars>>

\* The buffer was full and its latch has been released: the SBSN to wait for comes from a
\* front and a rear block that others may have moved since.
WaitForRoom(t) ==
  /\ At(t, "room")
  /\ Become(t, [call[t] EXCEPT !.pc = IF FlusherActive THEN "wait" ELSE "self",
                               !.till = Min({frontSbsn + WaitBlocks, rearSbsn})])
  /\ UNCHANGED <<logVars, frontVars, bufferLatch, flushWaiter, groupLsn, fileLatch, pendVars,
                 worldVars>>

\* smrWaitFlusher: either condition ends the wait; a wait for room has no LSN.
EndWait(t) ==
  /\ At(t, "wait")
  /\ \/ Reaches(frontSbsn, call[t].till)
     \/ call[t].then = "idle" /\ frontLsn >= call[t].goal
  /\ GoOn(t)
  /\ UNCHANGED <<logVars, frontVars, bufferLatch, flushWaiter, groupLsn, fileLatch, pendVars,
                 worldVars>>

-----------------------------------------------------------------------------
(* The log flusher: ztmtLogFlush *)

SomethingToFlush == frontLsn + 1 < lsn \/ frontSbsn + 1 < rearSbsn

\* smrFlushStreamLogForFlusher
FlushStreamLog ==
  /\ FlusherActive /\ At(Flusher, "idle") /\ SomethingToFlush
  /\ fileLatch = NoOne /\ rearSbsn - 1 > frontSbsn
  /\ fileLatch' = Flusher
  /\ Become(Flusher, [Free EXCEPT !.pc = "disk", !.till = rearSbsn - 1])
  /\ UNCHANGED <<logVars, frontVars, bufferLatch, flushWaiter, groupLsn, pendVars, worldVars>>

\* smrFlushAllLogs, when nothing has moved for LOG_SYNC_INTERVAL: the buffer latch is
\* taken and what every LSN given out so far stands for is applied and written.
BeginFlushAll ==
  /\ FlusherActive /\ At(Flusher, "idle") /\ SomethingToFlush
  /\ Goto(Flusher, "all")
  /\ UNCHANGED <<logVars, frontVars, bufferLatch, flushWaiter, groupLsn, fileLatch, pendVars,
                 worldVars>>

FlushAllLogs ==
  /\ At(Flusher, "all")
  /\ bufferLatch = NoOne /\ bufferLatch' = Flusher
  /\ Become(Flusher, [Free EXCEPT !.pc = "flushWait", !.till = rearSbsn, !.goal = lsn - 1])
  /\ awaited' = Pend
  /\ UNCHANGED <<logVars, frontVars, flushWaiter, groupLsn, fileLatch, pend, pendLatch, cursor,
                 worldVars>>

\* The buffer was full: what has been applied is written, then all starts again.
ReacquireForClose ==
  /\ At(Flusher, "reclose") /\ bufferLatch = NoOne
  /\ bufferLatch' = Flusher
  /\ Become(Flusher, [call[Flusher] EXCEPT !.pc = "close", !.then = "all"])
  /\ UNCHANGED <<logVars, frontVars, flushWaiter, groupLsn, fileLatch, pendVars, worldVars>>

-----------------------------------------------------------------------------
(* Crash and restart *)

\* (mutant) the last write was not forced to disk.
LastBlocksUnsynced == frontSbsn - 1 .. frontSbsn

\* Blocks of the log buffer that a crash may leave in the log file: a write that has
\* begun may have got any way.
LastBlocks == frontSbsn .. Max({frontSbsn} \cup {call[t].till : t \in {u \in Thread : At(u, "disk")}})

Whole(b) == {r.lsn : r \in {q \in buffer : q.last <= b}}

\* A log of which only the first block is found is cleared (smrClearPartialLog); it
\* keeps its LSN, as a dummy, when nothing else is in that block.
Partial(b) == {r \in buffer : r.first <= b /\ b < r.last}
Alone(r)   == \A q \in buffer : q # r => q.last # r.first

RestartLsn(b) ==
  IF Partial(b) = {}
  THEN Max({0} \cup disk \cup Whole(b)) + 1
  ELSE LET r == CHOOSE q \in Partial(b) : TRUE IN IF Alone(r) THEN r.lsn + 1 ELSE r.lsn

CrashAndRestart ==
  /\ crashes < MaxCrash /\ crashes' = crashes + 1
  /\ \E b \in LastBlocks :
       /\ disk' = disk \cup Whole(b)
       /\ lsn' = RestartLsn(b)
       /\ rearLsn' = RestartLsn(b) - 1 /\ frontLsn' = RestartLsn(b) - 1
  /\ buffer' = {} /\ rearSbsn' = 0 /\ frontSbsn' = -1
  /\ bufferLatch' = NoOne /\ flushWaiter' = NoOne /\ groupLsn' = 0 /\ fileLatch' = NoOne
  /\ pend' = [p \in Pend |-> << >>] /\ pendLatch' = [p \in Pend |-> NoOne]
  /\ awaited' = {} /\ cursor' = [p \in Pend |-> 0]
  /\ dirty' = {}
  /\ call' = [t \in Thread |-> Free]

-----------------------------------------------------------------------------
Write(t) ==
  \/ \E o \in {"log", "commit"} : TryBufferLatch(t, o)
  \/ AcquireBufferLatch(t) \/ BeginPendingLog(t) \/ PublishPendingLog(t)
  \/ TakeLsn(t) \/ PutLog(t)

Apply(t) == WaitPendingLog(t) \/ ApplyPendingLog(t) \/ PendingLogsApplied(t)

Flush(t) == \/ BeginFlush(t) \/ JoinGroup(t) \/ DriveGroup(t) \/ FlushByTrans(t)
            \/ WaitForRoom(t) \/ EndWait(t)

Disk(t) == CloseBlock(t) \/ FlushBuffer(t) \/ EndDisk(t)

Next ==
  \/ \E t \in Trans : Write(t)
  \/ \E t \in PageWriters : CollectPages(t)
  \/ \E t \in Trans \cup PageWriters : Flush(t)
  \/ \E t \in Thread : Apply(t) \/ Disk(t)
  \/ FlushStreamLog \/ BeginFlushAll \/ FlushAllLogs \/ ReacquireForClose
  \/ CrashAndRestart

Spec == Init /\ [][Next]_vars

\* Every thread that can go on does, and so does the flusher; a new call or a
\* crash need not come.  Latches are not handed over, but with MaxLsn and MaxCrash all
\* but the flusher take them finitely often; the flusher, which may take the buffer latch
\* for ever, lets LOG_SYNC_INTERVAL pass in between, and a waiter gets it then.
Busy(t) == ~At(t, "idle") /\ (Write(t) \/ Flush(t) \/ Apply(t) \/ Disk(t))

FairSpec ==
  /\ Spec
  /\ \A t \in Trans \cup PageWriters :
       WF_vars(Busy(t)) /\ SF_vars(JoinGroup(t) /\ bufferLatch = NoOne)
  /\ WF_vars(Apply(Flusher) \/ Disk(Flusher) \/ ReacquireForClose)
  /\ WF_vars(FlushStreamLog) /\ WF_vars(BeginFlushAll) /\ WF_vars(FlushAllLogs)
-----------------------------------------------------------------------------
(* Properties *)

\* LSNs of logs in the pending buffers, published or not yet.
Published == UNION {{pend[p][i] : i \in 1 .. Len(pend[p])} : p \in Pend}
Pending   == Published \cup {call[t].my : t \in {u \in Thread : At(u, "publish")}}

\* What a crash cannot take away, and every complete log.
Durable == disk \cup Whole(frontSbsn)
Logged  == disk \cup {r.lsn : r \in buffer} \cup Published

Label == {"idle", "try", "pend", "publish", "latch", "stamp", "writeWait", "writeApply",
          "put", "flush", "join", "queued", "group", "flushWait", "flushApply", "close",
          "io", "disk", "room", "wait", "self", "all", "reclose"}

\* TypeOK: each variable has its type.
TypeOK ==
  /\ lsn \in Nat /\ {rearLsn, frontLsn, groupLsn} \subseteq 0 .. lsn - 1
  /\ buffer \subseteq [lsn : 1 .. lsn - 1, first : Nat, last : Nat]
  /\ rearSbsn \in Nat /\ frontSbsn \in Nat \cup {-1}
  /\ {bufferLatch, flushWaiter, fileLatch} \subseteq Thread \cup {NoOne}
  /\ pend \in [Pend -> Seq(1 .. lsn - 1)] /\ cursor \in [Pend -> Nat]
  /\ pendLatch \in [Pend -> Thread \cup {NoOne}] /\ awaited \subseteq Pend
  /\ disk \subseteq 1 .. lsn - 1 /\ crashes \in Nat
  /\ dirty \subseteq [lsn : 1 .. lsn - 1, sbsn : Nat \cup {InvalidSbsn}]
  /\ call \in [Thread -> [pc : Label, op : {"log", "commit", "page"}, my : 0 .. lsn - 1,
                           hint : Nat \cup {InvalidSbsn}, goal : 0 .. lsn - 1,
                           till : Nat \cup {InvalidSbsn, Unbounded}, skip : BOOLEAN,
                           then : {"idle", "try", "flush", "all"}]]

\* PendingIsNewer: whatever waits in a pending buffer, or is being copied into one, has
\* a newer LSN than every log of the log buffer, and each pending buffer is in LSN
\* order: why smrApplyPendingLogs can merge the buffers by looking at their heads.
PendingIsNewer ==
  /\ \A l \in Pending : l > rearLsn
  /\ \A p \in Pend : \A i, j \in 1 .. Len(pend[p]) : i < j => pend[p][i] < pend[p][j]

\* FrontLsnIsDurable: mFrontLsn, which ends the wait of a commit, stands for every log
\* up to it: none is in a block not yet written, and none is still pending.
FrontLsnIsDurable ==
  /\ \A r \in buffer : r.lsn <= frontLsn => r.last <= frontSbsn
  /\ \A l \in Pending : l > frontLsn

\* FrontBelowRear: the rear block, which is still written to, never reaches the disk
\* (STL_DASSERT, smrLogBuffer.c:2194), and the rear never comes round to the front
\* (STL_DASSERT, smrLogBuffer.c:1386).
FrontBelowRear == frontSbsn < rearSbsn /\ rearSbsn - frontSbsn <= Room + 1

\* LsnOrder: logs enter the log buffer in the order of their LSN (KNL_ASSERT,
\* smrLogBuffer.c:1470), though LSNs are given out under several latches.
LsnOrder == [][\A r \in buffer' \ buffer : r.lsn > rearLsn]_vars

\* Thread t returns from smrFlushLog: a commit reports success, or pages are written.
Returns(t) ==
  /\ call[t].op # "log" /\ call[t].pc \in {"flush", "group", "io", "self", "disk", "wait"}
  /\ call'[t].pc = "idle" /\ crashes' = crashes

\* A member of a group that wrote to disk itself did not wait for the group.
WroteItself(t) == call[t].skip /\ ~At(t, "wait")

\* FlushIsDurable: when a flush returns, the log it was called for is on disk, unless
\* the caller is a group member that wrote to disk itself (see EveryFlushIsDurable).
FlushIsDurable ==
  [][\A t \in Trans \cup PageWriters : Returns(t) /\ ~WroteItself(t) => call[t].my \in Durable']_vars

\* EveryFlushIsDurable: the same of every flush, as the comment at smrLogBuffer.c:1541
\* has it.
EveryFlushIsDurable ==
  [][\A t \in Trans \cup PageWriters : Returns(t) => call[t].my \in Durable']_vars

\* ImplementsRedoLog: with the pending and the buffered logs as one log, whose written
\* blocks are stable, every step is one of RedoLog: no log is missed when the disk goes
\* past its LSN, and a restart finds all before the last log it finds.
Redo == INSTANCE RedoLog WITH log <- Logged, stable <- Durable
ImplementsRedoLog == Redo!Spec

\* The block a thread chose to wait for when it had released the latch is the empty rear
\* block, and every log is on disk: only the next log of somebody else wakes it.
AwaitsEmptyBlock(t) ==
  /\ At(t, "wait") /\ call[t].then # "idle" /\ call[t].till = rearSbsn
  /\ frontSbsn = rearSbsn - 1 /\ ~RearUsed /\ Published = {}

\* EveryFlushEnds: a commit or a page writer does not wait for the disk for ever, with
\* the log flusher or without it, whoever drives its group and however often the buffer
\* is full, unless it waits for room and from then on there is nothing left to write.
EveryFlushEnds ==
  \A t \in Trans \cup PageWriters :
    At(t, "flush") ~> (At(t, "idle") \/ []AwaitsEmptyBlock(t))

\* EveryFlushReturns: the same without the exception; it does not hold (MCLogRoom.cfg).
EveryFlushReturns ==
  \A t \in Trans \cup PageWriters : At(t, "flush") ~> At(t, "idle")
=============================================================================
