-------------------------------- MODULE Latch --------------------------------
(***************************************************************************)
(* A latch of knaLatch.c and a condition variable of knnCondVar.c.  Both   *)
(* put the wait item of a thread into a list and let it sleep on the one   *)
(* semaphore of that item; whoever takes the item out of the list releases *)
(* the semaphore, and the thread may time out at the same moment.  What is *)
(* done under the spin lock of a latch or of a condition variable is one   *)
(* action.                                                                 *)
(***************************************************************************)
EXTENDS Naturals, Sequences, FiniteSets, SequencesExt

CONSTANTS
  Thread,
  SharedEnv,   \* threads with a shared environment: their latches know them
  NoOne,       \* not a thread
  Kinds,       \* ways to ask: "wait", "try", "once" (aRetryCount 1), "timed"
  ExclWakeup,  \* aExclWakeupCount
  SharedWakeup,\* KNA_MAX_LATCH_WAKEUP_COUNT
  MaxCalls     \* bound on the calls of each thread

ASSUME ConstantsAssumption ==
  /\ IsFiniteSet(Thread)
  /\ NoOne \notin Thread /\ SharedEnv \subseteq Thread
  /\ Kinds \subseteq {"wait", "try", "once", "timed"}
  /\ {ExclWakeup, SharedWakeup} \subseteq Nat \ {0} /\ MaxCalls \in [Thread -> Nat]

VARIABLES
  mode,      \* mCurMode: "INIT", "S" or "X"
  refCount,  \* mRefCount
  exclOwner, \* mExclOwner
  waiters,   \* mWaiters of the latch
  sleepers,  \* mWaiters of the condition variable, whose order does not matter
  sem,       \* value of the semaphore of each wait item
  pc,        \* what a thread is doing
  ask,       \* mode, kind and priority a thread has asked for
  held,      \* how often a thread has got the latch
  calls,     \* bounds the calls of a thread
  swallowed  \* history: a wake-up from the latch went to a waiter that had timed out

latchVars == <<mode, refCount, exclOwner, held>>
vars == <<latchVars, waiters, sleepers, sem, pc, ask, calls, swallowed>>

NoAsk == [mode |-> "S", kind |-> "wait", high |-> FALSE]

Init ==
  /\ mode = "INIT" /\ refCount = 0 /\ exclOwner = NoOne
  /\ waiters = << >> /\ sleepers = {}
  /\ sem = [t \in Thread |-> 0]
  /\ pc = [t \in Thread |-> "idle"]
  /\ ask = [t \in Thread |-> NoAsk]
  /\ held = [t \in Thread |-> 0]
  /\ calls = [t \in Thread |-> 0]
  /\ swallowed = FALSE

Goto(t, s) == pc' = [pc EXCEPT ![t] = s] /\ UNCHANGED ask

Return(t) == pc' = [pc EXCEPT ![t] = "idle"] /\ ask' = [ask EXCEPT ![t] = NoAsk]

Call(t) ==
  /\ pc[t] = "idle" /\ calls[t] < MaxCalls[t]
  /\ calls' = [calls EXCEPT ![t] = @ + 1]

-----------------------------------------------------------------------------
(* knaAcquireLatchInternal *)

\* A thread asks again for a latch it holds only where that is recognised.
Request(t, m, k, high) ==
  /\ Call(t)
  /\ held[t] = 0 \/ (exclOwner = t /\ m = "X")
  /\ ask' = [ask EXCEPT ![t] = [mode |-> m, kind |-> k, high |-> high]]
  /\ pc' = [pc EXCEPT ![t] = "enter"]
  /\ UNCHANGED <<latchVars, waiters, sleepers, sem, swallowed>>

\* (mutant) readers are let in whatever the mode.
AdmitsReaders(t) ==
  \/ mode = "INIT"
  \/ ask[t].mode = "S"
  \/ mode = "X" /\ exclOwner = t

Admits(t) ==
  \/ mode = "INIT"
  \/ mode = "S" /\ ask[t].mode = "S"
  \/ mode = "X" /\ ask[t].mode = "X" /\ exclOwner = t

GetLatch(t) ==
  /\ pc[t] \in {"enter", "again"} /\ Admits(t)
  /\ mode' = ask[t].mode
  /\ refCount' = refCount + 1
  /\ exclOwner' = IF ask[t].mode = "X" /\ t \in SharedEnv THEN t ELSE NoOne
  /\ held' = [held EXCEPT ![t] = @ + 1]
  /\ Return(t)
  /\ UNCHANGED <<waiters, sleepers, sem, calls, swallowed>>

\* A try fails when the latch is not free, or, for a writer, when the spin lock is not;
\* a caller with a retry count fails when it has been woken that often in vain.
FailLatch(t) ==
  /\ \/ /\ pc[t] = "enter" /\ ask[t].kind = "try"
        /\ ~Admits(t) \/ ask[t].mode = "X"
     \/ pc[t] = "again" /\ ask[t].kind = "once" /\ ~Admits(t)
  /\ Return(t)
  /\ UNCHANGED <<latchVars, waiters, sleepers, sem, calls, swallowed>>

\* A woken waiter that finds the latch taken goes to the end of the list, or, with
\* high priority, to its head.
QueueForLatch(t) ==
  /\ pc[t] \in {"enter", "again"} /\ ~Admits(t)
  /\ ask[t].kind # "try" /\ ~(pc[t] = "again" /\ ask[t].kind = "once")
  /\ waiters' = IF ask[t].high THEN <<t>> \o waiters ELSE Append(waiters, t)
  /\ Goto(t, "asleep")
  /\ UNCHANGED <<latchVars, sleepers, sem, calls, swallowed>>

-----------------------------------------------------------------------------
(* knaEscalateLatch, knaReleaseLatch *)

Escalate(t) ==
  /\ pc[t] = "idle" /\ held[t] > 0 /\ mode = "S" /\ refCount = 1
  /\ mode' = "X"
  /\ exclOwner' = IF t \in SharedEnv THEN t ELSE NoOne
  /\ UNCHANGED <<refCount, held, waiters, sleepers, sem, pc, ask, calls, swallowed>>

\* The first waiters, all of the mode of the very first, up to a limit.
WokenCount ==
  LET m     == ask[Head(waiters)].mode
      limit == IF m = "X" THEN ExclWakeup ELSE SharedWakeup
      alike == {n \in 1 .. Len(waiters) : n <= limit /\ \A i \in 1 .. n : ask[waiters[i]].mode = m}
  IN  CHOOSE n \in alike : \A k \in alike : k <= n

\* (mutant) who has been woken stays in the list.
WakeAndKeep ==
  /\ waiters' = waiters
  /\ sem' = [t \in Thread |-> IF \E i \in 1 .. WokenCount : waiters[i] = t THEN sem[t] + 1 ELSE sem[t]]

Wake ==
  /\ waiters' = SubSeq(waiters, WokenCount + 1, Len(waiters))
  /\ sem' = [t \in Thread |-> IF \E i \in 1 .. WokenCount : waiters[i] = t THEN sem[t] + 1 ELSE sem[t]]

\* (mutant) waiters are woken only when a writer leaves.
ReleaseLatchOfWriter(t) ==
  /\ pc[t] = "idle" /\ held[t] > 0
  /\ held' = [held EXCEPT ![t] = @ - 1]
  /\ refCount' = refCount - 1
  /\ IF refCount = 1
     THEN /\ mode' = "INIT" /\ exclOwner' = NoOne
          /\ IF waiters # << >> /\ mode = "X" THEN Wake ELSE UNCHANGED <<waiters, sem>>
     ELSE UNCHANGED <<mode, exclOwner, waiters, sem>>
  /\ UNCHANGED <<sleepers, pc, ask, calls, swallowed>>

ReleaseLatch(t) ==
  /\ pc[t] = "idle" /\ held[t] > 0
  /\ held' = [held EXCEPT ![t] = @ - 1]
  /\ refCount' = refCount - 1
  /\ IF refCount = 1
     THEN /\ mode' = "INIT" /\ exclOwner' = NoOne
          /\ IF waiters # << >> THEN Wake ELSE UNCHANGED <<waiters, sem>>
     ELSE UNCHANGED <<mode, exclOwner, waiters, sem>>
  /\ UNCHANGED <<sleepers, pc, ask, calls, swallowed>>

-----------------------------------------------------------------------------
(* knnCondWait, knnCondBroadcast and smrCondBroadcast *)

CondWait(t) ==
  /\ Call(t) /\ held[t] = 0
  /\ sleepers' = sleepers \cup {t}
  /\ Goto(t, "cond")
  /\ UNCHANGED <<latchVars, waiters, sem, swallowed>>

\* All waiters, or those whose condition holds.
CondBroadcast(t) ==
  /\ Call(t)
  /\ \E W \in SUBSET sleepers :
       /\ W # {}
       /\ sleepers' = sleepers \ W
       /\ sem' = [u \in Thread |-> IF u \in W THEN sem[u] + 1 ELSE sem[u]]
  /\ UNCHANGED <<latchVars, waiters, pc, ask, swallowed>>

-----------------------------------------------------------------------------
(* The semaphore *)

WakeUp(t) ==
  /\ pc[t] \in {"asleep", "cond"} /\ sem[t] > 0
  /\ sem' = [sem EXCEPT ![t] = @ - 1]
  /\ IF pc[t] = "asleep" THEN Goto(t, "again") ELSE Return(t)
  /\ UNCHANGED <<latchVars, waiters, sleepers, calls, swallowed>>

\* Waits for a condition may be so short that the semaphore is not looked at.
TimeOut(t) ==
  /\ \/ pc[t] = "asleep" /\ ask[t].kind = "timed" /\ sem[t] = 0 /\ Goto(t, "late")
     \/ pc[t] = "cond" /\ Goto(t, "condLate")
  /\ UNCHANGED <<latchVars, waiters, sleepers, sem, calls, swallowed>>

\* (mutant) a thread that is no longer in the list does not wait for its semaphore.
LeaveAtOnce(t) ==
  /\ \/ pc[t] = "late" /\ waiters' = Remove(waiters, t) /\ UNCHANGED sleepers
     \/ pc[t] = "condLate" /\ sleepers' = sleepers \ {t} /\ UNCHANGED waiters
  /\ Return(t)
  /\ UNCHANGED <<latchVars, sem, calls, swallowed>>

\* After a timeout: still in the list, leave it; else the semaphore has been or will
\* be released, and has to be acquired before the call ends.
Leave(t) ==
  /\ \/ /\ pc[t] = "late" /\ UNCHANGED sleepers
        /\ \/ \E i \in 1 .. Len(waiters) :
                /\ waiters[i] = t /\ waiters' = RemoveAt(waiters, i)
                /\ Return(t) /\ UNCHANGED swallowed
           \/ /\ t \notin ToSet(waiters) /\ swallowed' = TRUE
              /\ Goto(t, "drain") /\ UNCHANGED waiters
     \/ /\ pc[t] = "condLate" /\ UNCHANGED <<waiters, swallowed>>
        /\ \/ t \in sleepers /\ sleepers' = sleepers \ {t} /\ Return(t)
           \/ t \notin sleepers /\ Goto(t, "drain") /\ UNCHANGED sleepers
  /\ UNCHANGED <<latchVars, sem, calls>>

Drain(t) ==
  /\ pc[t] = "drain" /\ sem[t] > 0
  /\ sem' = [sem EXCEPT ![t] = @ - 1]
  /\ Return(t)
  /\ UNCHANGED <<latchVars, waiters, sleepers, calls, swallowed>>

-----------------------------------------------------------------------------
GoOn(t) ==
  \/ GetLatch(t) \/ FailLatch(t) \/ QueueForLatch(t) \/ ReleaseLatch(t)
  \/ WakeUp(t) \/ Leave(t) \/ Drain(t)

Next ==
  \E t \in Thread :
    \/ \E m \in {"S", "X"}, k \in Kinds, high \in BOOLEAN : Request(t, m, k, high)
    \/ CondWait(t) \/ CondBroadcast(t) \/ Escalate(t) \/ TimeOut(t) \/ GoOn(t)

Spec == Init /\ [][Next]_vars

\* Whoever can go on does, and what is held is released some time; new calls need not
\* come, nor timeouts, nor broadcasts.
FairSpec == Spec /\ \A t \in Thread : WF_vars(GoOn(t))

-----------------------------------------------------------------------------
(* Properties *)

\* TypeOK: each variable has its type.
TypeOK ==
  /\ mode \in {"INIT", "S", "X"} /\ refCount \in Nat /\ exclOwner \in SharedEnv \cup {NoOne}
  /\ waiters \in Seq(Thread) /\ sleepers \in SUBSET Thread
  /\ sem \in [Thread -> Nat] /\ held \in [Thread -> Nat] /\ calls \in [Thread -> Nat]
  /\ pc \in [Thread -> {"idle", "enter", "again", "asleep", "late", "drain", "cond", "condLate"}]
  /\ ask \in [Thread -> [mode : {"S", "X"}, kind : Kinds \cup {"wait"}, high : BOOLEAN]]
  /\ swallowed \in BOOLEAN

\* SemaphoreExact: the semaphore of a thread is released once for each time it was taken
\* out of a list by another, and is zero when the thread goes back to its work, which
\* smlFinalizeCursor and others test (smlIterator.c:48): a wake-up that is left over
\* would end some later wait of the thread, on another latch, at once.
SemaphoreExact ==
  \A t \in Thread :
    LET listed == t \in ToSet(waiters) \cup sleepers IN
    /\ pc[t] \in {"idle", "enter", "again"} => ~listed /\ sem[t] = 0
    /\ pc[t] \in {"asleep", "cond", "late", "condLate"} => sem[t] = IF listed THEN 0 ELSE 1
    /\ pc[t] = "drain" => ~listed /\ sem[t] = 1

\* WaitersAreWoken: a free latch with waiters always has a contender: somebody who was
\* woken, or is about to look at the latch.  The one exception is known from the
\* comment at knaLatch.c:337: a waiter that times out keeps the wake-up it was given.
WaitersAreWoken ==
  (mode = "INIT" /\ waiters # << >> /\ ~swallowed) =>
    \E t \in Thread :
      \/ pc[t] \in {"enter", "again", "late"} /\ t \notin ToSet(waiters)
      \/ pc[t] = "asleep" /\ t \notin ToSet(waiters)

\* ImplementsRWLock: the latch knows its mode, a count and at most one owner, not who
\* its holders are, and lets threads in and out like a lock that does.
RW == INSTANCE RWLock WITH reading <- [t \in Thread |-> IF mode = "S" THEN held[t] ELSE 0],
                           writing <- [t \in Thread |-> IF mode = "X" THEN held[t] ELSE 0]
ImplementsRWLock == RW!Spec

\* EveryWaitEnds: a woken waiter competes again with everybody else and may lose, but
\* it does not sleep for ever, unless a wake-up was swallowed.
EveryWaitEnds ==
  \A t \in Thread : (pc[t] = "asleep") ~> (pc[t] = "idle" \/ swallowed)
=============================================================================
