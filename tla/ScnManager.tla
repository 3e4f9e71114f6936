----------------------------- MODULE ScnManager -----------------------------
(***************************************************************************)
(* System change numbers: how sessions publish the views they read with    *)
(* (smxlScnMgr.c, smxlManager.c, smaStmt.c) while the ager, which takes no *)
(* latch of theirs, computes from them what is old enough to be thrown     *)
(* away or to be taken for committed (smxlBuildAgableScn).                 *)
(*                                                                         *)
(* Every load and store of a field that another process reads is a step of *)
(* its own, except that stores which only raise what the session keeps are *)
(* one.  A session runs one transaction at a time and finds a free slot.   *)
(* Logging, undo records, XA branches, recovery, and the cleanup of dead   *)
(* sessions are left out.                                                  *)
(***************************************************************************)
EXTENDS Naturals, SequencesExt

CONSTANTS
  N,             \* sessions
  Serializable,  \* sessions whose transactions are SML_TIL_SERIALIZABLE
  Transactors,   \* sessions that run transactions; the others only query
  Kinds,         \* kinds of statements each session opens: [snap, ring]
  MaxStmts,      \* bound on the open statements of each session
  MaxOther,      \* bound on mSystemScn when other sessions increment it
  MaxScn         \* bound on mSystemScn

Session  == 1 .. N
Scn      == 1 .. MaxScn
Infinite == MaxScn + 1    \* SML_INFINITE_SCN

ASSUME ScnAssumption ==
  /\ N \in Nat \ {0} /\ MaxScn \in Nat \ {0} /\ MaxOther \in 1 .. MaxScn
  /\ MaxStmts \in [Session -> Nat]
  /\ Kinds \in [Session -> SUBSET [snap : BOOLEAN, ring : {"readOnly", "updatable"}]]
  /\ Serializable \subseteq Session /\ Transactors \subseteq Session

VARIABLES
  system,  \* mSystemScn
  agable,  \* mAgableScn, mAgableStmtScn, mMinTransViewScn, mAgableViewScn
  shared,  \* what the ager reads of each session (smlSessionEnv)
  slot,    \* the transaction of each session (smxlTrans)
  stmts,   \* its open statements: mReadOnlyStmt, mUpdatableStmt
  call,    \* where a session is in a call, and the locals of the call
  drop,    \* sObjectAgableScn of a dropped relation that is still to be aged, or 0
  ager     \* locals of smxlBuildAgableScn

sessionVars == <<shared, slot, stmts, call, drop>>
vars == <<system, agable, shared, slot, stmts, call, drop, ager>>

Lower(a, b) == IF a <= b THEN a ELSE b

Idle == [at |-> "idle", step |-> "load", scn |-> 0, minTrans |-> 0,
         snap |-> FALSE, ring |-> "readOnly"]

Init ==
  /\ system = 1
  /\ agable = [scn |-> 1, stmt |-> 1, minTrans |-> 1, view |-> 1]
  /\ shared = [s \in Session |-> [snapshot |-> Infinite, stmt |-> Infinite, disabled |-> Infinite,
                                  minTrans |-> Infinite, transView |-> Infinite]]
  /\ slot = [s \in Session |-> [state |-> "idle", view |-> Infinite, updatable |-> FALSE]]
  /\ stmts = [s \in Session |-> [readOnly |-> << >>, updatable |-> << >>]]
  /\ call = [s \in Session |-> Idle]
  /\ drop = [s \in Session |-> 0]
  /\ ager = [at |-> "idle", next |-> 1, field |-> "snapshot", scn |-> 1, stmt |-> 1, trans |-> 1, view |-> 1]

Goto(s, at) == call' = [call EXCEPT ![s].at = at, ![s].step = "load",
                                    ![s].scn = IF at = "open" THEN @ ELSE 0]
Return(s)   == call' = [call EXCEPT ![s] = Idle]

\* The mode of the transaction; without a transaction there is none.
Serial(s) == s \in Serializable /\ slot[s].state = "active"

-----------------------------------------------------------------------------
(* smxlGetAtomicSystemScn: publish the system SCN in a field of the session *)

Published == {"transView", "snapshot", "stmt", "disabled"}

AfterPublish == [transView |-> "activate", snapshot |-> "open", stmt |-> "open", disabled |-> "ended"]

Publish(s, f) == call' = [call EXCEPT ![s].at = f, ![s].step = "store", ![s].scn = system]

Load(s) ==
  /\ call[s].at \in Published /\ call[s].step = "load"
  /\ Publish(s, call[s].at)
  /\ UNCHANGED <<system, agable, shared, slot, stmts, drop, ager>>

Store(s) ==
  /\ call[s].at \in Published /\ call[s].step = "store"
  /\ shared' = [shared EXCEPT ![s][call[s].at] = call[s].scn]
  /\ call' = [call EXCEPT ![s].step = "check"]
  /\ UNCHANGED <<system, agable, slot, stmts, drop, ager>>

\* (mutant) the SCN is not read again after the store.
CheckNothing(s) ==
  /\ call[s].at \in Published /\ call[s].step = "check"
  /\ Goto(s, AfterPublish[call[s].at])
  /\ UNCHANGED <<system, agable, shared, slot, stmts, drop, ager>>

\* smxlGetNextSystemScn, by whoever else ends a transaction or drops something.
OtherScn ==
  /\ system < MaxOther
  /\ system' = system + 1
  /\ UNCHANGED <<agable, sessionVars, ager>>

\* The view of a serializable transaction is stored as it is.
Check(s) ==
  /\ call[s].at \in Published /\ call[s].step = "check"
  /\ IF system = call[s].scn \/ (call[s].at \in {"snapshot", "stmt"} /\ Serial(s))
     THEN Goto(s, AfterPublish[call[s].at])
     ELSE Goto(s, call[s].at)
  /\ UNCHANGED <<system, agable, shared, slot, stmts, drop, ager>>

-----------------------------------------------------------------------------
(* Transactions *)

\* smxlAllocTrans, with the latch of the slot held until Activate.
AllocTrans(s) ==
  /\ s \in Transactors /\ call[s].at = "idle" /\ slot[s].state = "idle"
  /\ Publish(s, "transView")
  /\ UNCHANGED <<system, agable, shared, slot, stmts, drop, ager>>

Activate(s) ==
  /\ call[s].at = "activate"
  /\ slot' = [slot EXCEPT ![s].state = "active", ![s].view = shared[s].transView]
  /\ shared' = [shared EXCEPT ![s].disabled = Infinite]
  /\ Return(s)
  /\ UNCHANGED <<system, agable, stmts, drop, ager>>

\* smxlCommit and smxlRollback.
EndTrans(s) ==
  /\ call[s].at = "idle" /\ slot[s].state = "active"
  /\ IF slot[s].updatable
     THEN slot' = [slot EXCEPT ![s].state = "precommit"] /\ Goto(s, "precommit")
     ELSE slot' = [slot EXCEPT ![s].state = "ended"] /\ Goto(s, "unlock")
  /\ UNCHANGED <<system, agable, shared, stmts, drop, ager>>

\* The commit SCN; then the latch of the slot, held until the state is set.
TakeCommitScn(s) ==
  /\ call[s].at = "precommit" /\ system < MaxScn
  /\ system' = system + 1
  /\ Goto(s, "disabled")
  /\ UNCHANGED <<agable, shared, slot, stmts, drop, ager>>

SetEnded(s) ==
  /\ call[s].at = "ended"
  /\ slot' = [slot EXCEPT ![s].state = "ended"]
  /\ Goto(s, "pending")
  /\ UNCHANGED <<system, agable, shared, stmts, drop, ager>>

\* (mutant) the relation is aged by the commit SCN.
PendingByCommitScn(s) ==
  /\ call[s].at = "pending"
  /\ \E dropped \in {FALSE} \cup {drop[s] = 0} :
       /\ drop' = [drop EXCEPT ![s] = IF dropped THEN system ELSE @]
       /\ call' = [call EXCEPT ![s].at = "unlock", ![s].scn = IF dropped THEN system ELSE 0]
       /\ UNCHANGED system
  /\ UNCHANGED <<agable, shared, slot, stmts, ager>>

\* smgExecutePendOp: a relation that the transaction dropped gets the SCN from which on
\* it may be aged.  One dropped relation of each session is followed.
Pending(s) ==
  /\ call[s].at = "pending"
  /\ \/ call' = [call EXCEPT ![s].at = "unlock", ![s].scn = 0] /\ UNCHANGED <<system, drop>>
     \/ /\ drop[s] = 0 /\ system < MaxScn
        /\ system' = system + 1
        /\ drop' = [drop EXCEPT ![s] = system + 1]
        /\ call' = [call EXCEPT ![s].at = "unlock", ![s].scn = system + 1]
  /\ UNCHANGED <<agable, shared, slot, stmts, ager>>

\* smxlFreeTrans: the locks go,
Unlock(s) ==
  /\ call[s].at = "unlock"
  /\ Goto(s, "free")
  /\ UNCHANGED <<system, agable, shared, slot, stmts, drop, ager>>

NoStmts(s) == stmts[s].readOnly = << >> /\ stmts[s].updatable = << >>

\* then ageing is allowed again, smaUpdateStmtState, and the slot is reset.
FreeTrans(s) ==
  /\ call[s].at = "free"
  /\ slot' = [slot EXCEPT ![s] = [state |-> "idle", view |-> Infinite, updatable |-> FALSE]]
  /\ shared' = [shared EXCEPT ![s].disabled  = Infinite,
                              ![s].snapshot  = IF NoStmts(s) THEN Infinite ELSE @,
                              ![s].stmt      = IF NoStmts(s) THEN Infinite ELSE @,
                              ![s].transView = Infinite]
  /\ Return(s)
  /\ UNCHANGED <<system, agable, stmts, drop, ager>>

-----------------------------------------------------------------------------
(* Statements *)

\* smaAllocStatement: the transaction views that may be aged are loaded first.  Only a
\* query needs no transaction.
AllocStatement(s, snap, ring) ==
  /\ call[s].at = "idle"
  /\ Len(stmts[s].readOnly) + Len(stmts[s].updatable) < MaxStmts[s]
  /\ \/ ring = "readOnly" /\ slot[s].state = "idle"
     \/ slot[s].state = "active"
  /\ call' = [call EXCEPT ![s] = [at |-> "minTrans", step |-> "load", scn |-> 0,
                                  minTrans |-> agable.minTrans, snap |-> snap, ring |-> ring]]
  /\ UNCHANGED <<system, agable, shared, slot, stmts, drop, ager>>

\* The field in which the view of the statement is to be published, if any.
Unset(s) == IF call[s].snap /\ shared[s].snapshot = Infinite THEN {"snapshot"}
            ELSE IF shared[s].stmt = Infinite THEN {"stmt"} ELSE {}

View(s) == IF Serial(s) THEN slot[s].view ELSE system

KeepTransViews(s) ==
  /\ call[s].at = "minTrans"
  /\ shared' = [shared EXCEPT ![s].minTrans = IF @ = Infinite THEN call[s].minTrans ELSE @]

\* Then they are kept, and the view is taken (smxlGetViewScn).
SetMinTrans(s) ==
  /\ KeepTransViews(s)
  /\ \/ \E f \in Unset(s) :
          call' = [call EXCEPT ![s].at = f, ![s].step = "store", ![s].scn = View(s)]
     \/ /\ Unset(s) = {}
        /\ call' = [call EXCEPT ![s].at = "open", ![s].scn = View(s)]
  /\ UNCHANGED <<system, agable, slot, stmts, drop, ager>>

OpenStatement(s) ==
  /\ call[s].at = "open"
  /\ stmts' = [stmts EXCEPT ![s][call[s].ring] =
                 Append(@, [view |-> call[s].scn, minTrans |-> call[s].minTrans,
                            snap |-> call[s].snap, serial |-> Serial(s)])]
  /\ shared' = [shared EXCEPT ![s].stmt = IF @ = Infinite THEN call[s].scn ELSE @]
  /\ slot' = [slot EXCEPT ![s].updatable = @ \/ call[s].ring = "updatable"]
  /\ Return(s)
  /\ UNCHANGED <<system, agable, drop, ager>>

FirstView(q)     == IF q = << >> THEN Infinite ELSE q[1].view
FirstMinTrans(q) == IF q = << >> THEN Infinite ELSE q[1].minTrans
FirstSnapshot(q) == {i \in DOMAIN q : q[i].snap /\ \A j \in 1 .. i - 1 : ~q[j].snap}
SnapshotView(q)  == IF FirstSnapshot(q) = {} THEN Infinite
                    ELSE q[CHOOSE i \in FirstSnapshot(q) : TRUE].view

\* (mutant) other statements of the session are forgotten.
FreeStatementAlone(s, ring, i) ==
  /\ call[s].at = "idle" /\ i \in DOMAIN stmts[s][ring]
  /\ stmts' = [stmts EXCEPT ![s][ring] = RemoveAt(@, i)]
  /\ shared' = [shared EXCEPT ![s].snapshot = Infinite, ![s].stmt = Infinite, ![s].minTrans = Infinite]
  /\ UNCHANGED <<system, agable, slot, call, drop, ager>>

\* smaFreeStatement: the first statement of each list is taken for the oldest.  After a
\* serializable statement two of the fields stay as they are.
FreeStatement(s, ring, i) ==
  /\ call[s].at = "idle" /\ i \in DOMAIN stmts[s][ring]
  /\ stmts' = [stmts EXCEPT ![s][ring] = RemoveAt(@, i)]
  /\ LET st == stmts[s][ring][i]
         ro == stmts'[s].readOnly
         up == stmts'[s].updatable
     IN shared' = [shared EXCEPT
          ![s].snapshot = IF st.snap THEN Lower(SnapshotView(ro), SnapshotView(up)) ELSE @,
          ![s].stmt     = IF st.serial THEN @ ELSE Lower(FirstView(ro), FirstView(up)),
          ![s].minTrans = IF st.serial THEN @ ELSE Lower(FirstMinTrans(ro), FirstMinTrans(up))]
  /\ UNCHANGED <<system, agable, slot, call, drop, ager>>

-----------------------------------------------------------------------------
(* The ager *)

\* smxlBuildAgableScn, with mLatch held: one pass at a time.
BeginPass ==
  /\ ager.at = "idle"
  /\ ager' = [at |-> "sessions", next |-> 1, field |-> "snapshot",
              scn |-> system, stmt |-> system, trans |-> system, view |-> system]
  /\ UNCHANGED <<system, agable, sessionVars>>

NextField == [snapshot |-> "stmt", stmt |-> "disabled", disabled |-> "minTrans",
              minTrans |-> "transView", transView |-> "snapshot"]

\* The fields of a session, one after the other.  A mMinTransViewScn below the current
\* mAgableViewScn is ignored.
ReadField ==
  /\ ager.at = "sessions"
  /\ LET f    == ager.field
         v    == shared[ager.next][f]
         last == f = "transView"
     IN ager' = [ager EXCEPT
          !.scn   = IF f \in {"snapshot", "disabled"} THEN Lower(@, v) ELSE @,
          !.stmt  = IF f \in {"stmt", "disabled"} THEN Lower(@, v) ELSE @,
          !.trans = IF last THEN Lower(@, v) ELSE @,
          !.view  = IF f = "minTrans" /\ agable.view <= v THEN Lower(@, v) ELSE @,
          !.field = NextField[f],
          !.next  = IF ~last THEN @ ELSE IF @ < N THEN @ + 1 ELSE 1,
          !.at    = IF last /\ ager.next = N THEN "slots" ELSE @]
  /\ UNCHANGED <<system, agable, sessionVars>>

Latched(s) == call[s].at \in {"transView", "activate", "disabled", "ended"}

\* The slots (smxlGetNextActiveTrans): an idle or ended one is skipped without a latch.
ReadSlot ==
  /\ ager.at = "slots"
  /\ LET s       == ager.next
         active  == slot[s].state \in {"active", "precommit"}
         serial  == active /\ s \in Serializable
         v       == slot[s].view
     IN /\ active => ~Latched(s)
        /\ ager' = [ager EXCEPT
             !.trans = IF active THEN Lower(@, v) ELSE @,
             !.scn   = IF serial THEN Lower(@, v) ELSE @,
             !.stmt  = IF serial THEN Lower(@, v) ELSE @,
             !.next  = IF @ < N THEN @ + 1 ELSE 1,
             !.at    = IF s = N THEN "write" ELSE @]
  /\ UNCHANGED <<system, agable, sessionVars>>

EndPass ==
  /\ ager.at = "write"
  /\ LET stmt  == Lower(ager.scn, ager.stmt)
         trans == Lower(stmt, ager.trans)
     IN agable' = [scn |-> ager.scn, stmt |-> stmt, minTrans |-> trans, view |-> Lower(trans, ager.view)]
  /\ ager' = [ager EXCEPT !.at = "idle", !.scn = 1, !.stmt = 1, !.trans = 1, !.view = 1]
  /\ UNCHANGED <<system, sessionVars>>

\* smdLockItemAging and the like: a dropped relation goes when its SCN is agable.
AgeDropped(s) ==
  /\ drop[s] # 0 /\ drop[s] <= agable.stmt
  /\ drop' = [drop EXCEPT ![s] = 0]
  /\ UNCHANGED <<system, agable, shared, slot, stmts, call, ager>>

-----------------------------------------------------------------------------
GoOn(s) ==
  \/ Load(s) \/ Store(s) \/ Check(s) \/ Activate(s)
  \/ TakeCommitScn(s) \/ SetEnded(s) \/ Pending(s) \/ Unlock(s) \/ FreeTrans(s)
  \/ SetMinTrans(s) \/ OpenStatement(s)

Age == BeginPass \/ ReadField \/ ReadSlot \/ EndPass

Ring == {"readOnly", "updatable"}

Next ==
  \/ \E s \in Session :
       \/ GoOn(s) \/ AllocTrans(s) \/ EndTrans(s) \/ AgeDropped(s)
       \/ \E k \in Kinds[s] : AllocStatement(s, k.snap, k.ring)
       \/ \E ring \in Ring : \E i \in 1 .. MaxStmts[s] : FreeStatement(s, ring, i)
  \/ OtherScn \/ Age

Spec == Init /\ [][Next]_vars

-----------------------------------------------------------------------------
(* Properties *)

Statement == [view : Scn, minTrans : Scn, snap : BOOLEAN, serial : BOOLEAN]
Agable    == [scn : Scn, stmt : Scn, minTrans : Scn, view : Scn]
Fields    == [snapshot : 1 .. Infinite, stmt : 1 .. Infinite, disabled : 1 .. Infinite,
              minTrans : 1 .. Infinite, transView : 1 .. Infinite]
Slot      == [state : {"idle", "active", "precommit", "ended"}, view : 1 .. Infinite, updatable : BOOLEAN]
Call      == [at : {"idle", "activate", "minTrans", "open", "precommit", "ended", "pending", "unlock", "free"}
                     \cup Published,
              step : {"load", "store", "check"}, scn : 0 .. MaxScn, minTrans : 0 .. MaxScn,
              snap : BOOLEAN, ring : Ring]
Ager      == [at : {"idle", "sessions", "slots", "write"}, next : Session,
              field : {"snapshot", "stmt", "disabled", "minTrans", "transView"},
              scn : Scn, stmt : Scn, trans : Scn, view : Scn]

\* TypeOK: each variable has its type; a view is an SCN, or infinite where there is none.
TypeOK ==
  /\ system \in Scn
  /\ agable \in Agable
  /\ shared \in [Session -> Fields]
  /\ slot \in [Session -> Slot]
  /\ stmts \in [Session -> [readOnly : Seq(Statement), updatable : Seq(Statement)]]
  /\ call \in [Session -> Call]
  /\ drop \in [Session -> 0 .. MaxScn]
  /\ ager \in Ager

\* UncommittedIsHidden: a record of a transaction whose view is below mAgableViewScn is
\* read as committed long ago (smxlGetSafeCommitScn, smxlManager.c:2490), so no
\* transaction that has not ended may be below it, however the ager and the stores
\* of the sessions interleave.
UncommittedIsHidden ==
  \A s \in Session : slot[s].state \in {"active", "precommit"} => agable.view <= slot[s].view

OpenStatements(s) == UNION {ToSet(stmts[s][ring]) : ring \in Ring}

\* ViewsAreKept: old versions of records below mAgableScn, and dropped objects below
\* mAgableStmtScn, are gone, so neither passes the view of an open statement.
\* Statements of serializable transactions are the exception, see SerializableIsKept.
ViewsAreKept ==
  \A s \in Session : \A st \in OpenStatements(s) :
    ~st.serial => /\ st.snap => agable.scn <= st.view
                  /\ agable.stmt <= st.view

\* DropIsLast: a dropped relation is aged after its transaction has released the lock
\* on it (comment at smxlManager.c:1010), and when no statement
\* is open that began before the drop (comment at smdTable.c:1005).
DropIsLast ==
  [][\A s \in Session : drop[s] # 0 /\ drop'[s] = 0 =>
       /\ ~(call[s].at = "unlock" /\ call[s].scn = drop[s])
       /\ \A t \in Session : \A st \in OpenStatements(t) : ~st.serial => drop[s] <= st.view]_vars

\* SerializableIsKept: the comment at smxlScnMgr.c:588 says that records which a
\* serializable transaction refers to must not be deleted.  (Checked to be violated.)
SerializableIsKept ==
  \A s \in Serializable : slot[s].state = "active" => agable.scn <= slot[s].view
=============================================================================
