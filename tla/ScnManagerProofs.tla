-------------------------- MODULE ScnManagerProofs --------------------------
(***************************************************************************)
(* ScnManager for any number of sessions: the types, that no running       *)
(* transaction is taken for one that committed long ago, and that nothing  *)
(* an open statement may read, and no relation still locked, is aged.      *)
(***************************************************************************)
EXTENDS ScnManager, SequenceTheorems, WellFoundedInduction, TLAPS

\* The locals of a call hold SCNs where they are used.
CallOK(s) ==
  /\ (call[s].at \in Published /\ call[s].step # "load") \/ call[s].at = "open" => call[s].scn \in Scn
  /\ call[s].at \in {"minTrans", "snapshot", "stmt", "open"} => call[s].minTrans \in Scn

\* The session has fixed the view of its transaction, and has not ended it.
Holds(s) == slot[s].state # "idle" \/ call[s].at = "activate"

\* The view is published; no finished pass of the ager has passed it, and the present
\* one has read it or will.
Kept(s) ==
  /\ shared[s].transView <= system
  /\ agable.minTrans <= shared[s].transView
  /\ ager.trans <= shared[s].transView \/ (ager.at = "sessions" /\ ager.next <= s)

ViewOK(s) ==
  /\ call[s].at = "transView" /\ call[s].step = "check" => shared[s].transView = call[s].scn
  /\ call[s].at \in {"transView", "activate"} => slot[s].state = "idle"
  /\ call[s].at \in {"precommit", "disabled", "ended"} => slot[s].state # "idle"
  /\ slot[s].state # "idle" => slot[s].view = shared[s].transView
  /\ Holds(s) => Kept(s)

Ordered ==
  /\ agable.minTrans <= system
  /\ agable.view <= agable.minTrans
  /\ ager.trans <= system

ScnInv == TypeOK /\ Ordered /\ \A s \in Session : CallOK(s) /\ ViewOK(s)

-----------------------------------------------------------------------------
LEMMA ScnType ==
  /\ Scn \subseteq Nat /\ Scn \subseteq 0 .. MaxScn /\ Scn \subseteq 1 .. Infinite
  /\ 1 \in Scn /\ Infinite \in 1 .. Infinite /\ Infinite \in Nat
  /\ \A a \in Scn : a < Infinite
  /\ \A a \in 1 .. Infinite : a # Infinite => a \in Scn
  /\ Session \subseteq Nat /\ 1 \in Session /\ 0 \in 0 .. MaxScn
BY ScnAssumption DEF Scn, Infinite, Session

LEMMA LowerType ==
  \A a, b \in Nat : Lower(a, b) \in {a, b} /\ Lower(a, b) <= a /\ Lower(a, b) <= b
BY DEF Lower

LEMMA ScnReflexive == \A a \in Scn : a <= a
BY ScnAssumption DEF Scn

\* The lower of an SCN and a field is an SCN.
LEMMA LowerScn ==
  \A a \in Scn, b \in 1 .. Infinite : Lower(a, b) \in Scn /\ Lower(a, b) <= a /\ Lower(a, b) <= b
BY ScnType DEF Lower, Scn, Infinite

LEMMA InitInv == Init => ScnInv
<1> SUFFICES ASSUME Init PROVE ScnInv
  OBVIOUS
<1>1. << >> \in Seq(Statement)
  BY EmptySeq
<1>2. TypeOK
  BY <1>1, ScnType DEF Init, TypeOK, Agable, Fields, Slot, Call, Ager, Idle, Ring, Published
<1>3. Ordered
  BY DEF Init, Ordered
<1>4. ASSUME NEW s \in Session PROVE CallOK(s) /\ ViewOK(s)
  BY DEF Init, CallOK, ViewOK, Holds, Idle, Published
<1> QED
  BY <1>2, <1>3, <1>4 DEF ScnInv

-----------------------------------------------------------------------------
(* What one session does keeps what the invariant says of the others. *)

Untouched(t) == shared'[t] = shared[t] /\ slot'[t] = slot[t] /\ call'[t] = call[t]

LEMMA OthersKept ==
  ASSUME ScnInv, NEW t \in Session, Untouched(t),
         UNCHANGED <<agable, ager>>, system' \in Scn, system <= system'
  PROVE  CallOK(t)' /\ ViewOK(t)' /\ Ordered'
<1>1. CallOK(t)'
  BY DEF Untouched, ScnInv, CallOK
<1>2. shared[t].transView \in Nat /\ system \in Nat /\ system' \in Nat /\ agable.minTrans \in Nat /\ ager.trans \in Nat
  BY ScnType DEF ScnInv, TypeOK, Fields, Agable, Ager
<1>3. ViewOK(t)'
  BY <1>2 DEF Untouched, ScnInv, ViewOK, Holds, Kept
<1>4. Ordered'
  BY <1>2 DEF ScnInv, Ordered
<1> QED
  BY <1>1, <1>3, <1>4

\* A step of one session: it is enough to look at the types and at that session.
LEMMA SessionStep ==
  ASSUME ScnInv, NEW s \in Session, TypeOK', UNCHANGED <<agable, ager>>, system <= system',
         \A t \in Session \ {s} : Untouched(t), CallOK(s)', ViewOK(s)'
  PROVE  ScnInv'
<1>1. system' \in Scn
  BY DEF TypeOK
<1>2. /\ system \in Nat /\ system' \in Nat /\ agable.minTrans \in Nat /\ agable.view \in Nat
      /\ ager.trans \in Nat
  BY <1>1, ScnType DEF ScnInv, TypeOK, Agable, Ager
<1>4. Ordered'
  BY <1>2 DEF ScnInv, Ordered
<1>5. ASSUME NEW t \in Session PROVE CallOK(t)' /\ ViewOK(t)'
  <2>1. CASE t = s
    BY <2>1
  <2>2. CASE t # s
    BY <1>1, <2>2, OthersKept
  <2> QED
    BY <2>1, <2>2
<1> QED
  BY <1>4, <1>5 DEF ScnInv

LEMMA Steady == ASSUME TypeOK, UNCHANGED system PROVE system <= system'
BY ScnType DEF TypeOK

LEMMA GotoIs ==
  ASSUME TypeOK, NEW s \in Session, NEW at, Goto(s, at),
         at \in {"activate", "open", "precommit", "ended", "pending", "unlock", "free"} \cup Published
  PROVE  /\ call' \in [Session -> Call]
         /\ call'[s].at = at /\ call'[s].step = "load" /\ call'[s].minTrans = call[s].minTrans
         /\ at = "open" => call'[s].scn = call[s].scn
         /\ \A t \in Session \ {s} : call'[t] = call[t]
<1> DEFINE c == [call[s] EXCEPT !.at = at, !.step = "load", !.scn = IF at = "open" THEN @ ELSE 0]
<1>1. call[s] \in Call
  BY DEF TypeOK
<1>2. c \in Call
  BY <1>1, ScnType DEF Call, Published
<1>3. call' = [call EXCEPT ![s] = c]
  BY <1>1 DEF Goto, Call
<1> QED
  BY <1>1, <1>2, <1>3 DEF TypeOK, Call

LEMMA PublishIs ==
  ASSUME TypeOK, NEW s \in Session, NEW f \in Published, Publish(s, f)
  PROVE  /\ call' \in [Session -> Call]
         /\ call'[s].at = f /\ call'[s].step = "store" /\ call'[s].minTrans = call[s].minTrans
         /\ call'[s].scn = system
         /\ \A t \in Session \ {s} : call'[t] = call[t]
<1> DEFINE c == [call[s] EXCEPT !.at = f, !.step = "store", !.scn = system]
<1>1. call[s] \in Call
  BY DEF TypeOK
<1>2. c \in Call
  BY <1>1, ScnType DEF Call, Published, TypeOK
<1>3. call' = [call EXCEPT ![s] = c]
  BY <1>1 DEF Publish, Call
<1> QED
  BY <1>1, <1>2, <1>3 DEF TypeOK, Call

LEMMA ReturnIs ==
  ASSUME TypeOK, NEW s \in Session, Return(s)
  PROVE  call' \in [Session -> Call] /\ call'[s].at = "idle" /\ \A t \in Session \ {s} : call'[t] = call[t]
BY ScnType DEF Return, TypeOK, Idle, Call, Ring

-----------------------------------------------------------------------------
(* Publishing a view *)

LEMMA LoadInv ==
  ASSUME ScnInv, NEW s \in Session, Load(s)
  PROVE  ScnInv'
<1>1. TypeOK /\ call[s].at \in Published /\ Publish(s, call[s].at)
  BY DEF ScnInv, Load
<1>2. UNCHANGED <<system, agable, shared, slot, stmts, drop, ager>>
  BY DEF Load
<1>3. TypeOK'
  BY <1>1, <1>2, PublishIs DEF TypeOK
<1>4. \A t \in Session \ {s} : Untouched(t)
  BY <1>1, <1>2, PublishIs DEF Untouched
<1>5. CallOK(s)' /\ ViewOK(s)'
  BY <1>1, <1>2, PublishIs DEF ScnInv, TypeOK, CallOK, ViewOK, Holds, Kept, Published
<1> QED
  BY <1>2, <1>3, <1>4, <1>5, <1>1, Steady, SessionStep

LEMMA StoreInv ==
  ASSUME ScnInv, NEW s \in Session, Store(s)
  PROVE  ScnInv'
<1> DEFINE at == call[s].at
<1> DEFINE c  == [call[s] EXCEPT !.step = "check"]
<1> DEFINE f  == [shared[s] EXCEPT ![at] = call[s].scn]
<1>1. /\ TypeOK /\ at \in Published /\ call[s].step = "store" /\ CallOK(s) /\ ViewOK(s)
      /\ UNCHANGED <<system, agable, slot, stmts, drop, ager>>
  BY DEF ScnInv, Store
<1>2. call[s].scn \in Scn /\ call[s] \in Call /\ shared[s] \in Fields
  BY <1>1 DEF CallOK, TypeOK
<1>3. c \in Call /\ c.at = at /\ c.step = "check" /\ c.scn = call[s].scn /\ c.minTrans = call[s].minTrans
  BY <1>2 DEF Call
<1>4. /\ f \in Fields
      /\ at = "transView" => f.transView = call[s].scn
      /\ at # "transView" => f.transView = shared[s].transView
  BY <1>1, <1>2, ScnType DEF Fields, Published
<1>5. call' = [call EXCEPT ![s] = c] /\ shared' = [shared EXCEPT ![s] = f]
  BY <1>1, <1>2 DEF Store, TypeOK, Call, Fields
<1>6. TypeOK'
  BY <1>1, <1>3, <1>4, <1>5 DEF TypeOK
<1>7. \A t \in Session \ {s} : Untouched(t)
  BY <1>1, <1>5 DEF Untouched, TypeOK
<1>8. call'[s] = c /\ shared'[s] = f
  BY <1>1, <1>5 DEF TypeOK
<1>9. CallOK(s)'
  BY <1>1, <1>2, <1>3, <1>8 DEF CallOK
<1>10. ViewOK(s)'
  BY <1>1, <1>3, <1>4, <1>8 DEF ViewOK, Holds, Kept, Published
<1> QED
  BY <1>1, <1>6, <1>7, <1>9, <1>10, Steady, SessionStep

LEMMA CheckInv ==
  ASSUME ScnInv, NEW s \in Session, Check(s)
  PROVE  ScnInv'
<1> DEFINE at   == call[s].at
<1> DEFINE next == AfterPublish[at]
<1>1. /\ TypeOK /\ at \in Published /\ call[s].step = "check" /\ CallOK(s) /\ ViewOK(s) /\ Ordered
      /\ UNCHANGED <<system, agable, shared, slot, stmts, drop, ager>>
  BY DEF ScnInv, Check
<1>2. /\ next \in {"activate", "open", "ended"}
      /\ at = "transView" <=> next = "activate"
      /\ next = "open" <=> at \in {"snapshot", "stmt"}
      /\ next = "ended" <=> at = "disabled"
  BY <1>1 DEF AfterPublish, Published
<1>3. call[s].scn \in Scn /\ system \in Scn
  BY <1>1 DEF CallOK, TypeOK
<1>4. CASE Goto(s, next) /\ (at = "transView" => system = call[s].scn)
  <2>1. /\ call' \in [Session -> Call] /\ call'[s].at = next /\ call'[s].minTrans = call[s].minTrans
        /\ call'[s].step = "load" /\ (next = "open" => call'[s].scn = call[s].scn)
        /\ \A t \in Session \ {s} : call'[t] = call[t]
    BY <1>1, <1>2, <1>4, GotoIs
  <2>2. TypeOK'
    BY <1>1, <2>1 DEF TypeOK
  <2>3. CallOK(s)'
    BY <1>1, <1>2, <1>3, <2>1 DEF CallOK, Published
  <2>4. at = "transView" => Kept(s)
    BY <1>1, <1>3, <1>4, ScnType DEF ViewOK, Kept, Ordered, TypeOK
  <2>5. ViewOK(s)'
    BY <1>1, <1>2, <2>1, <2>4 DEF ViewOK, Holds, Kept
  <2> QED
    BY <1>1, <1>3, <2>1, <2>2, <2>3, <2>5, Steady, SessionStep DEF Untouched
<1>5. CASE Goto(s, at)
  <2>1. /\ call' \in [Session -> Call] /\ call'[s].at = at /\ call'[s].minTrans = call[s].minTrans
        /\ call'[s].step = "load"
        /\ \A t \in Session \ {s} : call'[t] = call[t]
    BY <1>1, <1>5, GotoIs
  <2>2. TypeOK'
    BY <1>1, <2>1 DEF TypeOK
  <2>3. CallOK(s)' /\ ViewOK(s)'
    BY <1>1, <2>1 DEF CallOK, ViewOK, Holds, Kept, Published
  <2> QED
    BY <1>1, <1>3, <2>1, <2>2, <2>3, Steady, SessionStep DEF Untouched
<1> QED
  BY <1>1, <1>2, <1>4, <1>5 DEF Check

-----------------------------------------------------------------------------
(* Transactions *)

LEMMA AllocTransInv ==
  ASSUME ScnInv, NEW s \in Session, AllocTrans(s)
  PROVE  ScnInv'
<1>1. /\ TypeOK /\ ViewOK(s) /\ slot[s].state = "idle" /\ Publish(s, "transView")
      /\ UNCHANGED <<system, agable, shared, slot, stmts, drop, ager>>
  BY DEF ScnInv, AllocTrans
<1>2. /\ call' \in [Session -> Call] /\ call'[s].at = "transView" /\ call'[s].step = "store"
      /\ call'[s].scn = system /\ \A t \in Session \ {s} : call'[t] = call[t]
  BY <1>1, PublishIs DEF Published
<1>3. TypeOK'
  BY <1>1, <1>2 DEF TypeOK
<1>4. CallOK(s)' /\ ViewOK(s)'
  BY <1>1, <1>2 DEF CallOK, ViewOK, Holds, TypeOK
<1> QED
  BY <1>1, <1>2, <1>3, <1>4, Steady, SessionStep DEF Untouched

LEMMA ActivateInv ==
  ASSUME ScnInv, NEW s \in Session, Activate(s)
  PROVE  ScnInv'
<1> DEFINE sl == [slot[s] EXCEPT !.state = "active", !.view = shared[s].transView]
<1> DEFINE sh == [shared[s] EXCEPT !.disabled = Infinite]
<1>1. /\ TypeOK /\ ViewOK(s) /\ call[s].at = "activate" /\ Return(s)
      /\ UNCHANGED <<system, agable, stmts, drop, ager>>
  BY DEF ScnInv, Activate
<1>2. slot[s] \in Slot /\ shared[s] \in Fields
  BY <1>1 DEF TypeOK
<1>3. /\ sl \in Slot /\ sl.state = "active" /\ sl.view = shared[s].transView
      /\ sh \in Fields /\ sh.transView = shared[s].transView
  BY <1>2, ScnType DEF Slot, Fields
<1>4. slot' = [slot EXCEPT ![s] = sl] /\ shared' = [shared EXCEPT ![s] = sh]
  BY <1>1, <1>2 DEF Activate, TypeOK, Slot, Fields
<1>5. call' \in [Session -> Call] /\ call'[s].at = "idle" /\ \A t \in Session \ {s} : call'[t] = call[t]
  BY <1>1, ReturnIs
<1>6. TypeOK'
  BY <1>1, <1>3, <1>4, <1>5 DEF TypeOK
<1>7. slot'[s] = sl /\ shared'[s] = sh /\ \A t \in Session \ {s} : Untouched(t)
  BY <1>1, <1>4, <1>5 DEF TypeOK, Untouched
<1>8. CallOK(s)' /\ ViewOK(s)'
  BY <1>1, <1>3, <1>5, <1>7 DEF CallOK, ViewOK, Holds, Kept, Published
<1> QED
  BY <1>1, <1>6, <1>7, <1>8, Steady, SessionStep

\* A step that sets the state of the slot of a transaction, and goes on.
LEMMA EndingInv ==
  ASSUME ScnInv, NEW s \in Session, NEW state \in {"precommit", "ended"},
         NEW at \in {"precommit", "pending", "unlock"},
         slot[s].state # "idle", slot' = [slot EXCEPT ![s].state = state], Goto(s, at),
         UNCHANGED <<system, agable, shared, stmts, drop, ager>>
  PROVE  ScnInv'
<1> DEFINE sl == [slot[s] EXCEPT !.state = state]
<1>1. TypeOK /\ ViewOK(s) /\ slot[s] \in Slot
  BY DEF ScnInv, TypeOK
<1>2. sl \in Slot /\ sl.state = state /\ sl.view = slot[s].view
  BY <1>1 DEF Slot
<1>3. slot' = [slot EXCEPT ![s] = sl]
  BY <1>1 DEF TypeOK, Slot
<1>4. call' \in [Session -> Call] /\ call'[s].at = at /\ \A t \in Session \ {s} : call'[t] = call[t]
  BY <1>1, GotoIs
<1>5. TypeOK'
  BY <1>1, <1>2, <1>3, <1>4 DEF TypeOK
<1>6. slot'[s] = sl /\ \A t \in Session \ {s} : Untouched(t)
  BY <1>1, <1>3, <1>4 DEF TypeOK, Untouched
<1>7. CallOK(s)' /\ ViewOK(s)'
  BY <1>1, <1>2, <1>4, <1>6 DEF CallOK, ViewOK, Holds, Kept, Published
<1> QED
  BY <1>1, <1>5, <1>6, <1>7, Steady, SessionStep

LEMMA EndTransInv ==
  ASSUME ScnInv, NEW s \in Session, EndTrans(s)
  PROVE  ScnInv'
BY EndingInv DEF EndTrans

LEMMA SetEndedInv ==
  ASSUME ScnInv, NEW s \in Session, SetEnded(s)
  PROVE  ScnInv'
<1>1. slot[s].state # "idle"
  BY DEF ScnInv, ViewOK, SetEnded
<1> QED
  BY <1>1, EndingInv DEF SetEnded

\* A step that moves the call on, and perhaps takes an SCN or sets drop.
LEMMA MoveInv ==
  ASSUME ScnInv, NEW s \in Session, call' \in [Session -> Call],
         call'[s].at \in {"disabled", "unlock", "free"}, call'[s].at = "disabled" => call'[s].step = "load",
         call'[s].at = "disabled" => slot[s].state # "idle",
         \A t \in Session \ {s} : call'[t] = call[t],
         drop' \in [Session -> 0 .. MaxScn], system' \in Scn, system <= system',
         UNCHANGED <<agable, shared, slot, stmts, ager>>
  PROVE  ScnInv'
<1>1. TypeOK /\ ViewOK(s)
  BY DEF ScnInv
<1>2. TypeOK'
  BY <1>1 DEF TypeOK
<1>3. /\ shared[s].transView \in Nat /\ system \in Nat /\ system' \in Nat
  BY <1>1, ScnType DEF TypeOK, Fields
<1>4. CallOK(s)' /\ ViewOK(s)'
  BY <1>1, <1>3 DEF CallOK, ViewOK, Holds, Kept, Published
<1> QED
  BY <1>1, <1>2, <1>4, SessionStep DEF Untouched

LEMMA NextScn == ASSUME TypeOK, system < MaxScn PROVE system + 1 \in Scn /\ system <= system + 1
BY ScnAssumption DEF TypeOK, Scn

LEMMA TakeCommitScnInv ==
  ASSUME ScnInv, NEW s \in Session, TakeCommitScn(s)
  PROVE  ScnInv'
<1>1. TypeOK /\ slot[s].state # "idle" /\ Goto(s, "disabled")
  BY DEF ScnInv, ViewOK, TakeCommitScn
<1>2. /\ call' \in [Session -> Call] /\ call'[s].at = "disabled" /\ call'[s].step = "load"
      /\ \A t \in Session \ {s} : call'[t] = call[t]
  BY <1>1, GotoIs DEF Published
<1> QED
  BY <1>1, <1>2, NextScn, MoveInv DEF TakeCommitScn, TypeOK

LEMMA PendingInv ==
  ASSUME ScnInv, NEW s \in Session, Pending(s)
  PROVE  ScnInv'
<1>1. TypeOK /\ call[s] \in Call /\ UNCHANGED <<agable, shared, slot, stmts, ager>>
  BY DEF ScnInv, TypeOK, Pending
<1>2. ASSUME NEW scn \in 0 .. MaxScn,
             call' = [call EXCEPT ![s].at = "unlock", ![s].scn = scn]
      PROVE  /\ call' \in [Session -> Call] /\ call'[s].at = "unlock"
             /\ \A t \in Session \ {s} : call'[t] = call[t]
  <2> DEFINE c == [call[s] EXCEPT !.at = "unlock", !.scn = scn]
  <2>1. c \in Call /\ c.at = "unlock"
    BY <1>1 DEF Call
  <2>2. call' = [call EXCEPT ![s] = c]
    BY <1>1, <1>2 DEF Call
  <2> QED
    BY <1>1, <2>1, <2>2 DEF TypeOK
<1>3. CASE call' = [call EXCEPT ![s].at = "unlock", ![s].scn = 0] /\ UNCHANGED <<system, drop>>
  <2>1. /\ call' \in [Session -> Call] /\ call'[s].at = "unlock"
        /\ \A t \in Session \ {s} : call'[t] = call[t]
    BY <1>2, <1>3, ScnType
  <2> QED
    BY <1>1, <1>3, <2>1, Steady, MoveInv DEF TypeOK
<1>4. CASE /\ drop[s] = 0 /\ system < MaxScn /\ system' = system + 1
           /\ drop' = [drop EXCEPT ![s] = system + 1]
           /\ call' = [call EXCEPT ![s].at = "unlock", ![s].scn = system + 1]
  <2>1. system' \in Scn /\ system <= system' /\ system + 1 \in 0 .. MaxScn
    BY <1>1, <1>4, NextScn, ScnType
  <2>2. /\ call' \in [Session -> Call] /\ call'[s].at = "unlock"
        /\ \A t \in Session \ {s} : call'[t] = call[t]
    BY <1>2, <1>4, <2>1
  <2>3. drop' \in [Session -> 0 .. MaxScn]
    BY <1>1, <1>4, <2>1 DEF TypeOK
  <2> QED
    BY <1>1, <2>1, <2>2, <2>3, MoveInv
<1> QED
  BY <1>3, <1>4 DEF Pending

LEMMA UnlockInv ==
  ASSUME ScnInv, NEW s \in Session, Unlock(s)
  PROVE  ScnInv'
<1>1. TypeOK /\ Goto(s, "free")
  BY DEF ScnInv, Unlock
<1>2. /\ call' \in [Session -> Call] /\ call'[s].at = "free"
      /\ \A t \in Session \ {s} : call'[t] = call[t]
  BY <1>1, GotoIs
<1> QED
  BY <1>1, <1>2, Steady, MoveInv DEF Unlock, TypeOK

LEMMA FreeTransInv ==
  ASSUME ScnInv, NEW s \in Session, FreeTrans(s)
  PROVE  ScnInv'
<1> DEFINE sl == [state |-> "idle", view |-> Infinite, updatable |-> FALSE]
<1> DEFINE sh == [shared[s] EXCEPT !.disabled  = Infinite,
                                   !.snapshot  = IF NoStmts(s) THEN Infinite ELSE @,
                                   !.stmt      = IF NoStmts(s) THEN Infinite ELSE @,
                                   !.transView = Infinite]
<1>1. /\ TypeOK /\ shared[s] \in Fields /\ Return(s)
      /\ UNCHANGED <<system, agable, stmts, drop, ager>>
  BY DEF ScnInv, TypeOK, FreeTrans
<1>2. sl \in Slot /\ sh \in Fields
  BY <1>1, ScnType DEF Slot, Fields
<1>3. slot' = [slot EXCEPT ![s] = sl] /\ shared' = [shared EXCEPT ![s] = sh]
  BY <1>1 DEF FreeTrans, TypeOK, Fields
<1>4. call' \in [Session -> Call] /\ call'[s].at = "idle" /\ \A t \in Session \ {s} : call'[t] = call[t]
  BY <1>1, ReturnIs
<1>5. TypeOK'
  BY <1>1, <1>2, <1>3, <1>4 DEF TypeOK
<1>6. slot'[s] = sl /\ \A t \in Session \ {s} : Untouched(t)
  BY <1>1, <1>3, <1>4 DEF TypeOK, Untouched
<1>7. CallOK(s)' /\ ViewOK(s)'
  BY <1>4, <1>6 DEF CallOK, ViewOK, Holds, Published
<1> QED
  BY <1>1, <1>5, <1>6, <1>7, Steady, SessionStep

-----------------------------------------------------------------------------
(* Statements *)

LEMMA AllocStatementInv ==
  ASSUME ScnInv, NEW s \in Session, NEW k \in Kinds[s], AllocStatement(s, k.snap, k.ring)
  PROVE  ScnInv'
<1> DEFINE c == [at |-> "minTrans", step |-> "load", scn |-> 0,
                 minTrans |-> agable.minTrans, snap |-> k.snap, ring |-> k.ring]
<1>1. /\ TypeOK /\ ViewOK(s) /\ call[s].at = "idle" /\ call' = [call EXCEPT ![s] = c]
      /\ UNCHANGED <<system, agable, shared, slot, stmts, drop, ager>>
  BY DEF ScnInv, AllocStatement
<1>2. agable.minTrans \in Scn /\ k \in [snap : BOOLEAN, ring : Ring]
  BY <1>1, ScnAssumption DEF TypeOK, Agable, Ring
<1>3. c \in Call
  BY <1>2, ScnType DEF Call, Ring
<1>4. TypeOK' /\ call'[s] = c /\ \A t \in Session \ {s} : Untouched(t)
  BY <1>1, <1>3 DEF TypeOK, Untouched
<1>5. CallOK(s)' /\ ViewOK(s)'
  BY <1>1, <1>2, <1>4 DEF CallOK, ViewOK, Holds, Kept, Published
<1> QED
  BY <1>1, <1>4, <1>5, Steady, SessionStep

\* The view of a statement is an SCN, also when it is that of its transaction.
LEMMA ViewType ==
  ASSUME ScnInv, NEW s \in Session
  PROVE  View(s) \in Scn
<1>1. system \in Scn /\ TypeOK /\ ViewOK(s)
  BY DEF ScnInv, TypeOK
<1>2. CASE Serial(s)
  <2>1. slot[s].view = shared[s].transView /\ shared[s].transView <= system
    BY <1>1, <1>2 DEF Serial, ViewOK, Holds, Kept
  <2>2. shared[s].transView \in 1 .. Infinite
    BY <1>1 DEF TypeOK, Fields
  <2>3. shared[s].transView \in Scn
    BY <1>1, <2>1, <2>2, ScnAssumption DEF Scn, Infinite
  <2> QED
    BY <1>2, <2>1, <2>3 DEF View
<1> QED
  BY <1>1, <1>2 DEF View

LEMMA SetMinTransInv ==
  ASSUME ScnInv, NEW s \in Session, SetMinTrans(s)
  PROVE  ScnInv'
<1> DEFINE sh == [shared[s] EXCEPT !.minTrans = IF @ = Infinite THEN call[s].minTrans ELSE @]
<1>1. /\ TypeOK /\ ViewOK(s) /\ CallOK(s) /\ call[s].at = "minTrans"
      /\ shared[s] \in Fields /\ call[s] \in Call
      /\ UNCHANGED <<system, agable, slot, stmts, drop, ager>>
  BY DEF ScnInv, TypeOK, SetMinTrans, KeepTransViews
<1>2. sh \in Fields /\ sh.transView = shared[s].transView
  BY <1>1, ScnType DEF Fields, CallOK
<1>3. shared' = [shared EXCEPT ![s] = sh]
  BY <1>1 DEF SetMinTrans, KeepTransViews, TypeOK, Fields
<1>4. PICK c \in Call :
        /\ call' = [call EXCEPT ![s] = c]
        /\ c.at \in {"snapshot", "stmt", "open"} /\ c.scn \in Scn /\ c.minTrans = call[s].minTrans
  <2>1. View(s) \in Scn
    BY ViewType
  <2>2. CASE \E f \in Unset(s) :
               call' = [call EXCEPT ![s].at = f, ![s].step = "store", ![s].scn = View(s)]
    <3>1. PICK f \in {"snapshot", "stmt"} :
            call' = [call EXCEPT ![s].at = f, ![s].step = "store", ![s].scn = View(s)]
      BY <2>2 DEF Unset
    <3> DEFINE c == [call[s] EXCEPT !.at = f, !.step = "store", !.scn = View(s)]
    <3>2. /\ c \in Call /\ c.at = f /\ c.scn = View(s) /\ c.minTrans = call[s].minTrans
      BY <1>1, <2>1, ScnType DEF Call, Published
    <3>3. call' = [call EXCEPT ![s] = c]
      BY <1>1, <3>1 DEF Call
    <3> QED
      BY <2>1, <3>2, <3>3
  <2>3. CASE call' = [call EXCEPT ![s].at = "open", ![s].scn = View(s)]
    <3> DEFINE c == [call[s] EXCEPT !.at = "open", !.scn = View(s)]
    <3>1. /\ c \in Call /\ c.at = "open" /\ c.scn = View(s) /\ c.minTrans = call[s].minTrans
      BY <1>1, <2>1, ScnType DEF Call
    <3>2. call' = [call EXCEPT ![s] = c]
      BY <1>1, <2>3 DEF Call
    <3> QED
      BY <2>1, <3>1, <3>2
  <2> QED
    BY <2>2, <2>3 DEF SetMinTrans
<1>5. TypeOK'
  BY <1>1, <1>2, <1>3, <1>4 DEF TypeOK
<1>6. call'[s] = c /\ shared'[s] = sh /\ \A t \in Session \ {s} : Untouched(t)
  BY <1>1, <1>3, <1>4 DEF TypeOK, Untouched
<1>7. CallOK(s)' /\ ViewOK(s)'
  BY <1>1, <1>2, <1>4, <1>6 DEF CallOK, ViewOK, Holds, Kept, Published
<1> QED
  BY <1>1, <1>5, <1>6, <1>7, Steady, SessionStep

LEMMA OpenStatementInv ==
  ASSUME ScnInv, NEW s \in Session, OpenStatement(s)
  PROVE  ScnInv'
<1> DEFINE st == [view |-> call[s].scn, minTrans |-> call[s].minTrans,
                  snap |-> call[s].snap, serial |-> Serial(s)]
<1> DEFINE sl == [slot[s] EXCEPT !.updatable = @ \/ call[s].ring = "updatable"]
<1> DEFINE sh == [shared[s] EXCEPT !.stmt = IF @ = Infinite THEN call[s].scn ELSE @]
<1> DEFINE l  == [stmts[s] EXCEPT ![call[s].ring] = Append(@, st)]
<1>1. /\ TypeOK /\ ViewOK(s) /\ CallOK(s) /\ call[s].at = "open" /\ Return(s)
      /\ shared[s] \in Fields /\ call[s] \in Call /\ slot[s] \in Slot
      /\ stmts[s] \in [readOnly : Seq(Statement), updatable : Seq(Statement)]
      /\ UNCHANGED <<system, agable, drop, ager>>
  BY DEF ScnInv, TypeOK, OpenStatement
<1>2. /\ sl \in Slot /\ sl.view = slot[s].view /\ sl.state = slot[s].state
      /\ sh \in Fields /\ sh.transView = shared[s].transView
  BY <1>1, ScnType DEF Slot, Fields, CallOK
<1>3. st \in Statement
  BY <1>1 DEF CallOK, Call, Statement, Serial
<1>4. l \in [readOnly : Seq(Statement), updatable : Seq(Statement)]
  <2>1. call[s].ring \in {"readOnly", "updatable"}
    BY <1>1 DEF Call, Ring
  <2>2. /\ Append(stmts[s].readOnly, st) \in Seq(Statement)
        /\ Append(stmts[s].updatable, st) \in Seq(Statement)
    BY <1>1, <1>3, AppendProperties
  <2> QED
    BY <1>1, <2>1, <2>2
<1>5. /\ slot' = [slot EXCEPT ![s] = sl] /\ shared' = [shared EXCEPT ![s] = sh]
      /\ stmts' = [stmts EXCEPT ![s] = l]
  BY <1>1 DEF OpenStatement, TypeOK, Fields, Slot
<1>6. call' \in [Session -> Call] /\ call'[s].at = "idle" /\ \A t \in Session \ {s} : call'[t] = call[t]
  BY <1>1, ReturnIs
<1>7. TypeOK'
  BY <1>1, <1>2, <1>4, <1>5, <1>6 DEF TypeOK
<1>8. slot'[s] = sl /\ shared'[s] = sh /\ \A t \in Session \ {s} : Untouched(t)
  BY <1>1, <1>5, <1>6 DEF TypeOK, Untouched
<1>9. CallOK(s)' /\ ViewOK(s)'
  BY <1>1, <1>2, <1>6, <1>8 DEF CallOK, ViewOK, Holds, Kept, Published
<1> QED
  BY <1>1, <1>7, <1>8, <1>9, Steady, SessionStep

LEMMA RemoveAtType ==
  ASSUME NEW S, NEW q \in Seq(S), NEW i \in DOMAIN q
  PROVE  RemoveAt(q, i) \in Seq(S)
<1>1. Len(q) \in Nat /\ i \in 1 .. Len(q) /\ \A j \in 1 .. Len(q) : q[j] \in S
  BY LenProperties, ElementOfSeq
<1>2. SubSeq(q, 1, i - 1) \in Seq(S)
  BY <1>1, SubSeqProperties
<1>3. SubSeq(q, i + 1, Len(q)) \in Seq(S)
  BY <1>1, SubSeqProperties
<1> QED
  BY <1>2, <1>3, ConcatProperties DEF RemoveAt

LEMMA FirstType ==
  ASSUME NEW q \in Seq(Statement)
  PROVE  /\ FirstView(q) \in 1 .. Infinite /\ FirstMinTrans(q) \in 1 .. Infinite
         /\ SnapshotView(q) \in 1 .. Infinite
<1>1. DOMAIN q = 1 .. Len(q) /\ Len(q) \in Nat /\ \A j \in 1 .. Len(q) : q[j] \in Statement
  BY LenProperties, ElementOfSeq
<1>2. q # << >> => 1 \in DOMAIN q
  BY <1>1, EmptySeq
<1>3. \A j \in DOMAIN q : q[j].view \in 1 .. Infinite /\ q[j].minTrans \in 1 .. Infinite
  BY <1>1, ScnType DEF Statement
<1>4. FirstSnapshot(q) # {} => (CHOOSE i \in FirstSnapshot(q) : TRUE) \in DOMAIN q
  BY DEF FirstSnapshot
<1> QED
  BY <1>2, <1>3, <1>4, ScnType DEF FirstView, FirstMinTrans, SnapshotView

LEMMA LowerField == \A a, b \in 1 .. Infinite : Lower(a, b) \in 1 .. Infinite
BY DEF Lower

LEMMA FreeStatementInv ==
  ASSUME ScnInv, NEW s \in Session, NEW ring \in Ring, NEW i, FreeStatement(s, ring, i)
  PROVE  ScnInv'
<1> DEFINE l  == [stmts[s] EXCEPT ![ring] = RemoveAt(@, i)]
<1> DEFINE st == stmts[s][ring][i]
<1> DEFINE sh == [shared[s] EXCEPT
          !.snapshot = IF st.snap THEN Lower(SnapshotView(l.readOnly), SnapshotView(l.updatable)) ELSE @,
          !.stmt     = IF st.serial THEN @ ELSE Lower(FirstView(l.readOnly), FirstView(l.updatable)),
          !.minTrans = IF st.serial THEN @ ELSE Lower(FirstMinTrans(l.readOnly), FirstMinTrans(l.updatable))]
<1>1. /\ TypeOK /\ ViewOK(s) /\ CallOK(s) /\ call[s].at = "idle" /\ i \in DOMAIN stmts[s][ring]
      /\ shared[s] \in Fields
      /\ stmts[s] \in [readOnly : Seq(Statement), updatable : Seq(Statement)]
      /\ UNCHANGED <<system, agable, slot, call, drop, ager>>
  BY DEF ScnInv, TypeOK, FreeStatement
<1>2. l \in [readOnly : Seq(Statement), updatable : Seq(Statement)]
  <2>1. stmts[s][ring] \in Seq(Statement)
    BY <1>1 DEF Ring
  <2>2. RemoveAt(stmts[s][ring], i) \in Seq(Statement)
    BY <1>1, <2>1, RemoveAtType
  <2> QED
    BY <1>1, <2>2 DEF Ring
<1>3. stmts' = [stmts EXCEPT ![s] = l] /\ stmts'[s] = l
  BY <1>1 DEF FreeStatement, TypeOK, Ring
<1>4. sh \in Fields /\ sh.transView = shared[s].transView
  <2>1. l.readOnly \in Seq(Statement) /\ l.updatable \in Seq(Statement)
    BY <1>2
  <2>2. /\ Lower(SnapshotView(l.readOnly), SnapshotView(l.updatable)) \in 1 .. Infinite
        /\ Lower(FirstView(l.readOnly), FirstView(l.updatable)) \in 1 .. Infinite
        /\ Lower(FirstMinTrans(l.readOnly), FirstMinTrans(l.updatable)) \in 1 .. Infinite
    BY <2>1, FirstType, LowerField
  <2> HIDE DEF l
  <2> QED
    BY <1>1, <2>2 DEF Fields
<1>5. shared' = [shared EXCEPT ![s] = sh]
  BY <1>1, <1>3 DEF FreeStatement, TypeOK, Fields
<1> HIDE DEF sh, l
<1>6. TypeOK'
  BY <1>1, <1>2, <1>3, <1>4, <1>5 DEF TypeOK
<1>7. shared'[s] = sh /\ \A t \in Session \ {s} : Untouched(t)
  BY <1>1, <1>5 DEF TypeOK, Untouched
<1>8. CallOK(s)' /\ ViewOK(s)'
  BY <1>1, <1>4, <1>7 DEF CallOK, ViewOK, Holds, Kept
<1> QED
  BY <1>1, <1>6, <1>7, <1>8, Steady, SessionStep

LEMMA AgeDroppedInv ==
  ASSUME ScnInv, NEW s \in Session, AgeDropped(s)
  PROVE  ScnInv'
<1>1. TypeOK /\ UNCHANGED <<system, agable, shared, slot, stmts, call, ager>>
  BY DEF ScnInv, AgeDropped
<1>2. TypeOK'
  BY <1>1, ScnType DEF TypeOK, AgeDropped
<1>3. CallOK(s)' /\ ViewOK(s)'
  BY <1>1 DEF ScnInv, CallOK, ViewOK, Holds, Kept
<1> QED
  BY <1>1, <1>2, <1>3, Steady, SessionStep DEF Untouched

LEMMA OtherScnInv ==
  ASSUME ScnInv, OtherScn
  PROVE  ScnInv'
<1>1. /\ TypeOK /\ system < MaxScn /\ system' = system + 1
      /\ UNCHANGED <<agable, shared, slot, stmts, call, drop, ager>>
  BY ScnAssumption DEF ScnInv, TypeOK, Scn, OtherScn, sessionVars
<1>2. system' \in Scn /\ system <= system'
  BY <1>1, NextScn
<1>3. TypeOK'
  BY <1>1, <1>2 DEF TypeOK
<1>4. \A t \in Session : CallOK(t)' /\ ViewOK(t)' /\ Ordered'
  BY <1>1, <1>2, OthersKept DEF Untouched
<1> QED
  BY <1>3, <1>4, ScnType DEF ScnInv

-----------------------------------------------------------------------------
(* The ager *)

LEMMA BeginPassInv ==
  ASSUME ScnInv, BeginPass
  PROVE  ScnInv'
<1>1. /\ TypeOK /\ UNCHANGED <<system, agable, shared, slot, stmts, call, drop>>
      /\ ager' = [at |-> "sessions", next |-> 1, field |-> "snapshot",
                  scn |-> system, stmt |-> system, trans |-> system, view |-> system]
  BY DEF ScnInv, BeginPass, sessionVars
<1>2. TypeOK'
  BY <1>1, ScnType DEF TypeOK, Ager
<1>3. Ordered'
  BY <1>1, ScnType DEF ScnInv, Ordered, TypeOK
<1>4. ASSUME NEW s \in Session PROVE CallOK(s)' /\ ViewOK(s)'
  <2>1. 1 <= s
    BY DEF Session
  <2> QED
    BY <1>1, <2>1 DEF ScnInv, CallOK, ViewOK, Holds, Kept
<1> QED
  BY <1>2, <1>3, <1>4 DEF ScnInv

\* A step of a pass: the minimum of the views only falls, and the pass goes on to the
\* next session after it has taken the view of the present one.
LEMMA PassStep ==
  ASSUME ScnInv, ager' \in Ager, UNCHANGED <<system, agable, sessionVars>>, ager'.trans <= ager.trans,
         ager.at = "sessions" => \/ ager'.at = "sessions" /\ ager'.next = ager.next
                                 \/ /\ ager'.trans <= shared[ager.next].transView
                                    /\ \/ ager.next = N
                                       \/ ager'.at = "sessions" /\ ager'.next = ager.next + 1
  PROVE  ScnInv'
<1>1. /\ TypeOK /\ Ordered /\ \A s \in Session : CallOK(s) /\ ViewOK(s)
      /\ UNCHANGED <<shared, slot, stmts, call, drop>>
  BY DEF ScnInv, sessionVars
<1>2. TypeOK'
  BY <1>1 DEF TypeOK
<1>3. /\ ager.trans \in Nat /\ ager'.trans \in Nat /\ system \in Nat /\ ager.next \in Session
  BY <1>1, ScnType DEF TypeOK, Ager
<1>4. Ordered'
  BY <1>1, <1>3 DEF Ordered
<1>5. ASSUME NEW s \in Session PROVE CallOK(s)' /\ ViewOK(s)'
  <2>1. CallOK(s)'
    BY <1>1 DEF CallOK
  <2>2. shared[s].transView \in Nat /\ shared[ager.next].transView \in Nat
    BY <1>1, <1>3, ScnType DEF TypeOK, Fields
  <2>3. Kept(s) => Kept(s)'
    <3>1. ASSUME Kept(s)
          PROVE  ager'.trans <= shared[s].transView \/ (ager'.at = "sessions" /\ ager'.next <= s)
      <4>1. CASE ager.trans <= shared[s].transView
        BY <1>3, <2>2, <4>1
      <4>2. CASE ager.at = "sessions" /\ ager.next = s
        BY <1>3, <2>2, <4>2 DEF Session
      <4>3. CASE ager.at = "sessions" /\ ager.next < s
        BY <1>3, <2>2, <4>3, ScnAssumption DEF Session
      <4> QED
        BY <1>3, <3>1, <4>1, <4>2, <4>3 DEF Kept, Session
    <3> QED
      BY <1>1, <3>1 DEF Kept
  <2>4. ViewOK(s)'
    BY <1>1, <2>3 DEF ViewOK, Holds
  <2> QED
    BY <2>1, <2>4
<1> QED
  BY <1>2, <1>4, <1>5 DEF ScnInv

LEMMA ReadFieldInv ==
  ASSUME ScnInv, ReadField
  PROVE  ScnInv'
<1> DEFINE f    == ager.field
<1> DEFINE v    == shared[ager.next][f]
<1> DEFINE last == f = "transView"
<1>1. /\ TypeOK /\ ager \in Ager /\ ager.at = "sessions" /\ UNCHANGED <<system, agable, sessionVars>>
  BY DEF ScnInv, TypeOK, ReadField
<1>2. /\ f \in {"snapshot", "stmt", "disabled", "minTrans", "transView"} /\ ager.next \in Session
      /\ ager.scn \in Scn /\ ager.stmt \in Scn /\ ager.trans \in Scn /\ ager.view \in Scn
  BY <1>1 DEF Ager
<1>3. v \in 1 .. Infinite
  BY <1>1, <1>2 DEF TypeOK, Fields
<1>4. PICK scn, stmt, trans, view \in Scn, next \in Session, at \in {"sessions", "slots"} :
        /\ ager' = [ager EXCEPT !.scn = scn, !.stmt = stmt, !.trans = trans, !.view = view,
                                !.field = NextField[f], !.next = next, !.at = at]
        /\ trans = IF last THEN Lower(ager.trans, v) ELSE ager.trans
        /\ next = IF ~last THEN ager.next ELSE IF ager.next < N THEN ager.next + 1 ELSE 1
        /\ at = IF last /\ ager.next = N THEN "slots" ELSE "sessions"
  <2> DEFINE scn   == IF f \in {"snapshot", "disabled"} THEN Lower(ager.scn, v) ELSE ager.scn
  <2> DEFINE stmt  == IF f \in {"stmt", "disabled"} THEN Lower(ager.stmt, v) ELSE ager.stmt
  <2> DEFINE trans == IF last THEN Lower(ager.trans, v) ELSE ager.trans
  <2> DEFINE view  == IF f = "minTrans" /\ agable.view <= v THEN Lower(ager.view, v) ELSE ager.view
  <2> DEFINE next  == IF ~last THEN ager.next ELSE IF ager.next < N THEN ager.next + 1 ELSE 1
  <2> DEFINE at    == IF last /\ ager.next = N THEN "slots" ELSE "sessions"
  <2>1. scn \in Scn /\ stmt \in Scn /\ trans \in Scn /\ view \in Scn
    BY <1>2, <1>3, LowerScn
  <2>2. next \in Session /\ at \in {"sessions", "slots"}
    BY <1>2, ScnAssumption DEF Session
  <2>3. ager' = [ager EXCEPT !.scn = scn, !.stmt = stmt, !.trans = trans, !.view = view,
                            !.field = NextField[f], !.next = next, !.at = at]
    BY <1>1 DEF ReadField, Ager
  <2>4. /\ trans = IF last THEN Lower(ager.trans, v) ELSE ager.trans
        /\ next = IF ~last THEN ager.next ELSE IF ager.next < N THEN ager.next + 1 ELSE 1
        /\ at = IF last /\ ager.next = N THEN "slots" ELSE "sessions"
    OBVIOUS
  <2> HIDE DEF scn, stmt, trans, view, next, at, f, v, last
  <2> QED
    BY <2>1, <2>2, <2>3, <2>4
<1>5. NextField[f] \in {"snapshot", "stmt", "disabled", "minTrans", "transView"}
  BY <1>2 DEF NextField
<1>6. /\ ager' \in Ager /\ ager'.trans = trans /\ ager'.next = next /\ ager'.at = at
  BY <1>1, <1>4, <1>5 DEF Ager
<1>7. trans <= ager.trans /\ (last => trans <= shared[ager.next].transView)
  <2>1. last => v = shared[ager.next].transView
    OBVIOUS
  <2> HIDE DEF v, last
  <2>2. Lower(ager.trans, v) <= ager.trans /\ Lower(ager.trans, v) <= v
    BY <1>2, <1>3, LowerScn
  <2>3. ager.trans <= ager.trans
    BY <1>2, ScnReflexive
  <2> QED
    BY <1>4, <2>1, <2>2, <2>3
<1>8. \/ at = "sessions" /\ next = ager.next
      \/ /\ trans <= shared[ager.next].transView
         /\ ager.next = N \/ (at = "sessions" /\ next = ager.next + 1)
  BY <1>2, <1>4, <1>7, ScnAssumption DEF Session
<1> QED
  BY <1>1, <1>6, <1>7, <1>8, PassStep

LEMMA ReadSlotInv ==
  ASSUME ScnInv, ReadSlot
  PROVE  ScnInv'
<1> DEFINE s      == ager.next
<1> DEFINE active == slot[s].state \in {"active", "precommit"}
<1> DEFINE serial == active /\ s \in Serializable
<1> DEFINE v      == slot[s].view
<1>1. /\ TypeOK /\ ager \in Ager /\ ager.at = "slots" /\ UNCHANGED <<system, agable, sessionVars>>
  BY DEF ScnInv, TypeOK, ReadSlot
<1>2. /\ s \in Session /\ ager.scn \in Scn /\ ager.stmt \in Scn /\ ager.trans \in Scn
  BY <1>1 DEF Ager
<1>3. v \in 1 .. Infinite
  BY <1>1, <1>2 DEF TypeOK, Slot
<1>4. PICK scn, stmt, trans \in Scn, next \in Session, at \in {"slots", "write"} :
        /\ ager' = [ager EXCEPT !.trans = trans, !.scn = scn, !.stmt = stmt, !.next = next, !.at = at]
        /\ trans <= ager.trans
  <2> DEFINE trans == IF active THEN Lower(ager.trans, v) ELSE ager.trans
  <2> DEFINE scn   == IF serial THEN Lower(ager.scn, v) ELSE ager.scn
  <2> DEFINE stmt  == IF serial THEN Lower(ager.stmt, v) ELSE ager.stmt
  <2> DEFINE next  == IF s < N THEN s + 1 ELSE 1
  <2> DEFINE at    == IF s = N THEN "write" ELSE "slots"
  <2>1. scn \in Scn /\ stmt \in Scn /\ trans \in Scn /\ trans <= ager.trans
    <3> HIDE DEF v, active, serial
    <3>1. /\ Lower(ager.scn, v) \in Scn /\ Lower(ager.stmt, v) \in Scn /\ Lower(ager.trans, v) \in Scn
          /\ Lower(ager.trans, v) <= ager.trans
      BY <1>2, <1>3, LowerScn
    <3>2. ager.trans <= ager.trans
      BY <1>2, ScnReflexive
    <3> QED
      BY <1>2, <3>1, <3>2
  <2>2. next \in Session /\ at \in {"slots", "write"}
    BY <1>2, ScnAssumption DEF Session
  <2>3. ager' = [ager EXCEPT !.trans = trans, !.scn = scn, !.stmt = stmt, !.next = next, !.at = at]
    BY <1>1 DEF ReadSlot, Ager
  <2> QED
    BY <2>1, <2>2, <2>3
<1>5. ager' \in Ager /\ ager'.trans = trans
  BY <1>1, <1>4 DEF Ager
<1> QED
  BY <1>1, <1>4, <1>5, PassStep

LEMMA EndPassInv ==
  ASSUME ScnInv, EndPass
  PROVE  ScnInv'
<1> DEFINE stmt  == Lower(ager.scn, ager.stmt)
<1> DEFINE trans == Lower(stmt, ager.trans)
<1> DEFINE view  == Lower(trans, ager.view)
<1>1. /\ TypeOK /\ Ordered /\ ager \in Ager /\ ager.at = "write"
      /\ UNCHANGED <<system, shared, slot, stmts, call, drop>>
      /\ agable' = [scn |-> ager.scn, stmt |-> stmt, minTrans |-> trans, view |-> view]
      /\ ager' = [ager EXCEPT !.at = "idle", !.scn = 1, !.stmt = 1, !.trans = 1, !.view = 1]
  BY DEF ScnInv, TypeOK, EndPass, sessionVars
<1>2. ager.scn \in Scn /\ ager.stmt \in Scn /\ ager.trans \in Scn /\ ager.view \in Scn /\ system \in Scn
  BY <1>1 DEF Ager, TypeOK
<1>3. stmt \in Scn /\ trans \in Scn /\ view \in Scn /\ trans <= ager.trans /\ view <= trans
  BY <1>2, LowerType, ScnType DEF Lower
<1>4. ager' \in Ager /\ ager'.trans = 1 /\ ager'.at = "idle"
  BY <1>1, ScnType DEF Ager
<1> HIDE DEF stmt, trans, view
<1>5. TypeOK'
  <2>1. agable' \in Agable
    BY <1>1, <1>2, <1>3 DEF Agable
  <2> QED
    BY <1>1, <1>4, <2>1 DEF TypeOK
<1>6. trans <= system /\ 1 <= system
  BY <1>1, <1>2, <1>3, ScnType DEF Ordered, Scn
<1>7. Ordered'
  BY <1>1, <1>3, <1>4, <1>6 DEF Ordered
<1>8. ASSUME NEW s \in Session PROVE CallOK(s)' /\ ViewOK(s)'
  <2>1. CallOK(s) /\ ViewOK(s)
    BY DEF ScnInv
  <2>2. shared[s].transView \in Nat /\ 1 <= shared[s].transView
    BY <1>1, ScnType DEF TypeOK, Fields
  <2>3. Kept(s) => trans <= shared[s].transView
    BY <1>1, <1>2, <1>3, <2>2, ScnType DEF Kept
  <2>4. Kept(s) => Kept(s)'
    BY <1>1, <1>4, <2>2, <2>3 DEF Kept
  <2> QED
    BY <1>1, <2>1, <2>4 DEF CallOK, ViewOK, Holds
<1> QED
  BY <1>5, <1>7, <1>8 DEF ScnInv

-----------------------------------------------------------------------------
LEMMA NextInv == ScnInv /\ [Next]_vars => ScnInv'
<1> SUFFICES ASSUME ScnInv, [Next]_vars PROVE ScnInv'
  OBVIOUS
<1>1. ASSUME NEW s \in Session, GoOn(s) PROVE ScnInv'
  BY <1>1, LoadInv, StoreInv, CheckInv, ActivateInv, TakeCommitScnInv, SetEndedInv, PendingInv,
     UnlockInv, FreeTransInv, SetMinTransInv, OpenStatementInv DEF GoOn
<1>2. ASSUME NEW s \in Session, AllocTrans(s) \/ EndTrans(s) \/ AgeDropped(s) PROVE ScnInv'
  BY <1>2, AllocTransInv, EndTransInv, AgeDroppedInv
<1>3. ASSUME NEW s \in Session, NEW k \in Kinds[s], AllocStatement(s, k.snap, k.ring) PROVE ScnInv'
  BY <1>3, AllocStatementInv
<1>4. ASSUME NEW s \in Session, NEW ring \in Ring, NEW i \in 1 .. MaxStmts[s], FreeStatement(s, ring, i)
      PROVE  ScnInv'
  BY <1>4, FreeStatementInv
<1>5. CASE OtherScn
  BY <1>5, OtherScnInv
<1>6. CASE Age
  BY <1>6, BeginPassInv, ReadFieldInv, ReadSlotInv, EndPassInv DEF Age
<1>7. CASE UNCHANGED vars
  BY <1>7 DEF vars, ScnInv, TypeOK, Ordered, CallOK, ViewOK, Holds, Kept
<1> QED
  BY <1>1, <1>2, <1>3, <1>4, <1>5, <1>6, <1>7 DEF Next

LEMMA ScnInvariant == Spec => []ScnInv
BY InitInv, NextInv, PTL DEF Spec

\* ScnTypes: each variable of the SCN manager keeps its type; in particular no field of
\* mAgableScn and its like ever becomes SML_INFINITE_SCN, however many sessions there are.
THEOREM ScnTypes == Spec => []TypeOK
BY ScnInvariant, PTL DEF ScnInv

\* RunningIsHidden: mAgableViewScn never passes the view of a transaction that has not
\* ended, so smxlGetSafeCommitScn never takes one for committed, for any number of
\* sessions, statements and passes of the ager.
THEOREM RunningIsHidden == Spec => []UncommittedIsHidden
<1>1. ScnInv => UncommittedIsHidden
  <2> SUFFICES ASSUME ScnInv, NEW s \in Session, slot[s].state \in {"active", "precommit"}
               PROVE  agable.view <= slot[s].view
    BY DEF UncommittedIsHidden
  <2>1. TypeOK /\ Ordered /\ slot[s].view = shared[s].transView /\ Kept(s)
    BY DEF ScnInv, ViewOK, Holds
  <2>2. agable.view \in Nat /\ agable.minTrans \in Nat /\ shared[s].transView \in Nat
    BY <2>1, ScnType DEF TypeOK, Agable, Fields
  <2> QED
    BY <2>1, <2>2 DEF Ordered, Kept
<1> QED
  BY <1>1, ScnInvariant, PTL
-----------------------------------------------------------------------------
(* What the ager may throw away.  The second invariant holds on top of     *)
(* ScnInv: a view that a session has checked after it was published is     *)
(* kept, by the field of the session or by what the ager has taken from it.*)

\* The present pass of the ager has still to read one of the fields F of the session.
Unread(s, F) == ager.at = "sessions" /\ (ager.next < s \/ (ager.next = s /\ ager.field \in F))

\* The field published is not above the view, no finished pass has passed the view, and
\* the present one has read the field or will.
KeptScn(s, view) ==
  /\ shared[s].snapshot <= view
  /\ agable.scn <= view
  /\ ager.scn <= view \/ Unread(s, {"snapshot"})

KeptStmt(s, view) ==
  /\ shared[s].stmt <= view
  /\ agable.stmt <= view
  /\ ager.scn <= view \/ ager.stmt <= view \/ Unread(s, {"snapshot", "stmt"})

KeptDrop(s) ==
  /\ shared[s].disabled <= system
  /\ agable.stmt <= shared[s].disabled
  /\ \/ ager.scn <= shared[s].disabled
     \/ ager.stmt <= shared[s].disabled
     \/ Unread(s, {"snapshot", "stmt", "disabled"})

AgerOrdered ==
  /\ agable.scn <= system /\ agable.stmt <= agable.scn
  /\ ager.scn <= system /\ ager.stmt <= system

FieldsOK(s) ==
  \A f \in {"snapshot", "stmt", "disabled"} : shared[s][f] = Infinite \/ shared[s][f] <= system

\* No open statement of the session began after the view.
Older(s, view) ==
  \A ring \in Ring : \A i \in DOMAIN stmts[s][ring] : stmts[s][ring][i].view <= view

Sorted(s) ==
  \A ring \in Ring : \A i, j \in DOMAIN stmts[s][ring] :
    i <= j => stmts[s][ring][i].view <= stmts[s][ring][j].view

StmtsOK(s) ==
  \A ring \in Ring : \A i \in DOMAIN stmts[s][ring] :
    LET st == stmts[s][ring][i]
    IN ~st.serial => /\ KeptStmt(s, st.view)
                     /\ st.snap => KeptScn(s, st.view)
                     /\ call[s].at # "stmt"
                     /\ st.snap => call[s].at # "snapshot"

PublishOK(s) ==
  /\ call[s].at \in Published /\ call[s].step # "load" => call[s].scn <= system
  /\ call[s].at \in Published /\ call[s].step = "check" => shared[s][call[s].at] = call[s].scn
  /\ call[s].at = "snapshot" => call[s].snap
  /\ call[s].at = "stmt" /\ call[s].snap => shared[s].snapshot # Infinite
  /\ call[s].at \in {"snapshot", "stmt"} /\ Serial(s) => call[s].step # "load" /\ call[s].scn = slot[s].view

OpenOK(s) ==
  call[s].at = "open" =>
    /\ call[s].scn <= system /\ Older(s, call[s].scn)
    /\ Serial(s) => call[s].scn = slot[s].view
    /\ ~Serial(s) => /\ call[s].snap => KeptScn(s, call[s].scn)
                     /\ IF shared[s].stmt = Infinite THEN call[s].snap ELSE KeptStmt(s, call[s].scn)

DropOK(s) ==
  /\ call[s].at \in {"ended", "pending"} \/ (call[s].at = "unlock" /\ call[s].scn # 0) => KeptDrop(s)
  /\ call[s].at = "unlock" /\ call[s].scn # 0 => shared[s].disabled < call[s].scn

TransOK(s) == call[s].at = "activate" \/ Serial(s) => Older(s, shared[s].transView)

ReadOK(s) ==
  /\ FieldsOK(s) /\ Older(s, system) /\ Sorted(s) /\ StmtsOK(s)
  /\ PublishOK(s) /\ OpenOK(s) /\ DropOK(s) /\ TransOK(s)

ReadInv == AgerOrdered /\ \A s \in Session : ReadOK(s)

-----------------------------------------------------------------------------
LEMMA SharedType ==
  ASSUME TypeOK, NEW s \in Session
  PROVE  /\ shared[s].snapshot \in 1 .. Infinite /\ shared[s].stmt \in 1 .. Infinite
         /\ shared[s].disabled \in 1 .. Infinite /\ shared[s].transView \in 1 .. Infinite
         /\ shared[s].snapshot \in Nat /\ shared[s].stmt \in Nat
         /\ shared[s].disabled \in Nat /\ shared[s].transView \in Nat
         /\ Infinite \in Nat
BY ScnType DEF TypeOK, Fields

LEMMA AgerType ==
  ASSUME TypeOK
  PROVE  /\ system \in Nat /\ system < Infinite /\ 1 <= system
         /\ agable.scn \in Nat /\ agable.stmt \in Nat /\ ager.scn \in Nat /\ ager.stmt \in Nat
         /\ ager.next \in Session /\ ager.next \in Nat
<1>1. \A a \in Scn : a \in Nat /\ a < Infinite /\ 1 <= a
  BY ScnType DEF Scn
<1>2. system \in Scn /\ agable \in Agable /\ ager \in Ager
  BY DEF TypeOK
<1> QED
  BY <1>1, <1>2, ScnType DEF Agable, Ager

LEMMA StmtType ==
  ASSUME TypeOK, NEW s \in Session, NEW ring \in Ring
  PROVE  /\ stmts[s][ring] \in Seq(Statement)
         /\ DOMAIN stmts[s][ring] = 1 .. Len(stmts[s][ring]) /\ Len(stmts[s][ring]) \in Nat
         /\ \A i \in DOMAIN stmts[s][ring] :
              /\ stmts[s][ring][i] \in Statement
              /\ stmts[s][ring][i].view \in Scn /\ stmts[s][ring][i].view \in Nat
              /\ stmts[s][ring][i].view < Infinite
<1>1. stmts[s][ring] \in Seq(Statement)
  BY DEF TypeOK, Ring
<1>2. DOMAIN stmts[s][ring] = 1 .. Len(stmts[s][ring]) /\ Len(stmts[s][ring]) \in Nat
  BY <1>1, LenProperties
<1>3. \A i \in DOMAIN stmts[s][ring] : stmts[s][ring][i] \in Statement
  BY <1>1, <1>2, ElementOfSeq
<1> QED
  BY <1>1, <1>2, <1>3, ScnType DEF Statement

\* What is kept stays kept while the field of the session does not rise.
LEMMA KeptLasts ==
  ASSUME TypeOK, TypeOK', NEW s \in Session, NEW view \in Nat, UNCHANGED <<agable, ager>>
  PROVE  /\ KeptScn(s, view) /\ shared'[s].snapshot <= view => KeptScn(s, view)'
         /\ KeptStmt(s, view) /\ shared'[s].stmt <= view => KeptStmt(s, view)'
BY DEF KeptScn, KeptStmt, Unread

LEMMA DropLasts ==
  ASSUME TypeOK, TypeOK', NEW s \in Session, UNCHANGED <<agable, ager>>, system <= system',
         shared'[s].disabled = shared[s].disabled, KeptDrop(s)
  PROVE  KeptDrop(s)'
<1>1. system \in Nat /\ system' \in Nat /\ shared[s].disabled \in Nat
  BY AgerType, SharedType, ScnType DEF TypeOK
<1> QED
  BY <1>1 DEF KeptDrop, Unread

\* Everything that is not above the present SCN is kept.
LEMMA SystemKept ==
  ASSUME TypeOK, AgerOrdered, NEW s \in Session
  PROVE  /\ shared[s].snapshot <= system => KeptScn(s, system)
         /\ shared[s].stmt <= system => KeptStmt(s, system)
         /\ shared[s].disabled = system => KeptDrop(s)
BY AgerType, SharedType DEF AgerOrdered, KeptScn, KeptStmt, KeptDrop

-----------------------------------------------------------------------------
(* What one session does keeps what the invariant says of the others. *)

\* The statements of a session, when it opens and closes none and does not start to
\* publish a field.
LEMMA StmtsLast ==
  ASSUME TypeOK, TypeOK', NEW s \in Session, ReadOK(s), stmts'[s] = stmts[s],
         UNCHANGED <<agable, ager>>, system <= system',
         shared'[s].snapshot = shared[s].snapshot, shared'[s].stmt = shared[s].stmt,
         call'[s].at \in {"snapshot", "stmt"} => call'[s].at = call[s].at
  PROVE  Older(s, system)' /\ Sorted(s)' /\ StmtsOK(s)'
<1>1. system \in Nat /\ system' \in Nat
  BY AgerType, ScnType DEF TypeOK
<1>2. Older(s, system)'
  BY <1>1, StmtType DEF ReadOK, Older
<1>3. Sorted(s)'
  BY DEF ReadOK, Sorted
<1>4. StmtsOK(s)'
  <2>1. ASSUME NEW ring \in Ring, NEW i \in DOMAIN stmts[s][ring], NEW st, st = stmts[s][ring][i], ~st.serial
        PROVE  /\ KeptStmt(s, st.view)'
               /\ st.snap => KeptScn(s, st.view)'
               /\ call'[s].at # "stmt"
               /\ st.snap => call'[s].at # "snapshot"
    <3>1. /\ KeptStmt(s, st.view) /\ (st.snap => KeptScn(s, st.view))
          /\ call[s].at # "stmt" /\ (st.snap => call[s].at # "snapshot")
      BY <2>1 DEF ReadOK, StmtsOK
    <3>2. st.view \in Nat
      BY <2>1, StmtType
    <3> QED
      BY <3>1, <3>2, KeptLasts DEF KeptStmt, KeptScn
  <2> QED
    BY <2>1 DEF StmtsOK, KeptStmt, KeptScn, Unread
<1> QED
  BY <1>2, <1>3, <1>4

\* A step of one session: it is enough to look at that session.
LEMMA ReadStep ==
  ASSUME TypeOK, TypeOK', ReadInv, NEW s \in Session, UNCHANGED <<agable, ager>>, system <= system',
         \A t \in Session \ {s} : Untouched(t) /\ stmts'[t] = stmts[t],
         ReadOK(s)'
  PROVE  ReadInv'
<1>1. system \in Nat /\ system' \in Nat
  BY AgerType, ScnType DEF TypeOK
<1>2. AgerOrdered'
  BY <1>1, AgerType DEF ReadInv, AgerOrdered
<1>3. ASSUME NEW t \in Session PROVE ReadOK(t)'
  <2>1. CASE t = s
    BY <2>1
  <2>2. CASE t # s
    <3>1. ReadOK(t) /\ Untouched(t) /\ stmts'[t] = stmts[t]
      BY <2>2 DEF ReadInv
    <3>2. Older(t, system)' /\ Sorted(t)' /\ StmtsOK(t)'
      BY <3>1, StmtsLast DEF Untouched
    <3>3. FieldsOK(t)'
      BY <1>1, <3>1, SharedType DEF Untouched, ReadOK, FieldsOK
    <3>4. PublishOK(t)'
      <4>1. call[t].scn \in Nat
        BY ScnType DEF TypeOK, Call
      <4> QED
        BY <1>1, <3>1, <4>1 DEF Untouched, ReadOK, PublishOK, Serial
    <3>5. OpenOK(t)'
      <4>1. call[t].scn \in Nat
        BY ScnType DEF TypeOK, Call
      <4>2. KeptScn(t, call[t].scn) => KeptScn(t, call[t].scn)'
        BY <3>1 DEF Untouched, KeptScn, Unread
      <4>3. KeptStmt(t, call[t].scn) => KeptStmt(t, call[t].scn)'
        BY <3>1 DEF Untouched, KeptStmt, Unread
      <4>4. Older(t, call[t].scn) => Older(t, call[t].scn)'
        BY <3>1 DEF Untouched, Older
      <4>5. Serial(t)' = Serial(t)
        BY <3>1 DEF Untouched, Serial
      <4> QED
        BY <1>1, <3>1, <4>1, <4>2, <4>3, <4>4, <4>5 DEF Untouched, ReadOK, OpenOK
    <3>6. DropOK(t)'
      BY <3>1, DropLasts DEF Untouched, ReadOK, DropOK
    <3>7. TransOK(t)'
      BY <3>1 DEF Untouched, ReadOK, TransOK, Older, Serial
    <3> QED
      BY <3>2, <3>3, <3>4, <3>5, <3>6, <3>7 DEF ReadOK
  <2> QED
    BY <2>1, <2>2
<1> QED
  BY <1>2, <1>3 DEF ReadInv

\* The same of a step that changes no field of the session and none of its statements.
LEMMA CallStep ==
  ASSUME TypeOK, TypeOK', ReadInv, NEW s \in Session, UNCHANGED <<agable, shared, stmts, ager>>,
         system <= system', \A t \in Session \ {s} : call'[t] = call[t] /\ slot'[t] = slot[t],
         call'[s].at \in {"snapshot", "stmt"} => call'[s].at = call[s].at,
         PublishOK(s)', OpenOK(s)', DropOK(s)', TransOK(s)'
  PROVE  ReadInv'
<1>1. ReadOK(s)
  BY DEF ReadInv
<1>2. Older(s, system)' /\ Sorted(s)' /\ StmtsOK(s)'
  BY <1>1, StmtsLast
<1>3. FieldsOK(s)'
  <2>1. system \in Nat /\ system' \in Nat
    BY AgerType, ScnType DEF TypeOK
  <2> QED
    BY <1>1, <2>1, SharedType DEF ReadOK, FieldsOK
<1>4. ReadOK(s)'
  BY <1>2, <1>3 DEF ReadOK
<1> QED
  BY <1>4, ReadStep DEF Untouched

\* What a call keeps of its locals.
LEMMA GotoKeeps ==
  ASSUME TypeOK, NEW s \in Session, NEW at, Goto(s, at)
  PROVE  /\ call'[s].at = at /\ call'[s].step = "load" /\ call'[s].snap = call[s].snap
         /\ call'[s].ring = call[s].ring
         /\ call'[s].scn = IF at = "open" THEN call[s].scn ELSE 0
         /\ \A t \in Session \ {s} : call'[t] = call[t]
<1> DEFINE c == [call[s] EXCEPT !.at = at, !.step = "load", !.scn = IF at = "open" THEN @ ELSE 0]
<1>1. call[s] \in Call
  BY DEF TypeOK
<1>2. call' = [call EXCEPT ![s] = c]
  BY <1>1 DEF Goto, Call
<1> QED
  BY <1>1, <1>2 DEF TypeOK, Call

LEMMA PublishKeeps ==
  ASSUME TypeOK, NEW s \in Session, NEW f, Publish(s, f)
  PROVE  /\ call'[s].at = f /\ call'[s].step = "store" /\ call'[s].snap = call[s].snap
         /\ call'[s].ring = call[s].ring /\ call'[s].scn = system
         /\ \A t \in Session \ {s} : call'[t] = call[t]
<1> DEFINE c == [call[s] EXCEPT !.at = f, !.step = "store", !.scn = system]
<1>1. call[s] \in Call
  BY DEF TypeOK
<1>2. call' = [call EXCEPT ![s] = c]
  BY <1>1 DEF Publish, Call
<1> QED
  BY <1>1, <1>2 DEF TypeOK, Call

-----------------------------------------------------------------------------
(* Publishing a view *)

LEMMA LoadRead ==
  ASSUME ScnInv, ReadInv, ScnInv', NEW s \in Session, Load(s)
  PROVE  ReadInv'
<1>1. /\ TypeOK /\ TypeOK' /\ ReadOK(s) /\ call[s].at \in Published /\ call[s].step = "load"
      /\ Publish(s, call[s].at)
      /\ UNCHANGED <<system, agable, shared, slot, stmts, drop, ager>>
  BY DEF ScnInv, ReadInv, Load
<1>2. /\ call'[s].at = call[s].at /\ call'[s].step = "store" /\ call'[s].snap = call[s].snap
      /\ call'[s].scn = system /\ \A t \in Session \ {s} : call'[t] = call[t]
  BY <1>1, PublishKeeps
<1>3. PublishOK(s)'
  <2>1. Serial(s)' = Serial(s) /\ system' <= system'
    BY <1>1, AgerType DEF Serial
  <2> QED
    BY <1>1, <1>2, <2>1 DEF ReadOK, PublishOK
<1>4. OpenOK(s)' /\ DropOK(s)' /\ TransOK(s)'
  BY <1>1, <1>2 DEF ReadOK, OpenOK, DropOK, TransOK, Published, Serial, Older
<1> QED
  BY <1>1, <1>2, <1>3, <1>4, Steady, CallStep

LEMMA StoreRead ==
  ASSUME ScnInv, ReadInv, ScnInv', NEW s \in Session, Store(s)
  PROVE  ReadInv'
<1> DEFINE at == call[s].at
<1> DEFINE f  == [shared[s] EXCEPT ![at] = call[s].scn]
<1> DEFINE c  == [call[s] EXCEPT !.step = "check"]
<1>1. /\ TypeOK /\ TypeOK' /\ ReadOK(s) /\ ViewOK(s) /\ at \in Published /\ call[s].step = "store"
      /\ shared[s] \in Fields /\ call[s] \in Call
      /\ UNCHANGED <<system, agable, slot, stmts, drop, ager>>
  BY DEF ScnInv, ReadInv, Store, TypeOK
<1>2. call' = [call EXCEPT ![s] = c] /\ shared' = [shared EXCEPT ![s] = f]
  BY <1>1 DEF Store, TypeOK, Call, Fields
<1>3. /\ call'[s].at = at /\ call'[s].step = "check" /\ call'[s].snap = call[s].snap
      /\ call'[s].scn = call[s].scn /\ shared'[s] = f
      /\ \A t \in Session \ {s} : call'[t] = call[t] /\ shared'[t] = shared[t]
  BY <1>1, <1>2 DEF TypeOK, Call
<1>4. /\ shared'[s][at] = call[s].scn
      /\ at # "snapshot" => shared'[s].snapshot = shared[s].snapshot
      /\ at # "stmt" => shared'[s].stmt = shared[s].stmt
      /\ at # "disabled" => shared'[s].disabled = shared[s].disabled
      /\ at # "transView" => shared'[s].transView = shared[s].transView
  BY <1>1, <1>3 DEF Fields, Published
<1>5. FieldsOK(s)'
  BY <1>1, <1>4 DEF ReadOK, FieldsOK, PublishOK, Published
<1>6. Older(s, system)' /\ Sorted(s)'
  BY <1>1 DEF ReadOK, Older, Sorted
<1>7. StmtsOK(s)'
  <2>1. ASSUME NEW ring \in Ring, NEW i \in DOMAIN stmts[s][ring], NEW st, st = stmts[s][ring][i], ~st.serial
        PROVE  /\ KeptStmt(s, st.view)'
               /\ st.snap => KeptScn(s, st.view)'
               /\ call'[s].at # "stmt"
               /\ st.snap => call'[s].at # "snapshot"
    <3>1. /\ KeptStmt(s, st.view) /\ (st.snap => KeptScn(s, st.view))
          /\ call[s].at # "stmt" /\ (st.snap => call[s].at # "snapshot")
      BY <1>1, <2>1 DEF ReadOK, StmtsOK
    <3>2. st.view \in Nat
      BY <1>1, <2>1, StmtType
    <3> QED
      BY <1>1, <1>3, <1>4, <3>1, <3>2, KeptLasts DEF KeptStmt, KeptScn
  <2> QED
    BY <1>1, <2>1 DEF StmtsOK, KeptStmt, KeptScn, Unread
<1>8. PublishOK(s)'
  <2>1. Serial(s)' = Serial(s)
    BY <1>1 DEF Serial
  <2> QED
    BY <1>1, <1>3, <1>4, <2>1 DEF ReadOK, PublishOK
<1>9. OpenOK(s)' /\ DropOK(s)'
  BY <1>1, <1>3 DEF OpenOK, DropOK, Published
<1>10. TransOK(s)'
  BY <1>1, <1>3, <1>4 DEF ReadOK, TransOK, ViewOK, Serial, Older, Published
<1>11. ReadOK(s)'
  BY <1>5, <1>6, <1>7, <1>8, <1>9, <1>10 DEF ReadOK
<1> QED
  BY <1>1, <1>3, <1>11, Steady, ReadStep DEF Untouched

LEMMA CheckRead ==
  ASSUME ScnInv, ReadInv, ScnInv', NEW s \in Session, Check(s)
  PROVE  ReadInv'
<1> DEFINE at == call[s].at
<1>1. /\ TypeOK /\ TypeOK' /\ ReadOK(s) /\ ViewOK(s) /\ AgerOrdered /\ at \in Published /\ call[s].step = "check"
      /\ UNCHANGED <<system, agable, shared, slot, stmts, drop, ager>>
  BY DEF ScnInv, ReadInv, Check
<1>2. Serial(s)' = Serial(s) /\ system < Infinite /\ system \in Nat
  BY <1>1, AgerType DEF Serial
<1>3. shared[s][at] = call[s].scn /\ call[s].scn <= system
  BY <1>1 DEF ReadOK, PublishOK
<1>4. CASE Goto(s, AfterPublish[at]) /\ (system = call[s].scn \/ (at \in {"snapshot", "stmt"} /\ Serial(s)))
  <2>1. /\ call'[s].at = AfterPublish[at] /\ call'[s].step = "load" /\ call'[s].snap = call[s].snap
        /\ call'[s].scn = IF AfterPublish[at] = "open" THEN call[s].scn ELSE 0
        /\ \A t \in Session \ {s} : call'[t] = call[t]
    BY <1>1, <1>4, GotoKeeps
  <2>2. /\ call'[s].at \in {"activate", "open", "ended"} /\ call'[s].at \notin Published
        /\ call'[s].at = "activate" <=> at = "transView"
        /\ call'[s].at = "open" <=> at \in {"snapshot", "stmt"}
        /\ call'[s].at = "ended" <=> at = "disabled"
        /\ call'[s].at = "open" => call'[s].scn = call[s].scn
    BY <1>1, <2>1 DEF AfterPublish, Published
  <2>3. PublishOK(s)'
    BY <2>2 DEF PublishOK, Published
  <2>4. OpenOK(s)'
    <3> SUFFICES ASSUME call'[s].at = "open" PROVE OpenOK(s)'
      BY DEF OpenOK
    <3>1. at \in {"snapshot", "stmt"} /\ call'[s].scn = call[s].scn /\ (at = "snapshot" => call[s].snap)
      BY <1>1, <2>2 DEF ReadOK, PublishOK
    <3>2. CASE Serial(s)
      <4>1. call[s].scn = slot[s].view /\ slot[s].view = shared[s].transView
        BY <1>1, <3>1, <3>2 DEF ReadOK, PublishOK, ViewOK, Serial
      <4>2. Older(s, call[s].scn)
        BY <1>1, <3>2, <4>1 DEF ReadOK, TransOK
      <4> QED
        BY <1>1, <1>2, <1>3, <2>2, <3>1, <3>2, <4>1, <4>2 DEF OpenOK, Older
    <3>3. CASE ~Serial(s)
      <4>1. call[s].scn = system /\ Older(s, system)
        BY <1>1, <1>4, <3>3 DEF ReadOK
      <4>2. call[s].snap => KeptScn(s, system)
        <5>1. at = "snapshot" => shared[s].snapshot = system
          BY <1>3, <4>1
        <5>2. at = "stmt" /\ call[s].snap => shared[s].snapshot # Infinite
          BY <1>1 DEF ReadOK, PublishOK
        <5>3. FieldsOK(s) => shared[s].snapshot = Infinite \/ shared[s].snapshot <= system
          BY DEF FieldsOK
        <5> QED
          BY <1>1, <1>2, <3>1, <5>1, <5>2, <5>3, SystemKept DEF ReadOK
      <4>3. IF shared[s].stmt = Infinite THEN call[s].snap ELSE KeptStmt(s, system)
        <5>1. shared[s].stmt = Infinite => at = "snapshot"
          <6>1. at = "stmt" => shared[s].stmt = system
            BY <1>3, <4>1
          <6> QED
            BY <1>2, <3>1, <6>1
        <5>2. shared[s].stmt # Infinite => KeptStmt(s, system)
          BY <1>1, SystemKept DEF ReadOK, FieldsOK
        <5> QED
          BY <3>1, <5>1, <5>2
      <4>4. KeptScn(s, system) => KeptScn(s, system)'
        BY <1>1 DEF KeptScn, Unread
      <4>5. KeptStmt(s, system) => KeptStmt(s, system)'
        BY <1>1 DEF KeptStmt, Unread
      <4>6. call'[s].scn = system
        BY <3>1, <4>1
      <4>7. Older(s, call[s].scn)'
        BY <1>1, <4>1, <4>6 DEF Older
      <4>8. call'[s].snap => KeptScn(s, call[s].scn)'
        BY <1>1, <2>1, <4>2, <4>4, <4>6 DEF KeptScn
      <4>9. IF shared'[s].stmt = Infinite THEN call'[s].snap ELSE KeptStmt(s, call[s].scn)'
        BY <1>1, <2>1, <4>3, <4>5, <4>6 DEF KeptStmt
      <4> QED
        BY <1>1, <1>2, <3>3, <4>6, <4>7, <4>8, <4>9 DEF OpenOK
    <3> QED
      BY <3>2, <3>3
  <2>5. DropOK(s)'
    <3>1. at = "disabled" => KeptDrop(s)
      BY <1>1, <1>3, <1>4, SystemKept
    <3> QED
      BY <1>1, <2>2, <3>1 DEF DropOK, KeptDrop, Unread
  <2>6. TransOK(s)'
    <3>1. at = "transView" => Older(s, shared[s].transView)
      BY <1>1, <1>3, <1>4 DEF ReadOK
    <3>2. Serial(s) => Older(s, shared[s].transView)
      BY <1>1 DEF ReadOK, TransOK
    <3> QED
      BY <1>1, <1>2, <2>2, <3>1, <3>2 DEF TransOK, Older
  <2> QED
    BY <1>1, <2>1, <2>2, <2>3, <2>4, <2>5, <2>6, Steady, CallStep
<1>5. CASE Goto(s, at) /\ ~(at \in {"snapshot", "stmt"} /\ Serial(s))
  <2>1. /\ call'[s].at = at /\ call'[s].step = "load" /\ call'[s].snap = call[s].snap
        /\ \A t \in Session \ {s} : call'[t] = call[t]
    BY <1>1, <1>5, GotoKeeps
  <2>2. PublishOK(s)'
    BY <1>1, <1>2, <1>5, <2>1 DEF ReadOK, PublishOK
  <2>3. OpenOK(s)' /\ DropOK(s)' /\ TransOK(s)'
    BY <1>1, <2>1 DEF ReadOK, OpenOK, DropOK, TransOK, Published, Serial, Older
  <2> QED
    BY <1>1, <2>1, <2>2, <2>3, Steady, CallStep
<1> QED
  BY <1>4, <1>5 DEF Check

-----------------------------------------------------------------------------
(* Transactions *)

LEMMA AllocTransRead ==
  ASSUME ScnInv, ReadInv, ScnInv', NEW s \in Session, AllocTrans(s)
  PROVE  ReadInv'
<1>1. /\ TypeOK /\ TypeOK' /\ slot[s].state = "idle" /\ Publish(s, "transView")
      /\ UNCHANGED <<system, agable, shared, slot, stmts, drop, ager>>
  BY DEF ScnInv, AllocTrans
<1>2. /\ call'[s].at = "transView" /\ call'[s].step = "store" /\ call'[s].scn = system
      /\ \A t \in Session \ {s} : call'[t] = call[t]
  BY <1>1, PublishKeeps
<1>3. system' <= system
  BY <1>1, AgerType
<1>4. PublishOK(s)' /\ OpenOK(s)' /\ DropOK(s)' /\ TransOK(s)'
  BY <1>1, <1>2, <1>3 DEF PublishOK, OpenOK, DropOK, TransOK, Serial
<1> QED
  BY <1>1, <1>2, <1>4, Steady, CallStep

LEMMA ActivateRead ==
  ASSUME ScnInv, ReadInv, ScnInv', NEW s \in Session, Activate(s)
  PROVE  ReadInv'
<1> DEFINE sl == [slot[s] EXCEPT !.state = "active", !.view = shared[s].transView]
<1> DEFINE sh == [shared[s] EXCEPT !.disabled = Infinite]
<1>1. /\ TypeOK /\ TypeOK' /\ ReadOK(s) /\ call[s].at = "activate" /\ Return(s)
      /\ slot[s] \in Slot /\ shared[s] \in Fields
      /\ UNCHANGED <<system, agable, stmts, drop, ager>>
  BY DEF ScnInv, ReadInv, TypeOK, Activate
<1>2. slot' = [slot EXCEPT ![s] = sl] /\ shared' = [shared EXCEPT ![s] = sh]
  BY <1>1 DEF Activate, TypeOK, Slot, Fields
<1>3. call' \in [Session -> Call] /\ call'[s].at = "idle" /\ \A t \in Session \ {s} : call'[t] = call[t]
  BY <1>1, ReturnIs
<1>4. /\ slot'[s] = sl /\ shared'[s] = sh /\ \A t \in Session \ {s} : Untouched(t)
  BY <1>1, <1>2, <1>3 DEF TypeOK, Untouched
<1>5. /\ shared'[s].snapshot = shared[s].snapshot /\ shared'[s].stmt = shared[s].stmt
      /\ shared'[s].transView = shared[s].transView /\ shared'[s].disabled = Infinite
  BY <1>1, <1>4 DEF Fields
<1>6. Older(s, system)' /\ Sorted(s)' /\ StmtsOK(s)'
  BY <1>1, <1>3, <1>5, Steady, StmtsLast
<1>7. FieldsOK(s)'
  BY <1>1, <1>5 DEF ReadOK, FieldsOK
<1>8. PublishOK(s)' /\ OpenOK(s)' /\ DropOK(s)'
  BY <1>3 DEF PublishOK, OpenOK, DropOK, Published
<1>9. TransOK(s)'
  BY <1>1, <1>5 DEF ReadOK, TransOK, Older
<1>10. ReadOK(s)'
  BY <1>6, <1>7, <1>8, <1>9 DEF ReadOK
<1> QED
  BY <1>1, <1>4, <1>10, Steady, ReadStep

\* The transaction no longer runs, and the call is not one that reads.
LEMMA EndingRead ==
  ASSUME ScnInv, ReadInv, ScnInv', NEW s \in Session, NEW state \in {"precommit", "ended"},
         NEW at \in {"precommit", "pending", "unlock"}, at = "pending" => KeptDrop(s),
         slot' = [slot EXCEPT ![s].state = state], Goto(s, at),
         UNCHANGED <<system, agable, shared, stmts, drop, ager>>
  PROVE  ReadInv'
<1>1. /\ TypeOK /\ TypeOK' /\ slot[s] \in Slot
  BY DEF ScnInv, TypeOK
<1>2. slot'[s].state = state /\ \A t \in Session \ {s} : slot'[t] = slot[t]
  BY <1>1 DEF TypeOK, Slot
<1>3. /\ call'[s].at = at /\ call'[s].scn = 0 /\ \A t \in Session \ {s} : call'[t] = call[t]
  BY <1>1, GotoKeeps
<1>4. PublishOK(s)' /\ OpenOK(s)' /\ TransOK(s)'
  BY <1>2, <1>3 DEF PublishOK, OpenOK, TransOK, Serial, Published
<1>5. DropOK(s)'
  BY <1>3 DEF DropOK, KeptDrop, Unread
<1> QED
  BY <1>1, <1>2, <1>3, <1>4, <1>5, Steady, CallStep

LEMMA EndTransRead ==
  ASSUME ScnInv, ReadInv, ScnInv', NEW s \in Session, EndTrans(s)
  PROVE  ReadInv'
BY EndingRead DEF EndTrans

LEMMA SetEndedRead ==
  ASSUME ScnInv, ReadInv, ScnInv', NEW s \in Session, SetEnded(s)
  PROVE  ReadInv'
<1>1. KeptDrop(s)
  BY DEF ReadInv, ReadOK, DropOK, SetEnded
<1> QED
  BY <1>1, EndingRead DEF SetEnded

\* A session goes on with a call that does not read.
LEMMA MoveRead ==
  ASSUME ScnInv, ReadInv, ScnInv', NEW s \in Session,
         call'[s].at \in {"disabled", "unlock", "free"}, call'[s].at = "disabled" => call'[s].step = "load",
         \A t \in Session \ {s} : call'[t] = call[t], system <= system',
         UNCHANGED <<agable, shared, slot, stmts, ager>>, DropOK(s)'
  PROVE  ReadInv'
<1>1. TypeOK /\ TypeOK' /\ ReadOK(s)
  BY DEF ScnInv, ReadInv
<1>2. PublishOK(s)' /\ OpenOK(s)' /\ TransOK(s)'
  BY <1>1 DEF ReadOK, PublishOK, OpenOK, TransOK, Serial, Published, Older
<1> QED
  BY <1>1, <1>2, CallStep

LEMMA TakeCommitScnRead ==
  ASSUME ScnInv, ReadInv, ScnInv', NEW s \in Session, TakeCommitScn(s)
  PROVE  ReadInv'
<1>1. /\ TypeOK /\ system < MaxScn /\ system' = system + 1 /\ Goto(s, "disabled")
      /\ UNCHANGED <<agable, shared, slot, stmts, drop, ager>>
  BY DEF ScnInv, TakeCommitScn
<1>2. /\ call'[s].at = "disabled" /\ call'[s].step = "load"
      /\ \A t \in Session \ {s} : call'[t] = call[t]
  BY <1>1, GotoKeeps
<1>3. DropOK(s)'
  BY <1>2 DEF DropOK
<1> QED
  BY <1>1, <1>2, <1>3, NextScn, MoveRead

LEMMA PendingRead ==
  ASSUME ScnInv, ReadInv, ScnInv', NEW s \in Session, Pending(s)
  PROVE  ReadInv'
<1>1. /\ TypeOK /\ TypeOK' /\ KeptDrop(s) /\ call[s] \in Call
      /\ UNCHANGED <<agable, shared, slot, stmts, ager>>
  BY DEF ScnInv, TypeOK, ReadInv, ReadOK, DropOK, Pending
<1>2. PICK scn : /\ call' = [call EXCEPT ![s].at = "unlock", ![s].scn = scn]
                 /\ system <= system'
                 /\ scn = 0 \/ scn = system + 1
  BY <1>1, AgerType DEF Pending
<1>3. call'[s].at = "unlock" /\ call'[s].scn = scn /\ \A t \in Session \ {s} : call'[t] = call[t]
  BY <1>1, <1>2 DEF TypeOK, Call
<1>4. shared[s].disabled < system + 1 /\ KeptDrop(s)'
  BY <1>1, <1>2, AgerType, SharedType, DropLasts DEF KeptDrop
<1>5. DropOK(s)'
  BY <1>1, <1>2, <1>3, <1>4 DEF DropOK
<1> QED
  BY <1>1, <1>2, <1>3, <1>5, MoveRead

LEMMA UnlockRead ==
  ASSUME ScnInv, ReadInv, ScnInv', NEW s \in Session, Unlock(s)
  PROVE  ReadInv'
<1>1. TypeOK /\ Goto(s, "free") /\ UNCHANGED <<system, agable, shared, slot, stmts, drop, ager>>
  BY DEF ScnInv, Unlock
<1>2. call'[s].at = "free" /\ \A t \in Session \ {s} : call'[t] = call[t]
  BY <1>1, GotoKeeps
<1>3. DropOK(s)'
  BY <1>2 DEF DropOK
<1> QED
  BY <1>1, <1>2, <1>3, Steady, MoveRead

LEMMA FreeTransRead ==
  ASSUME ScnInv, ReadInv, ScnInv', NEW s \in Session, FreeTrans(s)
  PROVE  ReadInv'
<1> DEFINE sl == [state |-> "idle", view |-> Infinite, updatable |-> FALSE]
<1> DEFINE sh == [shared[s] EXCEPT !.disabled  = Infinite,
                                   !.snapshot  = IF NoStmts(s) THEN Infinite ELSE @,
                                   !.stmt      = IF NoStmts(s) THEN Infinite ELSE @,
                                   !.transView = Infinite]
<1>1. /\ TypeOK /\ TypeOK' /\ ReadOK(s) /\ shared[s] \in Fields /\ Return(s)
      /\ UNCHANGED <<system, agable, stmts, drop, ager>>
  BY DEF ScnInv, ReadInv, TypeOK, FreeTrans
<1>2. slot' = [slot EXCEPT ![s] = sl] /\ shared' = [shared EXCEPT ![s] = sh]
  BY <1>1 DEF FreeTrans, TypeOK, Fields
<1>3. call' \in [Session -> Call] /\ call'[s].at = "idle" /\ \A t \in Session \ {s} : call'[t] = call[t]
  BY <1>1, ReturnIs
<1>4. slot'[s] = sl /\ shared'[s] = sh /\ \A t \in Session \ {s} : Untouched(t)
  BY <1>1, <1>2, <1>3 DEF TypeOK, Untouched
<1>5. /\ shared'[s].disabled = Infinite
      /\ shared'[s].snapshot = IF NoStmts(s) THEN Infinite ELSE shared[s].snapshot
      /\ shared'[s].stmt = IF NoStmts(s) THEN Infinite ELSE shared[s].stmt
  BY <1>1, <1>4 DEF Fields
<1>6. Older(s, system)' /\ Sorted(s)' /\ StmtsOK(s)'
  <2>1. CASE NoStmts(s)
    <3>1. \A ring \in Ring : DOMAIN stmts'[s][ring] = {}
      BY <1>1, <2>1 DEF NoStmts, Ring
    <3> QED
      BY <3>1 DEF Older, Sorted, StmtsOK
  <2>2. CASE ~NoStmts(s)
    BY <1>1, <1>3, <1>5, <2>2, Steady, StmtsLast
  <2> QED
    BY <2>1, <2>2
<1>7. FieldsOK(s)'
  BY <1>1, <1>5 DEF ReadOK, FieldsOK
<1>8. PublishOK(s)' /\ OpenOK(s)' /\ DropOK(s)' /\ TransOK(s)'
  BY <1>3, <1>4 DEF PublishOK, OpenOK, DropOK, TransOK, Serial, Published
<1>9. ReadOK(s)'
  BY <1>6, <1>7, <1>8 DEF ReadOK
<1> QED
  BY <1>1, <1>4, <1>9, Steady, ReadStep

-----------------------------------------------------------------------------
(* Statements *)

LEMMA AllocStatementRead ==
  ASSUME ScnInv, ReadInv, ScnInv', NEW s \in Session, NEW k \in Kinds[s], AllocStatement(s, k.snap, k.ring)
  PROVE  ReadInv'
<1>1. /\ TypeOK /\ TypeOK' /\ ReadOK(s) /\ call[s].at = "idle"
      /\ UNCHANGED <<system, agable, shared, slot, stmts, drop, ager>>
  BY DEF ScnInv, ReadInv, AllocStatement
<1>2. call'[s].at = "minTrans" /\ \A t \in Session \ {s} : call'[t] = call[t]
  BY <1>1 DEF AllocStatement, TypeOK
<1>3. PublishOK(s)' /\ OpenOK(s)' /\ DropOK(s)'
  BY <1>2 DEF PublishOK, OpenOK, DropOK, Published
<1>4. TransOK(s)'
  BY <1>1, <1>2 DEF ReadOK, TransOK, Serial, Older
<1> QED
  BY <1>1, <1>2, <1>3, <1>4, Steady, CallStep

LEMMA SetMinTransRead ==
  ASSUME ScnInv, ReadInv, ScnInv', NEW s \in Session, SetMinTrans(s)
  PROVE  ReadInv'
<1> DEFINE sh == [shared[s] EXCEPT !.minTrans = IF @ = Infinite THEN call[s].minTrans ELSE @]
<1>1. /\ TypeOK /\ TypeOK' /\ ReadOK(s) /\ ViewOK(s) /\ AgerOrdered /\ call[s].at = "minTrans"
      /\ shared[s] \in Fields /\ call[s] \in Call
      /\ UNCHANGED <<system, agable, slot, stmts, drop, ager>>
  BY DEF ScnInv, ReadInv, TypeOK, SetMinTrans, KeepTransViews
<1>2. shared' = [shared EXCEPT ![s] = sh]
  BY <1>1 DEF SetMinTrans, KeepTransViews, TypeOK, Fields
<1>3. /\ shared'[s].snapshot = shared[s].snapshot /\ shared'[s].stmt = shared[s].stmt
      /\ shared'[s].disabled = shared[s].disabled /\ shared'[s].transView = shared[s].transView
      /\ \A t \in Session \ {s} : shared'[t] = shared[t]
  BY <1>1, <1>2 DEF TypeOK, Fields
<1>4. /\ system \in Nat /\ system < Infinite /\ system <= system
      /\ shared[s].snapshot \in Nat /\ shared[s].stmt \in Nat
  BY <1>1, AgerType, SharedType
<1>5. View(s) <= system /\ Older(s, View(s)) /\ (Serial(s) => View(s) = slot[s].view)
      /\ (~Serial(s) => View(s) = system)
  <2>1. CASE Serial(s)
    <3>1. slot[s].view = shared[s].transView /\ shared[s].transView <= system
      BY <1>1, <2>1 DEF ViewOK, Holds, Kept, Serial
    <3> QED
      BY <1>1, <2>1, <3>1 DEF View, ReadOK, TransOK
  <2>2. CASE ~Serial(s)
    BY <1>1, <1>4, <2>2 DEF View, ReadOK
  <2> QED
    BY <2>1, <2>2
<1>6. /\ shared[s].snapshot # Infinite => KeptScn(s, system)
      /\ shared[s].stmt # Infinite => KeptStmt(s, system)
  BY <1>1, SystemKept DEF ReadOK, FieldsOK
<1>7. PICK c : /\ call' = [call EXCEPT ![s] = c] /\ c.snap = call[s].snap /\ c.scn = View(s)
               /\ \/ c.at \in {"snapshot", "stmt"} /\ c.at \in Unset(s) /\ c.step = "store"
                  \/ c.at = "open" /\ Unset(s) = {}
  <2>1. CASE \E f \in Unset(s) :
               call' = [call EXCEPT ![s].at = f, ![s].step = "store", ![s].scn = View(s)]
    <3>1. PICK f \in Unset(s) :
            call' = [call EXCEPT ![s].at = f, ![s].step = "store", ![s].scn = View(s)]
      BY <2>1
    <3> DEFINE c == [call[s] EXCEPT !.at = f, !.step = "store", !.scn = View(s)]
    <3>2. c.at = f /\ c.step = "store" /\ c.scn = View(s) /\ c.snap = call[s].snap /\ f \in {"snapshot", "stmt"}
      BY <1>1, <3>1 DEF Call, Unset
    <3>3. call' = [call EXCEPT ![s] = c]
      BY <1>1, <3>1 DEF Call
    <3> QED
      BY <3>1, <3>2, <3>3
  <2>2. CASE Unset(s) = {} /\ call' = [call EXCEPT ![s].at = "open", ![s].scn = View(s)]
    <3> DEFINE c == [call[s] EXCEPT !.at = "open", !.scn = View(s)]
    <3>1. c.at = "open" /\ c.scn = View(s) /\ c.snap = call[s].snap
      BY <1>1 DEF Call
    <3>2. call' = [call EXCEPT ![s] = c]
      BY <1>1, <2>2 DEF Call
    <3> QED
      BY <2>2, <3>1, <3>2
  <2> QED
    BY <2>1, <2>2 DEF SetMinTrans
<1>8. call'[s] = c /\ \A t \in Session \ {s} : call'[t] = call[t]
  BY <1>1, <1>7 DEF TypeOK
<1>9. /\ c.at = "snapshot" => call[s].snap /\ shared[s].snapshot = Infinite
      /\ c.at = "stmt" => shared[s].stmt = Infinite /\ (call[s].snap => shared[s].snapshot # Infinite)
      /\ c.at = "open" => shared[s].stmt # Infinite /\ (call[s].snap => shared[s].snapshot # Infinite)
  BY <1>7 DEF Unset
<1>10. FieldsOK(s)'
  BY <1>1, <1>3 DEF ReadOK, FieldsOK
<1>11. Older(s, system)' /\ Sorted(s)'
  BY <1>1 DEF ReadOK, Older, Sorted
<1>12. StmtsOK(s)'
  <2>1. ASSUME NEW ring \in Ring, NEW i \in DOMAIN stmts[s][ring], NEW st, st = stmts[s][ring][i], ~st.serial
        PROVE  /\ KeptStmt(s, st.view)'
               /\ st.snap => KeptScn(s, st.view)'
               /\ call'[s].at # "stmt"
               /\ st.snap => call'[s].at # "snapshot"
    <3>1. KeptStmt(s, st.view) /\ (st.snap => KeptScn(s, st.view))
      BY <1>1, <2>1 DEF ReadOK, StmtsOK
    <3>2. st.view \in Nat /\ st.view < Infinite
      BY <1>1, <2>1, StmtType
    <3>3. shared[s].stmt <= st.view /\ (st.snap => shared[s].snapshot <= st.view) /\ Infinite \in Nat
      BY <3>1, ScnType DEF KeptStmt, KeptScn
    <3>4. call'[s].at # "stmt" /\ (st.snap => call'[s].at # "snapshot")
      BY <1>4, <1>8, <1>9, <3>2, <3>3
    <3> QED
      BY <1>1, <1>3, <3>1, <3>2, <3>3, <3>4, KeptLasts
  <2> QED
    BY <1>1, <2>1 DEF StmtsOK, KeptStmt, KeptScn, Unread
<1>13. PublishOK(s)'
  <2>1. Serial(s)' = Serial(s)
    BY <1>1 DEF Serial
  <2> QED
    BY <1>1, <1>3, <1>5, <1>7, <1>8, <1>9, <2>1 DEF PublishOK, Published
<1>14. OpenOK(s)'
  <2> SUFFICES ASSUME c.at = "open" PROVE OpenOK(s)'
    BY <1>8 DEF OpenOK
  <2>1. Serial(s)' = Serial(s)
    BY <1>1 DEF Serial
  <2>2. Older(s, call[s].scn)'
    BY <1>1, <1>5, <1>7, <1>8 DEF Older
  <2>3. ~Serial(s) => /\ call[s].snap => KeptScn(s, call[s].scn)'
                      /\ KeptStmt(s, call[s].scn)'
    BY <1>1, <1>3, <1>5, <1>6, <1>7, <1>8, <1>9 DEF KeptScn, KeptStmt, Unread
  <2> QED
    BY <1>1, <1>3, <1>5, <1>7, <1>8, <1>9, <2>1, <2>2, <2>3 DEF OpenOK
<1>15. DropOK(s)' /\ TransOK(s)'
  BY <1>1, <1>3, <1>7, <1>8 DEF ReadOK, DropOK, TransOK, Serial, Older
<1>16. ReadOK(s)'
  BY <1>10, <1>11, <1>12, <1>13, <1>14, <1>15 DEF ReadOK
<1> QED
  BY <1>1, <1>3, <1>8, <1>16, Steady, ReadStep DEF Untouched

\* The new statement, or one that was open before.
LEMMA OpenStatementRead ==
  ASSUME ScnInv, ReadInv, ScnInv', NEW s \in Session, OpenStatement(s)
  PROVE  ReadInv'
<1> DEFINE ring == call[s].ring
<1> DEFINE new == [view |-> call[s].scn, minTrans |-> call[s].minTrans,
                   snap |-> call[s].snap, serial |-> Serial(s)]
<1> DEFINE sl == [slot[s] EXCEPT !.updatable = @ \/ ring = "updatable"]
<1> DEFINE sh == [shared[s] EXCEPT !.stmt = IF @ = Infinite THEN call[s].scn ELSE @]
<1> DEFINE q  == stmts[s][ring]
<1> DEFINE l  == [stmts[s] EXCEPT ![ring] = Append(q, new)]
<1>1. /\ TypeOK /\ TypeOK' /\ ReadOK(s) /\ ViewOK(s) /\ CallOK(s) /\ call[s].at = "open" /\ Return(s)
      /\ shared[s] \in Fields /\ call[s] \in Call /\ slot[s] \in Slot
      /\ stmts[s] \in [readOnly : Seq(Statement), updatable : Seq(Statement)]
      /\ UNCHANGED <<system, agable, drop, ager>>
  BY DEF ScnInv, ReadInv, TypeOK, OpenStatement
<1>2. ring \in Ring /\ q \in Seq(Statement) /\ new \in Statement
  BY <1>1 DEF CallOK, Call, Ring, Statement, Serial
<1>3. /\ Append(q, new) \in Seq(Statement) /\ Len(Append(q, new)) = Len(q) + 1 /\ Len(q) \in Nat
      /\ \A i \in 1 .. Len(q) : Append(q, new)[i] = q[i]
      /\ Append(q, new)[Len(q) + 1] = new
      /\ DOMAIN q = 1 .. Len(q) /\ DOMAIN Append(q, new) = 1 .. Len(q) + 1
  <2> HIDE DEF q, new
  <2> QED
    BY <1>2, AppendProperties, LenProperties
<1>4. /\ slot' = [slot EXCEPT ![s] = sl] /\ shared' = [shared EXCEPT ![s] = sh]
      /\ stmts' = [stmts EXCEPT ![s] = l]
  BY <1>1 DEF OpenStatement, TypeOK, Fields, Slot
<1>5. call' \in [Session -> Call] /\ call'[s].at = "idle" /\ \A t \in Session \ {s} : call'[t] = call[t]
  BY <1>1, ReturnIs
<1>6. /\ slot'[s] = sl /\ shared'[s] = sh /\ stmts'[s] = l
      /\ \A t \in Session \ {s} : Untouched(t) /\ stmts'[t] = stmts[t]
  BY <1>1, <1>4, <1>5 DEF TypeOK, Untouched
<1>7. /\ shared'[s].snapshot = shared[s].snapshot /\ shared'[s].disabled = shared[s].disabled
      /\ shared'[s].transView = shared[s].transView
      /\ shared'[s].stmt = IF shared[s].stmt = Infinite THEN call[s].scn ELSE shared[s].stmt
      /\ Serial(s)' = Serial(s)
  BY <1>1, <1>6 DEF Fields, Slot, Serial
<1> DEFINE n == Len(q) + 1
<1>8. /\ stmts'[s][ring] = Append(q, new)
      /\ \A r \in Ring \ {ring} : stmts'[s][r] = stmts[s][r]
  BY <1>1, <1>2, <1>6 DEF Ring
<1>9. /\ n \in DOMAIN stmts'[s][ring] /\ stmts'[s][ring][n] = new
      /\ \A r \in Ring : \A i \in DOMAIN stmts'[s][r] :
            \/ i \in DOMAIN stmts[s][r] /\ stmts'[s][r][i] = stmts[s][r][i]
            \/ r = ring /\ i = n
  <2> HIDE DEF q, new, ring, l
  <2>1. n \in DOMAIN stmts'[s][ring] /\ stmts'[s][ring][n] = new
    BY <1>3, <1>8
  <2>2. ASSUME NEW i \in DOMAIN stmts'[s][ring], i # n
        PROVE  i \in DOMAIN stmts[s][ring] /\ stmts'[s][ring][i] = stmts[s][ring][i]
    <3>1. i \in 1 .. Len(q) + 1
      BY <1>3, <1>8
    <3>2. i \in 1 .. Len(q)
      BY <1>3, <2>2, <3>1
    <3>3. q = stmts[s][ring]
      BY DEF q
    <3> QED
      BY <1>3, <1>8, <3>2, <3>3
  <2> QED
    BY <1>2, <1>8, <2>1, <2>2
<1>10. call[s].scn \in Nat /\ call[s].scn < Infinite /\ call[s].scn <= system /\ Older(s, call[s].scn)
  BY <1>1, ScnType DEF CallOK, ReadOK, OpenOK
<1>11. new.view = call[s].scn /\ new.snap = call[s].snap /\ new.serial = Serial(s)
  OBVIOUS
<1> HIDE DEF new, n, q, ring
<1>12. FieldsOK(s)'
  BY <1>1, <1>7, <1>10 DEF ReadOK, FieldsOK
<1>13. Older(s, system)'
  BY <1>1, <1>9, <1>10, <1>11 DEF ReadOK, Older
<1>14. Sorted(s)'
  <2> SUFFICES ASSUME NEW r \in Ring, NEW i \in DOMAIN stmts'[s][r], NEW j \in DOMAIN stmts'[s][r], i <= j
               PROVE  stmts'[s][r][i].view <= stmts'[s][r][j].view
    BY DEF Sorted
  <2>1. CASE j \in DOMAIN stmts[s][r] /\ stmts'[s][r][j] = stmts[s][r][j]
    <3>1. i \in DOMAIN stmts[s][r] /\ stmts'[s][r][i] = stmts[s][r][i]
      BY <1>1, <1>2, <1>3, <1>9, <2>1, StmtType DEF q, n
    <3> QED
      BY <1>1, <2>1, <3>1 DEF ReadOK, Sorted
  <2>2. CASE r = ring /\ j = n
    <3>1. stmts'[s][r][j].view = call[s].scn
      BY <1>9, <1>11, <2>2
    <3> QED
      BY <1>9, <1>10, <1>11, <2>2, <3>1 DEF Older
  <2> QED
    BY <1>9, <2>1, <2>2
<1>15. ASSUME NEW view \in Nat, KeptStmt(s, view) PROVE KeptStmt(s, view)'
  <2>1. shared[s].stmt # Infinite => shared'[s].stmt <= view
    BY <1>7, <1>15 DEF KeptStmt
  <2>2. shared[s].stmt = Infinite => shared'[s].stmt <= view
    BY <1>1, <1>7, <1>10, <1>15, ScnType DEF KeptStmt
  <2> QED
    BY <1>1, <1>15, <2>1, <2>2, KeptLasts
<1>16. ASSUME NEW view \in Nat, KeptScn(s, view) PROVE KeptScn(s, view)'
  BY <1>1, <1>7, <1>16 DEF KeptScn, Unread
<1>17. ~Serial(s) => /\ call[s].snap => KeptScn(s, call[s].scn)
                     /\ IF shared[s].stmt = Infinite THEN call[s].snap ELSE KeptStmt(s, call[s].scn)
  BY <1>1 DEF ReadOK, OpenOK
<1>18. ASSUME ~Serial(s), NEW view, view = call[s].scn
       PROVE  KeptStmt(s, view)' /\ (call[s].snap => KeptScn(s, view)')
  <2>1. call[s].snap => KeptScn(s, view)'
    BY <1>10, <1>16, <1>17, <1>18
  <2>2. CASE shared[s].stmt = Infinite
    <3>1. KeptScn(s, view)
      BY <1>17, <1>18, <2>2
    <3>2. agable.stmt <= view
      BY <1>1, <1>10, <1>18, <3>1, AgerType DEF ReadInv, AgerOrdered, KeptScn
    <3>3. shared'[s].stmt <= view
      BY <1>7, <1>10, <1>18, <2>2
    <3> QED
      BY <1>1, <2>1, <3>1, <3>2, <3>3 DEF KeptScn, KeptStmt, Unread
  <2>3. CASE shared[s].stmt # Infinite
    BY <1>10, <1>15, <1>17, <1>18, <2>1, <2>3
  <2> QED
    BY <2>2, <2>3
<1>19. StmtsOK(s)'
  <2>1. ASSUME NEW r \in Ring, NEW i \in DOMAIN stmts'[s][r], NEW st, st = stmts'[s][r][i], ~st.serial
        PROVE  KeptStmt(s, st.view)' /\ (st.snap => KeptScn(s, st.view)')
    <3>1. CASE i \in DOMAIN stmts[s][r] /\ st = stmts[s][r][i]
      <4>1. KeptStmt(s, st.view) /\ (st.snap => KeptScn(s, st.view))
        BY <1>1, <2>1, <3>1 DEF ReadOK, StmtsOK
      <4>2. st.view \in Nat
        BY <1>1, <3>1, StmtType
      <4> QED
        BY <1>15, <1>16, <4>1, <4>2
    <3>2. CASE r = ring /\ i = n
      BY <1>9, <1>11, <1>18, <2>1, <3>2
    <3> QED
      BY <1>9, <2>1, <3>1, <3>2
  <2> QED
    BY <1>5, <2>1 DEF StmtsOK, KeptStmt, KeptScn, Unread
<1>20. PublishOK(s)' /\ OpenOK(s)' /\ DropOK(s)'
  BY <1>5 DEF PublishOK, OpenOK, DropOK, Published
<1>21. TransOK(s)'
  <2> SUFFICES ASSUME Serial(s) PROVE Older(s, shared[s].transView)'
    BY <1>5, <1>7 DEF TransOK
  <2>1. call[s].scn = slot[s].view /\ slot[s].view = shared[s].transView
    BY <1>1 DEF ReadOK, OpenOK, ViewOK, Serial
  <2>2. call[s].scn <= shared'[s].transView /\ shared'[s].transView = shared[s].transView
    BY <1>7, <1>10, <2>1
  <2> QED
    BY <1>1, <1>9, <1>11, <2>2 DEF ReadOK, TransOK, Older
<1>22. ReadOK(s)'
  BY <1>12, <1>13, <1>14, <1>19, <1>20, <1>21 DEF ReadOK
<1> QED
  BY <1>1, <1>6, <1>22, Steady, ReadStep

\* What is left of a sequence without its i-th element.
LEMMA RemoveAtIs ==
  ASSUME NEW S, NEW q \in Seq(S), NEW i \in DOMAIN q
  PROVE  /\ DOMAIN RemoveAt(q, i) = 1 .. Len(q) - 1 /\ Len(q) \in Nat /\ DOMAIN q = 1 .. Len(q)
         /\ \A k \in 1 .. Len(q) - 1 : RemoveAt(q, i)[k] = IF k < i THEN q[k] ELSE q[k + 1]
<1> DEFINE a == SubSeq(q, 1, i - 1)
           z == SubSeq(q, i + 1, Len(q))
           r == RemoveAt(q, i)
<1>1. Len(q) \in Nat /\ DOMAIN q = 1 .. Len(q) /\ i \in 1 .. Len(q) /\ \A k \in 1 .. Len(q) : q[k] \in S
  BY LenProperties, ElementOfSeq
<1>2. /\ a \in Seq(S) /\ Len(a) = i - 1
      /\ \A k \in 1 .. i - 1 : a[k] = q[k]
  <2>1. \A k \in 1 .. i - 1 : q[k] \in S
    BY <1>1
  <2>2. /\ a \in Seq(S) /\ Len(a) = IF 1 <= i - 1 THEN (i - 1) - 1 + 1 ELSE 0
        /\ \A k \in 1 .. (i - 1) - 1 + 1 : a[k] = q[1 + k - 1]
    BY <1>1, <2>1, SubSeqProperties
  <2> HIDE DEF a
  <2> QED
    BY <1>1, <2>2
<1>3. /\ z \in Seq(S) /\ Len(z) = Len(q) - i
      /\ \A k \in 1 .. Len(q) - i : z[k] = q[k + i]
  <2>1. \A k \in i + 1 .. Len(q) : q[k] \in S
    BY <1>1
  <2>2. /\ z \in Seq(S) /\ Len(z) = IF i + 1 <= Len(q) THEN Len(q) - (i + 1) + 1 ELSE 0
        /\ \A k \in 1 .. Len(q) - (i + 1) + 1 : z[k] = q[(i + 1) + k - 1]
    BY <1>1, <2>1, SubSeqProperties
  <2>3. /\ Len(q) - (i + 1) + 1 = Len(q) - i
        /\ \A k \in 1 .. Len(q) - i : (i + 1) + k - 1 = k + i
    <3>1. Len(q) \in Int /\ i \in Int
      BY <1>1
    <3> QED
      BY <3>1
  <2>4. Len(z) = Len(q) - i
    <3>1. Len(q) \in Int /\ i \in Int /\ i <= Len(q)
      BY <1>1
    <3>2. Len(z) = IF i + 1 <= Len(q) THEN Len(q) - (i + 1) + 1 ELSE 0
      BY <2>2
    <3> HIDE DEF z
    <3> QED
      BY <3>1, <3>2
  <2> HIDE DEF z
  <2> QED
    BY <2>2, <2>3, <2>4
<1>4. r = a \o z
  BY DEF RemoveAt
<1> HIDE DEF a, z, r
<1>5. /\ r \in Seq(S) /\ Len(r) = Len(a) + Len(z)
      /\ \A k \in 1 .. Len(a) + Len(z) : r[k] = IF k <= Len(a) THEN a[k] ELSE z[k - Len(a)]
  BY <1>2, <1>3, <1>4, ConcatProperties
<1>6. DOMAIN r = 1 .. Len(q) - 1
  BY <1>1, <1>2, <1>3, <1>5, LenProperties
<1>7. ASSUME NEW k \in 1 .. Len(q) - 1 PROVE r[k] = IF k < i THEN q[k] ELSE q[k + 1]
  <2>1. CASE k < i
    <3>1. k \in 1 .. i - 1 /\ k \in 1 .. Len(a) + Len(z) /\ k <= Len(a)
      BY <1>1, <1>2, <1>3, <2>1
    <3> QED
      BY <1>2, <1>5, <2>1, <3>1
  <2>2. CASE ~(k < i)
    <3>1. k - (i - 1) \in 1 .. Len(q) - i /\ k - (i - 1) + i = k + 1
      BY <1>1, <2>2
    <3>2. k \in 1 .. Len(a) + Len(z) /\ ~(k <= Len(a)) /\ k - Len(a) = k - (i - 1)
      BY <1>1, <1>2, <1>3, <2>2
    <3>3. r[k] = z[k - (i - 1)]
      BY <1>5, <3>2
    <3> QED
      BY <1>3, <2>2, <3>1, <3>3
  <2> QED
    BY <2>1, <2>2
<1> QED
  BY <1>1, <1>6, <1>7 DEF r

\* The oldest statement of a list in the order of the views, and its oldest snapshot, are
\* where smaFreeStatement looks for them.
LEMMA OldestIs ==
  ASSUME NEW q \in Seq(Statement),
         \A i, j \in DOMAIN q : i <= j => q[i].view <= q[j].view
  PROVE  /\ \A j \in DOMAIN q : FirstView(q) <= q[j].view /\ (q[j].snap => SnapshotView(q) <= q[j].view)
         /\ FirstView(q) = Infinite \/ \E k \in DOMAIN q : FirstView(q) = q[k].view
         /\ SnapshotView(q) = Infinite \/ \E k \in DOMAIN q : SnapshotView(q) = q[k].view
<1>1. DOMAIN q = 1 .. Len(q) /\ Len(q) \in Nat
  BY LenProperties
<1>2. q # << >> => 1 \in DOMAIN q
  BY <1>1, EmptySeq
<1>3. ASSUME NEW j \in DOMAIN q PROVE FirstView(q) <= q[j].view
  <2>1. q # << >> /\ 1 <= j /\ 1 \in DOMAIN q
    BY <1>1, <1>2
  <2> QED
    BY <2>1 DEF FirstView
<1>4. ASSUME NEW j \in DOMAIN q, q[j].snap PROVE SnapshotView(q) <= q[j].view
  <2> DEFINE T == {i \in DOMAIN q : q[i].snap}
  <2>1. T \subseteq Nat /\ j \in T
    BY <1>1, <1>4
  <2>2. PICK m \in T : \A e \in T : ~(<<e, m>> \in OpToRel(<, Nat))
    <3> HIDE DEF T
    <3> QED
      BY <2>1, NatLessThanWellFounded, WFMin
  <2>3. \A e \in T : ~(e < m)
    BY <2>1, <2>2 DEF OpToRel
  <2>4. ASSUME NEW i \in 1 .. m - 1 PROVE ~q[i].snap
    <3>1. m \in 1 .. Len(q)
      BY <1>1
    <3>2. i \in DOMAIN q /\ i < m
      BY <1>1, <3>1
    <3> QED
      BY <2>3, <3>2
  <2>5. FirstSnapshot(q) # {}
    BY <2>2, <2>4 DEF FirstSnapshot
  <2>6. PICK i \in FirstSnapshot(q) : SnapshotView(q) = q[i].view
    BY <2>5 DEF SnapshotView
  <2>7. i \in DOMAIN q /\ i <= j
    BY <1>1, <1>4, <2>6 DEF FirstSnapshot
  <2> QED
    BY <2>6, <2>7
<1>5. FirstView(q) = Infinite \/ \E k \in DOMAIN q : FirstView(q) = q[k].view
  BY <1>2 DEF FirstView
<1>6. SnapshotView(q) = Infinite \/ \E k \in DOMAIN q : SnapshotView(q) = q[k].view
  BY DEF SnapshotView, FirstSnapshot
<1> QED
  BY <1>3, <1>4, <1>5, <1>6

LEMMA FreeStatementRead ==
  ASSUME ScnInv, ReadInv, ScnInv', NEW s \in Session, NEW ring \in Ring, NEW i, FreeStatement(s, ring, i)
  PROVE  ReadInv'
<1> DEFINE l  == [stmts[s] EXCEPT ![ring] = RemoveAt(@, i)]
<1> DEFINE q  == stmts[s][ring]
<1> DEFINE freed == q[i]
<1> DEFINE snapshot == Lower(SnapshotView(l.readOnly), SnapshotView(l.updatable))
<1> DEFINE stmt     == Lower(FirstView(l.readOnly), FirstView(l.updatable))
<1> DEFINE sh == [shared[s] EXCEPT
          !.snapshot = IF freed.snap THEN snapshot ELSE @,
          !.stmt     = IF freed.serial THEN @ ELSE stmt,
          !.minTrans = IF freed.serial THEN @ ELSE Lower(FirstMinTrans(l.readOnly), FirstMinTrans(l.updatable))]
<1>1. /\ TypeOK /\ TypeOK' /\ ReadOK(s) /\ call[s].at = "idle" /\ i \in DOMAIN stmts[s][ring]
      /\ shared[s] \in Fields
      /\ stmts[s] \in [readOnly : Seq(Statement), updatable : Seq(Statement)]
      /\ UNCHANGED <<system, agable, slot, call, drop, ager>>
  BY DEF ScnInv, ReadInv, TypeOK, FreeStatement
<1>2. stmts' = [stmts EXCEPT ![s] = l] /\ stmts'[s] = l
  BY <1>1 DEF FreeStatement, TypeOK, Ring
<1>3. shared' = [shared EXCEPT ![s] = sh]
  BY <1>1, <1>2 DEF FreeStatement, TypeOK, Fields
<1>4. /\ shared'[s] = sh /\ \A t \in Session \ {s} : Untouched(t) /\ stmts'[t] = stmts[t]
  BY <1>1, <1>2, <1>3 DEF TypeOK, Untouched
<1>5. /\ shared'[s].disabled = shared[s].disabled /\ shared'[s].transView = shared[s].transView
      /\ shared'[s].snapshot = (IF freed.snap THEN snapshot ELSE shared[s].snapshot)
      /\ shared'[s].stmt = (IF freed.serial THEN shared[s].stmt ELSE stmt)
  <2> HIDE DEF l, freed, snapshot, stmt
  <2> QED
    BY <1>1, <1>4 DEF Fields
<1>6. stmts'[s][ring] = RemoveAt(q, i) /\ (\A r \in Ring \ {ring} : stmts'[s][r] = stmts[s][r])
      /\ stmts'[s].readOnly = l.readOnly /\ stmts'[s].updatable = l.updatable
  BY <1>1, <1>2 DEF Ring
<1> DEFINE Was(r, j) == IF r = ring /\ i <= j THEN j + 1 ELSE j
<1>7. ASSUME NEW r \in Ring, NEW j \in DOMAIN stmts'[s][r]
      PROVE  /\ j \in Nat /\ Was(r, j) \in DOMAIN stmts[s][r]
             /\ stmts'[s][r][j] = stmts[s][r][Was(r, j)]
  <2>1. q \in Seq(Statement) /\ DOMAIN q = 1 .. Len(q) /\ Len(q) \in Nat /\ i \in 1 .. Len(q)
    BY <1>1, StmtType
  <2> HIDE DEF q, l
  <2>2. CASE r = ring
    <3>1. /\ DOMAIN RemoveAt(q, i) = 1 .. Len(q) - 1
          /\ \A k \in 1 .. Len(q) - 1 : RemoveAt(q, i)[k] = IF k < i THEN q[k] ELSE q[k + 1]
      BY <2>1, RemoveAtIs
    <3>2. j \in 1 .. Len(q) - 1
      BY <1>6, <1>7, <2>2, <3>1
    <3>3. stmts'[s][r][j] = IF j < i THEN q[j] ELSE q[j + 1]
      BY <1>6, <2>2, <3>1, <3>2
    <3>4. q = stmts[s][r]
      BY <2>2 DEF q
    <3> QED
      BY <2>1, <2>2, <3>2, <3>3, <3>4
  <2>3. CASE r # ring
    BY <1>1, <1>6, <1>7, <2>3, StmtType
  <2> QED
    BY <2>2, <2>3
<1>8. i \in Nat
  BY <1>1, StmtType
<1>9. \A r \in Ring : \A j, k \in DOMAIN stmts'[s][r] : j <= k => Was(r, j) <= Was(r, k)
  <2>1. ASSUME NEW r \in Ring, NEW j \in DOMAIN stmts'[s][r], NEW k \in DOMAIN stmts'[s][r], j <= k
        PROVE  Was(r, j) <= Was(r, k)
    <3>1. j \in Nat /\ k \in Nat
      BY <1>7
    <3> QED
      BY <1>8, <2>1, <3>1
  <2> QED
    BY <2>1
<1>10. Sorted(s)'
  <2> SUFFICES ASSUME NEW r \in Ring, NEW j \in DOMAIN stmts'[s][r], NEW k \in DOMAIN stmts'[s][r], j <= k
               PROVE  stmts'[s][r][j].view <= stmts'[s][r][k].view
    BY DEF Sorted
  <2> HIDE DEF Was
  <2>1. Was(r, j) <= Was(r, k) /\ Was(r, j) \in DOMAIN stmts[s][r] /\ Was(r, k) \in DOMAIN stmts[s][r]
    BY <1>7, <1>9
  <2> QED
    BY <1>1, <1>7, <2>1 DEF ReadOK, Sorted
<1> HIDE DEF Was
<1>11. ASSUME NEW r \in Ring
       PROVE  /\ \A j \in DOMAIN stmts'[s][r] :
                   /\ FirstView(stmts'[s][r]) <= stmts'[s][r][j].view
                   /\ stmts'[s][r][j].snap => SnapshotView(stmts'[s][r]) <= stmts'[s][r][j].view
              /\ FirstView(stmts'[s][r]) = Infinite \/ FirstView(stmts'[s][r]) <= system
              /\ SnapshotView(stmts'[s][r]) = Infinite \/ SnapshotView(stmts'[s][r]) <= system
              /\ FirstView(stmts'[s][r]) \in Nat /\ SnapshotView(stmts'[s][r]) \in Nat
  <2> DEFINE p == stmts'[s][r]
  <2>1. p \in Seq(Statement)
    BY <1>1, <1>11 DEF TypeOK, Ring
  <2>2. \A j, k \in DOMAIN p : j <= k => p[j].view <= p[k].view
    BY <1>10, <1>11 DEF Sorted
  <2>3. \A j \in DOMAIN p : p[j].view <= system
    BY <1>1, <1>7, <1>11 DEF ReadOK, Older
  <2> HIDE DEF p
  <2>4. /\ \A j \in DOMAIN p : FirstView(p) <= p[j].view /\ (p[j].snap => SnapshotView(p) <= p[j].view)
        /\ FirstView(p) = Infinite \/ FirstView(p) <= system
        /\ SnapshotView(p) = Infinite \/ SnapshotView(p) <= system
    BY <2>1, <2>2, <2>3, OldestIs
  <2>5. FirstView(p) \in Nat /\ SnapshotView(p) \in Nat
    BY <2>1, FirstType, ScnType
  <2> QED
    BY <2>4, <2>5 DEF p
<1>12. /\ snapshot = Infinite \/ snapshot <= system
       /\ stmt = Infinite \/ stmt <= system
       /\ \A r \in Ring : \A j \in DOMAIN stmts'[s][r] :
            stmt <= stmts'[s][r][j].view /\ (stmts'[s][r][j].snap => snapshot <= stmts'[s][r][j].view)
  <2> DEFINE ro == stmts'[s].readOnly
             up == stmts'[s].updatable
  <2>1. snapshot = Lower(SnapshotView(ro), SnapshotView(up)) /\ stmt = Lower(FirstView(ro), FirstView(up))
    BY <1>6
  <2> HIDE DEF snapshot, stmt
  <2>2. /\ FirstView(ro) = Infinite \/ FirstView(ro) <= system
        /\ FirstView(up) = Infinite \/ FirstView(up) <= system
        /\ SnapshotView(ro) = Infinite \/ SnapshotView(ro) <= system
        /\ SnapshotView(up) = Infinite \/ SnapshotView(up) <= system
        /\ FirstView(ro) \in Nat /\ FirstView(up) \in Nat
        /\ SnapshotView(ro) \in Nat /\ SnapshotView(up) \in Nat
    <3>1. "readOnly" \in Ring /\ "updatable" \in Ring
      BY DEF Ring
    <3> QED
      BY <1>11, <3>1
  <2>3. /\ snapshot = Infinite \/ snapshot <= system
        /\ stmt = Infinite \/ stmt <= system
        /\ snapshot <= SnapshotView(ro) /\ snapshot <= SnapshotView(up) /\ snapshot \in Nat
        /\ stmt <= FirstView(ro) /\ stmt <= FirstView(up) /\ stmt \in Nat
    <3> HIDE DEF ro, up
    <3> QED
      BY <2>1, <2>2, LowerType
  <2>4. ASSUME NEW r \in Ring, NEW j \in DOMAIN stmts'[s][r]
        PROVE  stmt <= stmts'[s][r][j].view /\ (stmts'[s][r][j].snap => snapshot <= stmts'[s][r][j].view)
    <3>1. stmts'[s][r][j].view \in Nat
      BY <1>1, <1>7, StmtType
    <3>2. stmt <= FirstView(stmts'[s][r]) /\ snapshot <= SnapshotView(stmts'[s][r])
      BY <2>3 DEF Ring
    <3> QED
      BY <1>11, <2>3, <3>1, <3>2
  <2> QED
    BY <2>3, <2>4
<1> HIDE DEF snapshot, stmt, l, q, freed, sh
<1>13. FieldsOK(s)'
  BY <1>1, <1>5, <1>12 DEF ReadOK, FieldsOK
<1>14. \A view : Older(s, view) => Older(s, view)'
  BY <1>7 DEF Older
<1>15. StmtsOK(s)'
  <2>1. ASSUME NEW r \in Ring, NEW j \in DOMAIN stmts'[s][r], NEW st, st = stmts'[s][r][j], ~st.serial
        PROVE  KeptStmt(s, st.view)' /\ (st.snap => KeptScn(s, st.view)')
    <3>1. Was(r, j) \in DOMAIN stmts[s][r] /\ st = stmts[s][r][Was(r, j)]
      BY <1>7, <2>1
    <3>2. KeptStmt(s, st.view) /\ (st.snap => KeptScn(s, st.view)) /\ st.view \in Nat
      BY <1>1, <2>1, <3>1, StmtType DEF ReadOK, StmtsOK
    <3>3. shared'[s].stmt <= st.view /\ (st.snap => shared'[s].snapshot <= st.view)
      BY <1>5, <1>12, <2>1, <3>2 DEF KeptStmt, KeptScn
    <3> QED
      BY <1>1, <3>2, <3>3, KeptLasts
  <2> QED
    BY <1>1, <2>1 DEF StmtsOK, KeptStmt, KeptScn, Unread
<1>16. PublishOK(s)' /\ OpenOK(s)' /\ DropOK(s)'
  BY <1>1 DEF PublishOK, OpenOK, DropOK, Published
<1>17. TransOK(s)' /\ Older(s, system)'
  <2>1. Older(s, system)'
    BY <1>1, <1>14 DEF ReadOK, Older
  <2>2. Serial(s) => Older(s, shared[s].transView)'
    BY <1>1, <1>5, <1>14 DEF ReadOK, TransOK, Older
  <2> QED
    BY <1>1, <2>1, <2>2 DEF TransOK, Serial
<1>18. ReadOK(s)'
  BY <1>10, <1>13, <1>15, <1>16, <1>17 DEF ReadOK
<1> QED
  BY <1>1, <1>4, <1>18, Steady, ReadStep

LEMMA AgeDroppedRead ==
  ASSUME ScnInv, ReadInv, ScnInv', NEW s \in Session, AgeDropped(s)
  PROVE  ReadInv'
<1>1. /\ TypeOK /\ TypeOK' /\ ReadOK(s)
      /\ UNCHANGED <<system, agable, shared, slot, stmts, call, ager>>
  BY DEF ScnInv, ReadInv, AgeDropped
<1>2. PublishOK(s)' /\ OpenOK(s)' /\ DropOK(s)' /\ TransOK(s)'
  BY <1>1 DEF ReadOK, PublishOK, OpenOK, DropOK, TransOK, Serial, Older, KeptScn, KeptStmt, KeptDrop, Unread
<1> QED
  BY <1>1, <1>2, Steady, CallStep

\* No session is concerned: CallStep is taken for one that does nothing.
LEMMA OtherScnRead ==
  ASSUME ScnInv, ReadInv, ScnInv', OtherScn
  PROVE  ReadInv'
<1>1. /\ TypeOK /\ TypeOK' /\ system < MaxScn /\ system' = system + 1
      /\ UNCHANGED <<agable, shared, slot, stmts, call, drop, ager>>
  BY ScnAssumption DEF ScnInv, TypeOK, Scn, OtherScn, sessionVars
<1>2. system <= system' /\ system \in Nat /\ system' \in Nat
  BY <1>1, AgerType
<1>3. ReadOK(1)
  BY ScnType DEF ReadInv
<1>4. PublishOK(1)' /\ OpenOK(1)' /\ DropOK(1)' /\ TransOK(1)'
  <2>1. Older(1, call[1].scn) => Older(1, call[1].scn)'
    BY <1>1 DEF Older
  <2>2. KeptScn(1, call[1].scn) => KeptScn(1, call[1].scn)'
    BY <1>1 DEF KeptScn, Unread
  <2>3. KeptStmt(1, call[1].scn) => KeptStmt(1, call[1].scn)'
    BY <1>1 DEF KeptStmt, Unread
  <2>4. Serial(1)' = Serial(1)
    BY <1>1 DEF Serial
  <2>5. call[1].scn \in Nat
    BY <1>1, ScnType DEF TypeOK, Call
  <2>6. PublishOK(1)'
    BY <1>1, <1>2, <1>3, <2>4, <2>5 DEF ReadOK, PublishOK
  <2>7. OpenOK(1)'
    BY <1>1, <1>2, <1>3, <2>1, <2>2, <2>3, <2>4, <2>5 DEF ReadOK, OpenOK
  <2>8. DropOK(1)'
    BY <1>1, <1>2, <1>3, DropLasts, ScnType DEF ReadOK, DropOK
  <2>9. TransOK(1)'
    BY <1>1, <1>3, <2>4 DEF ReadOK, TransOK, Older
  <2> QED
    BY <2>6, <2>7, <2>8, <2>9
<1> QED
  BY <1>1, <1>2, <1>4, ScnType, CallStep

-----------------------------------------------------------------------------
(* The ager *)

\* A step of the ager: what is kept stays kept.
LEMMA AgerStep ==
  ASSUME TypeOK, ReadInv, UNCHANGED <<system, sessionVars>>, AgerOrdered',
         \A s \in Session, view \in Nat : KeptScn(s, view) => KeptScn(s, view)',
         \A s \in Session, view \in Nat : KeptStmt(s, view) => KeptStmt(s, view)',
         \A s \in Session : KeptDrop(s) => KeptDrop(s)'
  PROVE  ReadInv'
<1>1. UNCHANGED <<shared, slot, stmts, call, drop>>
  BY DEF sessionVars
<1>2. ASSUME NEW s \in Session PROVE ReadOK(s)'
  <2>1. ReadOK(s)
    BY DEF ReadInv
  <2>2. FieldsOK(s)' /\ Older(s, system)' /\ Sorted(s)' /\ PublishOK(s)' /\ TransOK(s)'
    BY <1>1, <2>1 DEF ReadOK, FieldsOK, Older, Sorted, PublishOK, TransOK, Serial
  <2>3. StmtsOK(s)'
    <3>1. ASSUME NEW ring \in Ring, NEW i \in DOMAIN stmts[s][ring], NEW st, st = stmts[s][ring][i], ~st.serial
          PROVE  /\ KeptStmt(s, st.view)'
                 /\ st.snap => KeptScn(s, st.view)'
                 /\ call[s].at # "stmt"
                 /\ st.snap => call[s].at # "snapshot"
      BY <2>1, <3>1, StmtType DEF ReadOK, StmtsOK
    <3> QED
      BY <1>1, <3>1 DEF StmtsOK, KeptStmt, KeptScn, Unread
  <2>4. OpenOK(s)'
    <3>1. PICK scn \in Nat : scn = call[s].scn
      BY ScnType DEF TypeOK, Call
    <3>2. call[s].at = "open" =>
            /\ scn <= system /\ Older(s, scn)
            /\ Serial(s) => scn = slot[s].view
            /\ ~Serial(s) => /\ call[s].snap => KeptScn(s, scn)'
                             /\ IF shared[s].stmt = Infinite THEN call[s].snap ELSE KeptStmt(s, scn)'
      BY <2>1, <3>1 DEF ReadOK, OpenOK
    <3>3. Older(s, scn) => Older(s, scn)'
      BY <1>1 DEF Older
    <3> QED
      BY <1>1, <3>1, <3>2, <3>3 DEF OpenOK, KeptScn, KeptStmt, Unread, Older, Serial
  <2>5. DropOK(s)'
    BY <1>1, <2>1 DEF ReadOK, DropOK
  <2> QED
    BY <2>2, <2>3, <2>4, <2>5 DEF ReadOK
<1> QED
  BY <1>2 DEF ReadInv

LEMMA BeginPassRead ==
  ASSUME ScnInv, ReadInv, ScnInv', BeginPass
  PROVE  ReadInv'
<1>1. /\ TypeOK /\ AgerOrdered /\ UNCHANGED <<system, agable, sessionVars>>
      /\ ager'.at = "sessions" /\ ager'.next = 1 /\ ager'.field = "snapshot"
      /\ ager'.scn = system /\ ager'.stmt = system
  BY DEF ScnInv, ReadInv, BeginPass
<1>2. \A s \in Session : Unread(s, {"snapshot"})' /\ Unread(s, {"snapshot", "stmt"})'
                         /\ Unread(s, {"snapshot", "stmt", "disabled"})'
  BY <1>1 DEF Unread, Session
<1>3. AgerOrdered'
  BY <1>1, AgerType DEF AgerOrdered
<1>4. UNCHANGED shared
  BY <1>1 DEF sessionVars
<1> QED
  BY <1>1, <1>2, <1>3, <1>4, AgerStep DEF KeptScn, KeptStmt, KeptDrop

\* A step of a pass: the minima only fall, and a field that has been read is in them.
LEMMA PassRead ==
  ASSUME TypeOK, TypeOK', ReadInv, UNCHANGED <<system, agable, sessionVars>>,
         ager'.scn <= ager.scn, ager'.stmt <= ager.stmt,
         \A s \in Session :
           /\ Unread(s, {"snapshot"}) => Unread(s, {"snapshot"})' \/ ager'.scn <= shared[s].snapshot
           /\ Unread(s, {"snapshot", "stmt"}) =>
                Unread(s, {"snapshot", "stmt"})' \/ ager'.stmt <= shared[s].stmt
           /\ Unread(s, {"snapshot", "stmt", "disabled"}) =>
                Unread(s, {"snapshot", "stmt", "disabled"})' \/ ager'.stmt <= shared[s].disabled
  PROVE  ReadInv'
<1>1. /\ AgerOrdered /\ UNCHANGED <<shared, slot, stmts, call, drop>>
      /\ system \in Nat /\ ager.scn \in Nat /\ ager.stmt \in Nat /\ ager'.scn \in Nat /\ ager'.stmt \in Nat
  BY AgerType, ScnType DEF ReadInv, sessionVars, TypeOK, Ager
<1>2. AgerOrdered'
  BY <1>1 DEF AgerOrdered
<1>3. ASSUME NEW s \in Session, NEW view \in Nat, KeptScn(s, view) PROVE KeptScn(s, view)'
  BY <1>1, <1>3, SharedType DEF KeptScn
<1>4. ASSUME NEW s \in Session, NEW view \in Nat, KeptStmt(s, view) PROVE KeptStmt(s, view)'
  BY <1>1, <1>4, SharedType DEF KeptStmt
<1>5. ASSUME NEW s \in Session, KeptDrop(s) PROVE KeptDrop(s)'
  BY <1>1, <1>5, SharedType DEF KeptDrop
<1> QED
  BY <1>2, <1>3, <1>4, <1>5, AgerStep

LEMMA ReadFieldRead ==
  ASSUME ScnInv, ReadInv, ScnInv', ReadField
  PROVE  ReadInv'
<1> DEFINE f == ager.field
<1> DEFINE v == shared[ager.next][f]
<1> DEFINE last == f = "transView"
<1>1. /\ TypeOK /\ TypeOK' /\ ager \in Ager /\ ager.at = "sessions" /\ UNCHANGED <<system, agable, sessionVars>>
  BY DEF ScnInv, TypeOK, ReadField
<1>2. /\ f \in {"snapshot", "stmt", "disabled", "minTrans", "transView"} /\ ager.next \in Session
      /\ ager.scn \in Nat /\ ager.stmt \in Nat /\ N \in Nat
  BY <1>1, AgerType, ScnAssumption DEF Ager
<1>3. v \in Nat
  BY <1>1, <1>2, ScnType DEF TypeOK, Fields
<1>4. /\ ager'.scn = (IF f \in {"snapshot", "disabled"} THEN Lower(ager.scn, v) ELSE ager.scn)
      /\ ager'.stmt = (IF f \in {"stmt", "disabled"} THEN Lower(ager.stmt, v) ELSE ager.stmt)
      /\ ager'.field = NextField[f]
      /\ ager'.next = (IF ~last THEN ager.next ELSE IF ager.next < N THEN ager.next + 1 ELSE 1)
      /\ ager'.at = IF last /\ ager.next = N THEN "slots" ELSE "sessions"
  BY <1>1 DEF ReadField, Ager
<1>5. /\ f = "snapshot" => v = shared[ager.next].snapshot /\ NextField[f] = "stmt"
      /\ f = "stmt" => v = shared[ager.next].stmt /\ NextField[f] = "disabled"
      /\ f = "disabled" => v = shared[ager.next].disabled /\ NextField[f] = "minTrans"
      /\ last => NextField[f] = "snapshot"
  BY DEF NextField
<1> HIDE DEF v
<1>6. /\ ager'.scn <= ager.scn /\ ager'.stmt <= ager.stmt
      /\ f = "snapshot" => ager'.scn <= v
      /\ f = "stmt" => ager'.stmt <= v
      /\ f = "disabled" => ager'.stmt <= v
  <2>1. ager.scn <= ager.scn /\ ager.stmt <= ager.stmt
    BY <1>2
  <2> HIDE DEF f
  <2> QED
    BY <1>2, <1>3, <1>4, <2>1, LowerType
<1>7. ASSUME NEW s \in Session
      PROVE  /\ Unread(s, {"snapshot"}) => Unread(s, {"snapshot"})' \/ ager'.scn <= shared[s].snapshot
             /\ Unread(s, {"snapshot", "stmt"}) =>
                  Unread(s, {"snapshot", "stmt"})' \/ ager'.stmt <= shared[s].stmt
             /\ Unread(s, {"snapshot", "stmt", "disabled"}) =>
                  Unread(s, {"snapshot", "stmt", "disabled"})' \/ ager'.stmt <= shared[s].disabled
  <2>1. CASE ager.next = s
    <3>1. CASE f = "snapshot"
      <4>1. ager'.at = "sessions" /\ ager'.next = s /\ ager'.field = "stmt" /\ ager'.scn <= shared[s].snapshot
        BY <1>4, <1>5, <1>6, <2>1, <3>1
      <4> QED
        BY <4>1 DEF Unread
    <3>2. CASE f = "stmt"
      <4>1. /\ ager'.at = "sessions" /\ ager'.next = s /\ ager'.field = "disabled"
            /\ ager'.stmt <= shared[s].stmt
        BY <1>4, <1>5, <1>6, <2>1, <3>2
      <4> QED
        BY <1>2, <2>1, <3>2, <4>1 DEF Unread, Session
    <3>3. CASE f = "disabled"
      <4>1. ager'.stmt <= shared[s].disabled
        BY <1>5, <1>6, <2>1, <3>3
      <4> QED
        BY <1>2, <2>1, <3>3, <4>1 DEF Unread, Session
    <3>4. CASE f \in {"minTrans", "transView"}
      BY <1>2, <2>1, <3>4 DEF Unread, Session
    <3> QED
      BY <1>2, <3>1, <3>2, <3>3, <3>4
  <2>2. CASE ager.next < s
    <3>1. ager.next # N /\ ager.next < N /\ ager'.at = "sessions"
      BY <1>2, <1>4, <2>2 DEF Session
    <3>2. CASE ~last
      BY <1>2, <1>4, <2>2, <3>1, <3>2 DEF Unread
    <3>3. CASE last
      <4>1. ager'.next = ager.next + 1 /\ ager'.field = "snapshot"
        BY <1>4, <1>5, <3>1, <3>3
      <4>2. ager'.next < s \/ ager'.next = s
        BY <1>2, <2>2, <4>1 DEF Session
      <4> QED
        BY <3>1, <4>1, <4>2 DEF Unread
    <3> QED
      BY <3>2, <3>3
  <2>3. CASE ager.next > s
    BY <1>2, <2>3 DEF Unread, Session
  <2> QED
    BY <1>2, <2>1, <2>2, <2>3 DEF Session
<1> QED
  BY <1>1, <1>6, <1>7, PassRead

LEMMA ReadSlotRead ==
  ASSUME ScnInv, ReadInv, ScnInv', ReadSlot
  PROVE  ReadInv'
<1> DEFINE s      == ager.next
<1> DEFINE serial == slot[s].state \in {"active", "precommit"} /\ s \in Serializable
<1> DEFINE v      == slot[s].view
<1>1. /\ TypeOK /\ TypeOK' /\ ager \in Ager /\ ager.at = "slots" /\ UNCHANGED <<system, agable, sessionVars>>
  BY DEF ScnInv, TypeOK, ReadSlot
<1>2. s \in Session /\ ager.scn \in Nat /\ ager.stmt \in Nat
  BY <1>1, AgerType
<1>3. v \in Nat
  BY <1>1, <1>2, ScnType DEF TypeOK, Slot
<1>4. /\ ager'.scn = (IF serial THEN Lower(ager.scn, v) ELSE ager.scn)
      /\ ager'.stmt = (IF serial THEN Lower(ager.stmt, v) ELSE ager.stmt)
  BY <1>1 DEF ReadSlot, Ager
<1>5. ager'.scn <= ager.scn /\ ager'.stmt <= ager.stmt
  <2>1. ager.scn <= ager.scn /\ ager.stmt <= ager.stmt
    BY <1>2
  <2> HIDE DEF v, serial
  <2> QED
    BY <1>2, <1>3, <1>4, <2>1, LowerType
<1> QED
  BY <1>1, <1>5, PassRead DEF Unread

LEMMA EndPassRead ==
  ASSUME ScnInv, ReadInv, ScnInv', EndPass
  PROVE  ReadInv'
<1> DEFINE low == Lower(ager.scn, ager.stmt)
<1>1. /\ TypeOK /\ TypeOK' /\ AgerOrdered /\ ager \in Ager /\ ager.at = "write"
      /\ UNCHANGED <<system, sessionVars>> /\ UNCHANGED shared
      /\ agable'.scn = ager.scn /\ agable'.stmt = low
      /\ ager'.scn = 1 /\ ager'.stmt = 1
  BY DEF ScnInv, ReadInv, TypeOK, EndPass, Ager, sessionVars
<1>2. ager.scn \in Nat /\ ager.stmt \in Nat /\ system \in Nat /\ 1 <= system
  BY <1>1, AgerType
<1>3. low \in Nat /\ low <= ager.scn /\ low <= ager.stmt
  BY <1>2, LowerType
<1> HIDE DEF low
<1>4. AgerOrdered'
  BY <1>1, <1>2, <1>3 DEF AgerOrdered
<1>5. \A s \in Session : 1 <= shared[s].snapshot /\ 1 <= shared[s].stmt /\ 1 <= shared[s].disabled
  BY <1>1, SharedType
<1>6. ASSUME NEW s \in Session, NEW view \in Nat, KeptScn(s, view) PROVE KeptScn(s, view)'
  <2>1. 1 <= view
    BY <1>1, <1>5, <1>6, SharedType DEF KeptScn
  <2> QED
    BY <1>1, <1>6, <2>1 DEF KeptScn, Unread
<1>7. ASSUME NEW s \in Session, NEW view \in Nat, KeptStmt(s, view) PROVE KeptStmt(s, view)'
  <2>1. 1 <= view
    BY <1>1, <1>5, <1>7, SharedType DEF KeptStmt
  <2> QED
    BY <1>1, <1>2, <1>3, <1>7, <2>1 DEF KeptStmt, Unread
<1>8. ASSUME NEW s \in Session, KeptDrop(s) PROVE KeptDrop(s)'
  BY <1>1, <1>2, <1>3, <1>5, <1>8, SharedType DEF KeptDrop, Unread
<1> QED
  BY <1>1, <1>4, <1>6, <1>7, <1>8, AgerStep

-----------------------------------------------------------------------------
LEMMA InitRead == Init => ReadInv
<1> SUFFICES ASSUME Init PROVE ReadInv
  OBVIOUS
<1>1. TypeOK
  BY InitInv DEF ScnInv
<1>2. AgerOrdered
  BY DEF Init, AgerOrdered
<1>3. ASSUME NEW s \in Session PROVE ReadOK(s)
  <2>1. FieldsOK(s)
    BY DEF Init, FieldsOK
  <2>2. \A ring \in Ring : DOMAIN stmts[s][ring] = {}
    BY DEF Init, Ring
  <2>3. Older(s, system) /\ Sorted(s) /\ StmtsOK(s)
    BY <2>2 DEF Older, Sorted, StmtsOK
  <2>4. PublishOK(s) /\ OpenOK(s) /\ DropOK(s) /\ TransOK(s)
    BY DEF Init, Idle, PublishOK, OpenOK, DropOK, TransOK, Serial, Published
  <2> QED
    BY <2>1, <2>3, <2>4 DEF ReadOK
<1> QED
  BY <1>2, <1>3 DEF ReadInv

LEMMA NextRead == ScnInv /\ ReadInv /\ [Next]_vars => ReadInv'
<1> SUFFICES ASSUME ScnInv, ReadInv, [Next]_vars PROVE ReadInv'
  OBVIOUS
<1>0. ScnInv'
  BY NextInv
<1>1. ASSUME NEW s \in Session, GoOn(s) PROVE ReadInv'
  BY <1>0, <1>1, LoadRead, StoreRead, CheckRead, ActivateRead, TakeCommitScnRead, SetEndedRead, PendingRead,
     UnlockRead, FreeTransRead, SetMinTransRead, OpenStatementRead DEF GoOn
<1>2. ASSUME NEW s \in Session, AllocTrans(s) \/ EndTrans(s) \/ AgeDropped(s) PROVE ReadInv'
  BY <1>0, <1>2, AllocTransRead, EndTransRead, AgeDroppedRead
<1>3. ASSUME NEW s \in Session, NEW k \in Kinds[s], AllocStatement(s, k.snap, k.ring) PROVE ReadInv'
  BY <1>0, <1>3, AllocStatementRead
<1>4. ASSUME NEW s \in Session, NEW ring \in Ring, NEW i \in 1 .. MaxStmts[s], FreeStatement(s, ring, i)
      PROVE  ReadInv'
  BY <1>0, <1>4, FreeStatementRead
<1>5. CASE OtherScn
  BY <1>0, <1>5, OtherScnRead
<1>6. CASE Age
  BY <1>0, <1>6, BeginPassRead, ReadFieldRead, ReadSlotRead, EndPassRead DEF Age
<1>7. CASE UNCHANGED vars
  <2>1. UNCHANGED <<system, agable, shared, slot, stmts, call, drop, ager>>
    BY <1>7 DEF vars
  <2> QED
    BY <2>1, AgerStep DEF ReadInv, ScnInv, sessionVars, AgerOrdered, KeptScn, KeptStmt, KeptDrop, Unread
<1> QED
  BY <1>1, <1>2, <1>3, <1>4, <1>5, <1>6, <1>7 DEF Next

LEMMA ReadInvariant == Spec => []ReadInv
BY InitRead, InitInv, NextRead, NextInv, PTL DEF Spec

LEMMA OpenIsListed ==
  ASSUME TypeOK, NEW s \in Session, NEW st \in OpenStatements(s)
  PROVE  \E ring \in Ring : \E i \in DOMAIN stmts[s][ring] : st = stmts[s][ring][i]
BY DEF OpenStatements, ToSet

\* OpenViewsAreKept: while a statement is open, mAgableScn (for a snapshot) and
\* mAgableStmtScn (for any statement) stay at or below its view, whenever the ager reads
\* the session while the statement publishes its view: the load, the store and the second
\* load of smxlGetAtomicSystemScn leave no moment at which a pass can overlook it.
THEOREM OpenViewsAreKept == Spec => []ViewsAreKept
<1>1. ScnInv /\ ReadInv => ViewsAreKept
  <2> SUFFICES ASSUME ScnInv, ReadInv, NEW s \in Session, NEW st \in OpenStatements(s), ~st.serial
               PROVE  (st.snap => agable.scn <= st.view) /\ agable.stmt <= st.view
    BY DEF ViewsAreKept
  <2>1. PICK ring \in Ring : \E i \in DOMAIN stmts[s][ring] : st = stmts[s][ring][i]
    BY OpenIsListed DEF ScnInv
  <2>2. PICK i \in DOMAIN stmts[s][ring] : st = stmts[s][ring][i]
    BY <2>1
  <2> QED
    BY <2>2 DEF ReadInv, ReadOK, StmtsOK, KeptStmt, KeptScn
<1> QED
  BY <1>1, ScnInvariant, ReadInvariant, PTL

\* DropsAreLast: a dropped relation is aged only after its transaction has let its locks
\* go, and not while a statement that began before the drop is open: the SCN that
\* smxlDisableAgableScn publishes holds mAgableStmtScn below the SCN of the drop.
THEOREM DropsAreLast == Spec => DropIsLast
<1>1. ASSUME ScnInv, ReadInv, [Next]_vars, NEW s \in Session, drop[s] # 0, drop'[s] = 0
      PROVE  /\ ~(call[s].at = "unlock" /\ call[s].scn = drop[s])
             /\ \A t \in Session : \A st \in OpenStatements(t) : ~st.serial => drop[s] <= st.view
  <2>1. TypeOK /\ drop[s] \in Nat /\ agable.stmt \in Nat
    <3>1. TypeOK /\ drop[s] \in 0 .. MaxScn
      BY <1>1 DEF ScnInv, TypeOK
    <3> QED
      BY <3>1, AgerType
  <2>2. drop[s] <= agable.stmt
    <3>1. \A t \in Session : ~GoOn(t)
      <4>1. ASSUME NEW t \in Session, GoOn(t) PROVE drop' = drop \/ Pending(t)
        BY <4>1 DEF GoOn, Load, Store, Check, Activate, TakeCommitScn, SetEnded, Unlock, FreeTrans,
                    SetMinTrans, OpenStatement
      <4>2. ASSUME NEW t \in Session, Pending(t) PROVE drop'[s] # 0
        BY <1>1, <2>1, <4>2, AgerType DEF Pending, TypeOK
      <4> QED
        BY <1>1, <4>1, <4>2
    <3>2. PICK t \in Session : AgeDropped(t)
      <4>1. drop' # drop
        BY <1>1
      <4>2. ~Age /\ ~OtherScn /\ ~UNCHANGED vars
        BY <4>1 DEF OtherScn, Age, BeginPass, ReadField, ReadSlot, EndPass, sessionVars, vars
      <4>3. \A t \in Session : ~AllocTrans(t) /\ ~EndTrans(t)
        BY <4>1 DEF AllocTrans, EndTrans
      <4>4. \A t \in Session : \A snap, ring : ~AllocStatement(t, snap, ring)
        BY <4>1 DEF AllocStatement
      <4>5. \A t \in Session : \A ring, i : ~FreeStatement(t, ring, i)
        BY <4>1 DEF FreeStatement
      <4> QED
        BY <1>1, <3>1, <4>2, <4>3, <4>4, <4>5 DEF Next
    <3>3. t = s
      BY <1>1, <2>1, <3>2 DEF AgeDropped, TypeOK
    <3> QED
      BY <3>2, <3>3 DEF AgeDropped
  <2>3. ~(call[s].at = "unlock" /\ call[s].scn = drop[s])
    <3> SUFFICES ASSUME call[s].at = "unlock", call[s].scn = drop[s] PROVE FALSE
      OBVIOUS
    <3>1. KeptDrop(s) /\ shared[s].disabled < drop[s]
      BY <1>1 DEF ReadInv, ReadOK, DropOK
    <3> QED
      BY <2>1, <2>2, <3>1, SharedType DEF KeptDrop
  <2>4. ASSUME NEW t \in Session, NEW st \in OpenStatements(t), ~st.serial PROVE drop[s] <= st.view
    <3>1. PICK ring \in Ring : \E i \in DOMAIN stmts[t][ring] : st = stmts[t][ring][i]
      BY <2>1, OpenIsListed
    <3>2. PICK i \in DOMAIN stmts[t][ring] : st = stmts[t][ring][i]
      BY <3>1
    <3>3. agable.stmt <= st.view /\ st.view \in Nat
      BY <1>1, <2>1, <2>4, <3>2, StmtType DEF ReadInv, ReadOK, StmtsOK, KeptStmt
    <3> QED
      BY <2>1, <2>2, <3>3
  <2> QED
    BY <2>3, <2>4
<1>2. ScnInv /\ ReadInv /\ [Next]_vars =>
        [\A s \in Session : drop[s] # 0 /\ drop'[s] = 0 =>
           /\ ~(call[s].at = "unlock" /\ call[s].scn = drop[s])
           /\ \A t \in Session : \A st \in OpenStatements(t) : ~st.serial => drop[s] <= st.view]_vars
  BY <1>1
<1> QED
  BY <1>2, ScnInvariant, ReadInvariant, PTL DEF Spec, DropIsLast
=============================================================================
