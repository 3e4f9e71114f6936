--------------------------- MODULE LogBufferProofs ---------------------------
(***************************************************************************)
(* LogBuffer for any number of threads, pending buffers, blocks and        *)
(* crashes: LSN order over all buffers, what mFrontLsn stands for, that a  *)
(* flush that returns is on disk, and that the whole implements RedoLog.   *)
(***************************************************************************)
EXTENDS LogBuffer, FiniteSetTheorems, WellFoundedInduction, SequenceTheorems, TLAPS

\* Where a thread has the buffer latch, and where it has an LSN whose log is still
\* in its hands only.
Latched == {"stamp", "writeWait", "writeApply", "put", "group", "flushWait", "flushApply", "close"}
Fresh   == {"publish", "writeWait", "writeApply", "put"}

\* The latches and what the threads are doing agree.
OwnersOK ==
  /\ \A t \in Thread : call[t].pc \in Latched <=> bufferLatch = t
  /\ \A t \in Thread : call[t].pc = "disk" <=> fileLatch = t
  /\ \A p \in Pend : pendLatch[p] # NoOne => call[pendLatch[p]].pc = "publish"
  /\ \A t \in Thread : call[t].pc = "publish" => \E p \in Pend : pendLatch[p] = t
  /\ \A p, q \in Pend : pendLatch[p] # NoOne /\ pendLatch[p] = pendLatch[q] => p = q

\* The logs of the buffer lie in LSN order, in blocks that are not too many, and leave
\* no block out; those on disk are older.  A dirty page knows no block behind the rear one.
BufferOK ==
  /\ \A r \in buffer : /\ r.first <= r.last /\ r.last <= rearSbsn
                       /\ r.lsn <= rearLsn /\ r.last - frontSbsn < Room
  /\ \A r, q \in buffer : r.lsn = q.lsn => r = q
  /\ \A r, q \in buffer : r.lsn < q.lsn => r.last <= q.first
  /\ \A b \in 0 .. rearSbsn - 1 : \E r \in buffer : r.first <= b /\ b <= r.last
  /\ \A d \in disk : d <= rearLsn /\ \A r \in buffer : d < r.lsn
  /\ \A d \in dirty : d.sbsn <= rearSbsn

\* The front, and the write to disk that moves it.
FrontOK ==
  /\ frontLsn <= rearLsn
  /\ FrontBelowRear
  /\ \A r \in buffer : r.lsn <= frontLsn => r.last <= frontSbsn
  /\ \A t \in Thread : call[t].pc = "disk" => frontSbsn < call[t].till /\ call[t].till < rearSbsn

\* LSNs that have no place in the log buffer yet: newer than all that have, each in one
\* pending buffer or one hand, and in order in each pending buffer.
PendingOK ==
  /\ PendingIsNewer
  /\ \A p, q \in Pend : \A i \in 1 .. Len(pend[p]), j \in 1 .. Len(pend[q]) :
       pend[p][i] = pend[q][j] => p = q
  /\ \A p \in Pend :
       pendLatch[p] # NoOne => \A i \in 1 .. Len(pend[p]) : pend[p][i] < call[pendLatch[p]].my
  /\ \A t \in Thread : call[t].pc \in Fresh => call[t].my \notin Published /\ call[t].my > rearLsn
  /\ \A t, u \in Thread :
       call[t].pc \in Fresh /\ call[u].pc \in Fresh /\ call[t].my = call[u].my => t = u
  /\ \A p \in Pend : cursor[p] <= Len(pend[p])

\* Whoever copies a log into pending buffer p has a newer LSN than l.
NewerCopied(p, l) == pendLatch[p] # NoOne => call[pendLatch[p]].my > l

\* What the owner of the buffer latch has made sure of: nothing up to its LSN is still
\* being copied into a pending buffer that it has waited for, and, when it has waited
\* for all, what the cursor does not hold is newer.
Settled(t) ==
  /\ call[t].pc \in {"writeWait", "flushWait"} =>
       \A p \in Pend \ awaited : NewerCopied(p, EndLsn(t))
  /\ call[t].pc \in {"writeApply", "flushApply"} =>
       \A p \in Pend : /\ NewerCopied(p, EndLsn(t))
                       /\ \A i \in cursor[p] + 1 .. Len(pend[p]) : pend[p][i] > EndLsn(t)
  /\ call[t].pc = "put" => \A l \in Pending : l >= call[t].my

LogInv ==
  TypeOK /\ OwnersOK /\ BufferOK /\ FrontOK /\ PendingOK /\ \A t \in Thread : Settled(t)

-----------------------------------------------------------------------------
(* Types *)

CallType(n) ==
  [pc : Label, op : {"log", "commit", "page"}, my : 0 .. n - 1, hint : Nat \cup {InvalidSbsn},
   goal : 0 .. n - 1, till : Nat \cup {InvalidSbsn, Unbounded}, skip : BOOLEAN,
   then : {"idle", "try", "flush", "all"}]

LEMMA TypeIs ==
  TypeOK <=>
    /\ lsn \in Nat /\ rearLsn \in 0 .. lsn - 1 /\ frontLsn \in 0 .. lsn - 1
    /\ groupLsn \in 0 .. lsn - 1
    /\ buffer \subseteq [lsn : 1 .. lsn - 1, first : Nat, last : Nat]
    /\ rearSbsn \in Nat /\ frontSbsn \in Nat \cup {-1}
    /\ bufferLatch \in Thread \cup {NoOne} /\ flushWaiter \in Thread \cup {NoOne}
    /\ fileLatch \in Thread \cup {NoOne}
    /\ pend \in [Pend -> Seq(1 .. lsn - 1)] /\ cursor \in [Pend -> Nat]
    /\ pendLatch \in [Pend -> Thread \cup {NoOne}] /\ awaited \subseteq Pend
    /\ disk \subseteq 1 .. lsn - 1 /\ crashes \in Nat
    /\ dirty \subseteq [lsn : 1 .. lsn - 1, sbsn : Nat \cup {InvalidSbsn}]
    /\ call \in [Thread -> CallType(lsn)]
BY DEF TypeOK, CallType

LEMMA CallGrows ==
  ASSUME NEW m \in Nat, NEW n \in Nat, m <= n, NEW c \in CallType(m)
  PROVE  c \in CallType(n)
BY DEF CallType

\* Only thread t moves.
Only(t) == call' = [call EXCEPT ![t] = call'[t]]

\* What a call keeps: for whom it works, and where it goes on.
KeepsLog(t) ==
  /\ call'[t].op = call[t].op /\ call'[t].my = call[t].my
  /\ call'[t].hint = call[t].hint /\ call'[t].goal = call[t].goal
KeepsWay(t) == call'[t].skip = call[t].skip /\ call'[t].then = call[t].then

LEMMA BecomeIs ==
  ASSUME call \in [Thread -> CallType(lsn)], NEW t \in Thread, NEW c, Become(t, c)
  PROVE  Only(t) /\ call'[t] = c
BY DEF Become, Only

LEMMA CallTypeStep ==
  ASSUME NEW m \in Nat, NEW n \in Nat, m <= n, call \in [Thread -> CallType(m)],
         NEW t \in Thread, Only(t), call'[t] \in CallType(n)
  PROVE  call' \in [Thread -> CallType(n)]
<1>1. call \in [Thread -> CallType(n)]
  BY CallGrows
<1> QED
  BY <1>1 DEF Only

LEMMA FreeType == \A n \in Nat : n > 0 => Free \in CallType(n)
BY DEF Free, CallType, Label, InvalidSbsn

LEMMA ThreadFacts ==
  /\ \A t \in Trans \cup PageWriters : t \in Thread
  /\ \A t \in Trans : t \in Thread
  /\ Flusher \in Thread /\ NoOne \notin Thread
  /\ Room \in Nat /\ PendCount \in Nat /\ PendRoom \in Nat
  /\ WaitBlocks \in Nat /\ WaitBlocks > 0 /\ MaxBatch \in Nat
BY ConstantsAssumption DEF Thread

\* Steps of one call that give out no LSN.
LEMMA SameLsnType ==
  ASSUME TypeOK, NEW t \in Thread, Only(t), call'[t] \in CallType(lsn),
         UNCHANGED <<lsn, buffer, rearLsn, rearSbsn, frontVars, groupLsn, pend, cursor, worldVars>>,
         bufferLatch' \in {bufferLatch, t, NoOne}, flushWaiter' \in {flushWaiter, t, NoOne},
         fileLatch' \in {fileLatch, t, NoOne}, UNCHANGED pendLatch, awaited' \subseteq Pend
  PROVE  TypeOK'
<1>1. call' \in [Thread -> CallType(lsn)]
  BY CallTypeStep, TypeIs
<1> QED
  BY <1>1, TypeIs DEF TypeOK, CallType, frontVars, worldVars

LEMMA CallIsTyped ==
  ASSUME TypeOK, NEW t \in Thread
  PROVE  /\ call \in [Thread -> CallType(lsn)] /\ call[t] \in CallType(lsn)
         /\ Free \in CallType(lsn)
BY TypeIs, FreeType

LEMMA SameCallType ==
  ASSUME TypeOK, NEW t \in Thread, Only(t), call'[t] \in CallType(lsn)
  PROVE  call' \in [Thread -> CallType(lsn)]
BY CallIsTyped DEF Only

LEMMA GotoIs ==
  ASSUME TypeOK, NEW t \in Thread, NEW s \in Label, Goto(t, s)
  PROVE  /\ Only(t) /\ call'[t] = [call[t] EXCEPT !.pc = s]
         /\ call'[t] \in CallType(lsn) /\ call'[t].pc = s /\ call'[t].till = call[t].till
         /\ KeepsLog(t) /\ KeepsWay(t)
<1> DEFINE a == [call[t] EXCEPT !.pc = s]
<1>1. a \in CallType(lsn) /\ a.pc = s /\ a.op = call[t].op /\ a.my = call[t].my
      /\ a.hint = call[t].hint /\ a.goal = call[t].goal /\ a.till = call[t].till
      /\ a.skip = call[t].skip /\ a.then = call[t].then
  BY CallIsTyped DEF CallType
<1>2. Only(t) /\ call'[t] = a
  BY CallIsTyped, BecomeIs DEF Goto
<1> HIDE DEF a
<1> QED
  BY <1>1, <1>2 DEF KeepsLog, KeepsWay, a

LEMMA GoOnIs ==
  ASSUME TypeOK, NEW t \in Thread, GoOn(t)
  PROVE  /\ Only(t) /\ call'[t] \in CallType(lsn)
         /\ call'[t].pc = call[t].then /\ call'[t].then = "idle" /\ ~call'[t].skip
         /\ call[t].then = "flush" => KeepsLog(t)
<1> DEFINE c == call[t]
           a == [Free EXCEPT !.pc = "flush", !.op = c.op, !.my = c.my, !.hint = c.hint,
                             !.goal = c.goal]
           b == [Free EXCEPT !.pc = c.then, !.op = IF c.then = "try" THEN c.op ELSE "log"]
<1>1. c \in CallType(lsn) /\ Free \in CallType(lsn)
  BY CallIsTyped
<1>2. a \in CallType(lsn) /\ b \in CallType(lsn)
  <2>1. c.op \in {"log", "commit", "page"} /\ c.my \in 0 .. lsn - 1 /\ c.goal \in 0 .. lsn - 1
        /\ c.hint \in Nat \cup {InvalidSbsn} /\ c.then \in Label
    BY <1>1 DEF CallType, Label
  <2> HIDE DEF c
  <2>2. a \in CallType(lsn)
    BY <1>1, <2>1 DEF CallType, Label
  <2>3. (IF c.then = "try" THEN c.op ELSE "log") \in {"log", "commit", "page"}
    BY <2>1
  <2>4. b \in CallType(lsn)
    BY <1>1, <2>1, <2>3 DEF CallType
  <2> QED BY <2>2, <2>4
<1>3. Only(t) /\ call'[t] = IF c.then = "flush" THEN a ELSE b
  BY CallIsTyped, BecomeIs DEF GoOn
<1>4. a.pc = "flush" /\ a.then = "idle" /\ a.skip = FALSE /\ b.pc = c.then /\ b.then = "idle"
      /\ b.skip = FALSE /\ a.op = c.op /\ a.my = c.my /\ a.hint = c.hint /\ a.goal = c.goal
  BY DEF Free
<1> HIDE DEF c, a, b
<1> QED
  BY <1>2, <1>3, <1>4 DEF c, KeepsLog

LEMMA LeaveForRoomIs ==
  ASSUME TypeOK, NEW t \in Thread, NEW s \in {"try", "flush"}, LeaveForRoom(t, s)
  PROVE  /\ Only(t) /\ call'[t] \in CallType(lsn)
         /\ call'[t].pc = "room" /\ call'[t].then = s
         /\ KeepsLog(t) /\ call'[t].skip = call[t].skip
<1> DEFINE a == [call[t] EXCEPT !.pc = "room", !.then = s]
<1>1. Only(t) /\ call'[t] = a
  BY CallIsTyped, BecomeIs DEF LeaveForRoom
<1>2. a \in CallType(lsn) /\ a.pc = "room" /\ a.then = s
  BY CallIsTyped DEF CallType, Label
<1>3. a.op = call[t].op /\ a.my = call[t].my /\ a.hint = call[t].hint /\ a.goal = call[t].goal
      /\ a.skip = call[t].skip
  BY CallIsTyped DEF CallType
<1> HIDE DEF a
<1> QED
  BY <1>1, <1>2, <1>3 DEF KeepsLog

\* The latest of two numbers, and of a set of numbers that has a bound.
LEMMA MaxOfTwo ==
  \A a, b \in Nat : Max({a, b}) \in {a, b} /\ Max({a, b}) >= a /\ Max({a, b}) >= b
<1> TAKE a, b \in Nat
<1>1. \E x \in {a, b} : \A y \in {a, b} : x >= y
  <2>1. CASE a <= b BY <2>1
  <2>2. CASE ~(a <= b) BY <2>2
  <2> QED BY <2>1, <2>2
<1> QED
  BY <1>1 DEF Max

LEMMA MaxOfBounded ==
  ASSUME NEW T \in SUBSET Int, T # {}, NEW b \in Int, \A x \in T : x <= b
  PROVE  Max(T) \in T /\ \A x \in T : x <= Max(T)
<1> DEFINE D == {b - x : x \in T}
<1>1. D \subseteq Nat /\ D # {}
  <2>1. ASSUME NEW d \in D PROVE d \in Nat
    <3>1. PICK x \in T : d = b - x
      OBVIOUS
    <3>2. x \in Int /\ x <= b
      OBVIOUS
    <3> HIDE DEF D
    <3> QED BY <3>1, <3>2
  <2>2. PICK x \in T : TRUE
    OBVIOUS
  <2>3. b - x \in D
    OBVIOUS
  <2> QED BY <2>1, <2>3
<1>2. PICK d \in D : \A e \in D : ~(<<e, d>> \in OpToRel(<, Nat))
  <2> HIDE DEF D
  <2> QED BY <1>1, NatLessThanWellFounded, WFMin
<1>3. \A e \in D : ~(e < d)
  BY <1>1, <1>2 DEF OpToRel
<1>4. PICK n \in T : d = b - n
  BY <1>2
<1>5. \A x \in T : x <= n
  <2>1. ASSUME NEW x \in T PROVE x <= n
    <3>1. b - x \in D
      OBVIOUS
    <3>2. ~(b - x < b - n)
      BY <1>3, <1>4, <3>1
    <3>3. x \in Int /\ n \in Int
      OBVIOUS
    <3> QED BY <3>2, <3>3
  <2> QED BY <2>1
<1>6. \E x \in T : \A y \in T : x >= y
  <2>1. \A y \in T : n >= y
    BY <1>5
  <2> QED BY <2>1
<1>7. Max(T) \in T /\ \A y \in T : Max(T) >= y
  BY <1>6 DEF Max
<1> QED
  BY <1>7

LEMMA WrittenIs ==
  ASSUME TypeOK, NEW t \in Thread, NEW b \in Nat \cup {InvalidSbsn}, Written(t, b)
  PROVE  /\ Only(t) /\ call'[t] \in CallType(lsn) /\ UNCHANGED <<disk, crashes>>
         /\ IF call[t].op = "commit"
            THEN /\ call'[t].pc = "flush" /\ call'[t].hint = b /\ call'[t].my = call[t].my
                 /\ call'[t].goal = call[t].my /\ call'[t].op = "commit"
                 /\ KeepsWay(t) /\ UNCHANGED dirty
            ELSE /\ call'[t] = Free
                 /\ dirty' \in {dirty, dirty \cup {[lsn |-> call[t].my, sbsn |-> b]}}
<1> DEFINE a == [call[t] EXCEPT !.pc = "flush", !.hint = b, !.goal = call[t].my]
<1>1. CASE call[t].op = "commit"
  <2>1. Only(t) /\ call'[t] = a /\ UNCHANGED worldVars
    BY <1>1, CallIsTyped, BecomeIs DEF Written
  <2>2. call[t].my \in 0 .. lsn - 1 /\ call[t] \in CallType(lsn)
    BY CallIsTyped DEF CallType
  <2>3. a \in CallType(lsn)
    BY <2>2 DEF CallType, Label
  <2>4. a.pc = "flush" /\ a.hint = b /\ a.goal = call[t].my /\ a.my = call[t].my /\ a.op = call[t].op
        /\ a.skip = call[t].skip /\ a.then = call[t].then
    BY <2>2 DEF CallType
  <2> QED
    BY <1>1, <2>1, <2>3, <2>4 DEF worldVars, KeepsWay
<1>2. CASE call[t].op # "commit"
  <2>1. Only(t) /\ call'[t] = Free
    BY <1>2, CallIsTyped, BecomeIs DEF Written
  <2> QED
    BY <1>2, <2>1, CallIsTyped DEF Written
<1> QED
  BY <1>1, <1>2

LEMMA StartDiskIs ==
  ASSUME TypeOK, NEW t \in Thread, StartDisk(t)
  PROVE  \/ /\ Below(call[t].till) <= frontSbsn /\ GoOn(t) /\ UNCHANGED fileLatch
         \/ /\ Only(t) /\ call'[t] \in CallType(lsn) /\ fileLatch' = t
            /\ Below(call[t].till) > frontSbsn
            /\ call'[t].pc = "disk" /\ call'[t].till = Below(call[t].till)
            /\ KeepsLog(t) /\ KeepsWay(t)
<1> DEFINE b == Below(call[t].till)
           a == [call[t] EXCEPT !.pc = "disk", !.till = b]
<1> SUFFICES ASSUME b > frontSbsn, fileLatch' = t, Become(t, a)
             PROVE  /\ Only(t) /\ call'[t] \in CallType(lsn)
                    /\ call'[t].pc = "disk" /\ call'[t].till = b
                    /\ KeepsLog(t) /\ KeepsWay(t)
  BY DEF StartDisk
<1>1. Only(t) /\ call'[t] = a
  BY CallIsTyped, BecomeIs
<1>2. call[t] \in CallType(lsn) /\ call[t].till \in Nat \cup {InvalidSbsn, Unbounded}
  BY CallIsTyped DEF CallType
<1>3. b \in Nat
  BY <1>2, TypeIs DEF Below, Reaches, InvalidSbsn, Unbounded
<1> HIDE DEF b
<1>4. a \in CallType(lsn)
  BY <1>2, <1>3 DEF CallType, Label
<1>5. a.pc = "disk" /\ a.till = b /\ a.skip = call[t].skip /\ a.then = call[t].then
      /\ a.op = call[t].op /\ a.my = call[t].my /\ a.hint = call[t].hint /\ a.goal = call[t].goal
  BY <1>2 DEF CallType
<1> QED
  BY <1>1, <1>4, <1>5 DEF KeepsLog, KeepsWay

-----------------------------------------------------------------------------
(* Each step keeps the types; what it makes of the call of its thread. *)

LEMMA TryBufferLatchIs ==
  ASSUME TypeOK, NEW t \in Trans, NEW o \in {"log", "commit"}, TryBufferLatch(t, o)
  PROVE  /\ TypeOK' /\ Only(t) /\ call[t].pc \in {"idle", "try"}
         /\ call'[t].op = o /\ ~call'[t].skip /\ call'[t].then = "idle"
         /\ \/ bufferLatch = NoOne /\ bufferLatch' = t /\ call'[t].pc = "stamp"
            \/ UNCHANGED bufferLatch /\ call'[t].pc \in {"pend", "latch"}
<1> DEFINE a(s) == [Free EXCEPT !.pc = s, !.op = o]
<1>1. t \in Thread
  BY ThreadFacts
<1>2. \A s \in Label : a(s) \in CallType(lsn)
  BY <1>1, CallIsTyped DEF CallType
<1>3. \A s \in Label : a(s).pc = s /\ a(s).op = o /\ a(s).skip = FALSE /\ a(s).then = "idle"
  BY DEF Free
<1>4. PICK s \in {"stamp", "pend", "latch"} :
        /\ Become(t, a(s))
        /\ \/ bufferLatch = NoOne /\ bufferLatch' = t /\ s = "stamp"
           \/ UNCHANGED bufferLatch /\ s \in {"pend", "latch"}
  BY DEF TryBufferLatch
<1>5. s \in Label
  BY DEF Label
<1> HIDE DEF a
<1>6. Only(t) /\ call'[t] = a(s)
  BY <1>1, <1>4, CallIsTyped, BecomeIs
<1>7. TypeOK'
  BY <1>1, <1>2, <1>4, <1>5, <1>6, SameLsnType, TypeIs DEF TryBufferLatch, pendVars, logVars
<1> QED
  BY <1>3, <1>4, <1>5, <1>6, <1>7 DEF TryBufferLatch, At

LEMMA AcquireBufferLatchIs ==
  ASSUME TypeOK, NEW t \in Trans, AcquireBufferLatch(t)
  PROVE  /\ TypeOK' /\ Only(t) /\ call[t].pc = "latch" /\ call'[t].pc = "stamp"
         /\ KeepsLog(t) /\ KeepsWay(t)
<1>1. t \in Thread /\ "stamp" \in Label
  BY ThreadFacts DEF Label
<1>2. Goto(t, "stamp")
  BY DEF AcquireBufferLatch
<1>3. TypeOK'
  BY <1>1, <1>2, GotoIs, SameLsnType, TypeIs DEF AcquireBufferLatch, pendVars, logVars
<1> QED
  BY <1>1, <1>2, <1>3, GotoIs DEF AcquireBufferLatch, At

\* The next LSN is given to t.
LEMMA StampIs ==
  ASSUME TypeOK, NEW t \in Thread, NEW s \in Label,
         Become(t, [call[t] EXCEPT !.pc = s, !.my = lsn])
  PROVE  /\ Only(t) /\ call'[t] \in CallType(lsn + 1) /\ call'[t].pc = s /\ call'[t].my = lsn
         /\ call'[t].op = call[t].op /\ KeepsWay(t) /\ call' \in [Thread -> CallType(lsn + 1)]
<1> DEFINE a == [call[t] EXCEPT !.pc = s, !.my = lsn]
<1>1. lsn \in Nat /\ call[t] \in CallType(lsn)
  BY CallIsTyped, TypeIs
<1>2. call[t] \in CallType(lsn + 1)
  BY <1>1, CallGrows
<1>3. a \in CallType(lsn + 1)
  <2> DEFINE b == [call[t] EXCEPT !.pc = s]
  <2>1. lsn \in 0 .. lsn + 1 - 1
    BY <1>1
  <2>2. b \in CallType(lsn + 1)
    BY <1>2 DEF CallType
  <2>3. a = [b EXCEPT !.my = lsn]
    OBVIOUS
  <2> HIDE DEF a, b
  <2> QED
    BY <2>1, <2>2, <2>3 DEF CallType
<1>4. a.pc = s /\ a.my = lsn /\ a.op = call[t].op /\ a.skip = call[t].skip
      /\ a.then = call[t].then
  BY <1>1 DEF CallType
<1>5. Only(t) /\ call'[t] = a
  BY CallIsTyped, BecomeIs
<1>6. call' \in [Thread -> CallType(lsn + 1)]
  <2>1. lsn + 1 \in Nat /\ lsn <= lsn + 1
    BY <1>1
  <2> HIDE DEF a
  <2> QED
    BY <1>1, <1>3, <1>5, <2>1, CallTypeStep, TypeIs
<1> QED
  BY <1>3, <1>4, <1>5, <1>6 DEF KeepsWay

\* What holds LSNs can hold them when one more has been given out.
LEMMA LsnGrows ==
  ASSUME TypeOK, lsn' = lsn + 1,
         UNCHANGED <<buffer, rearLsn, rearSbsn, frontVars, bufferLatch, flushWaiter, groupLsn,
                     fileLatch, pend, cursor, worldVars>>,
         pendLatch' \in [Pend -> Thread \cup {NoOne}], awaited' \subseteq Pend,
         call' \in [Thread -> CallType(lsn + 1)]
  PROVE  TypeOK'
<1>1. pend \in [Pend -> Seq(1 .. lsn)]
  <2>1. pend \in [Pend -> Seq(1 .. lsn - 1)] /\ lsn \in Nat
    BY TypeIs
  <2>2. \A q \in Seq(1 .. lsn - 1) : q \in Seq(1 .. lsn)
    BY <2>1
  <2> QED
    BY <2>1, <2>2
<1>2. lsn' - 1 = lsn /\ 0 .. lsn - 1 \subseteq 0 .. lsn /\ 1 .. lsn - 1 \subseteq 1 .. lsn
  BY TypeIs
<1>3. buffer \subseteq [lsn : 1 .. lsn, first : Nat, last : Nat]
  BY <1>2, TypeIs
<1>4. dirty \subseteq [lsn : 1 .. lsn, sbsn : Nat \cup {InvalidSbsn}]
  BY <1>2, TypeIs
<1>5. disk \subseteq 1 .. lsn /\ {rearLsn, frontLsn, groupLsn} \subseteq 0 .. lsn /\ lsn' \in Nat
  BY <1>2, TypeIs
<1> QED
  BY <1>1, <1>2, <1>3, <1>4, <1>5, TypeIs DEF TypeOK, CallType, frontVars, worldVars

LEMMA BeginPendingLogIs ==
  ASSUME TypeOK, NEW t \in Trans, BeginPendingLog(t)
  PROVE  /\ TypeOK' /\ Only(t) /\ call[t].pc = "pend" /\ call'[t].op = call[t].op /\ KeepsWay(t)
         /\ \/ /\ \E p \in Pend : Usable(p) /\ pendLatch' = [pendLatch EXCEPT ![p] = t]
               /\ lsn' = lsn + 1 /\ call'[t].pc = "publish" /\ call'[t].my = lsn
            \/ UNCHANGED <<lsn, pendLatch>> /\ call'[t].pc = "latch"
<1>1. t \in Thread /\ "publish" \in Label /\ "latch" \in Label /\ call[t].pc = "pend"
  BY ThreadFacts DEF Label, BeginPendingLog, At
<1>2. ASSUME NEW p \in Pend, Usable(p), pendLatch' = [pendLatch EXCEPT ![p] = t], lsn' = lsn + 1,
             Become(t, [call[t] EXCEPT !.pc = "publish", !.my = lsn])
      PROVE  /\ TypeOK' /\ Only(t) /\ call'[t].pc = "publish" /\ call'[t].my = lsn
             /\ call'[t].op = call[t].op /\ KeepsWay(t)
  <2>1. pendLatch' \in [Pend -> Thread \cup {NoOne}]
    BY <1>1, <1>2, TypeIs
  <2>2. /\ Only(t) /\ call' \in [Thread -> CallType(lsn + 1)] /\ call'[t].pc = "publish"
        /\ call'[t].my = lsn /\ call'[t].op = call[t].op /\ KeepsWay(t)
    BY <1>1, <1>2, StampIs
  <2>3. TypeOK'
    BY <1>2, <2>1, <2>2, LsnGrows, TypeIs DEF BeginPendingLog
  <2> QED
    BY <2>2, <2>3
<1>3. ASSUME Goto(t, "latch"), UNCHANGED <<lsn, pendLatch>>
      PROVE  /\ TypeOK' /\ Only(t) /\ call'[t].pc = "latch" /\ KeepsLog(t) /\ KeepsWay(t)
  <2>1. TypeOK'
    BY <1>1, <1>3, GotoIs, SameLsnType, TypeIs DEF BeginPendingLog
  <2> QED
    BY <1>1, <1>3, <2>1, GotoIs
<1> QED
  BY <1>1, <1>2, <1>3 DEF BeginPendingLog, KeepsLog

LEMMA AppendIs ==
  ASSUME NEW S, NEW s \in Seq(S), NEW e \in S
  PROVE  /\ Append(s, e) \in Seq(S) /\ Len(Append(s, e)) = Len(s) + 1
         /\ \A i \in 1 .. Len(s) : Append(s, e)[i] = s[i]
         /\ Append(s, e)[Len(s) + 1] = e
         /\ \A i \in 1 .. Len(Append(s, e)) : i \in 1 .. Len(s) \/ i = Len(s) + 1
OBVIOUS

LEMMA TailIs ==
  ASSUME NEW S, NEW s \in Seq(S), Len(s) > 0
  PROVE  /\ Tail(s) \in Seq(S) /\ Len(Tail(s)) = Len(s) - 1 /\ Head(s) = s[1] /\ s[1] \in S
         /\ \A i \in 1 .. Len(Tail(s)) : i + 1 \in 1 .. Len(s) /\ Tail(s)[i] = s[i + 1]
OBVIOUS

LEMMA WrittenTypes ==
  ASSUME TypeOK, NEW t \in Thread, call[t].my > 0, NEW b \in Nat \cup {InvalidSbsn}, Written(t, b)
  PROVE  /\ dirty' \subseteq [lsn : 1 .. lsn - 1, sbsn : Nat \cup {InvalidSbsn}]
         /\ call' \in [Thread -> CallType(lsn)]
         /\ disk' \subseteq 1 .. lsn - 1 /\ crashes' \in Nat
<1>1. call[t].my \in 1 .. lsn - 1
  <2>1. call[t].my \in 0 .. lsn - 1
    BY CallIsTyped DEF CallType
  <2> QED
    BY <2>1
<1>2. [lsn |-> call[t].my, sbsn |-> b] \in [lsn : 1 .. lsn - 1, sbsn : Nat \cup {InvalidSbsn}]
  BY <1>1
<1>3. call' \in [Thread -> CallType(lsn)]
  BY WrittenIs, CallTypeStep, TypeIs
<1> QED
  BY <1>2, <1>3, WrittenIs, TypeIs

LEMMA PublishPendingLogIs ==
  ASSUME TypeOK, NEW t \in Trans, call[t].my > 0, PublishPendingLog(t)
  PROVE  /\ TypeOK' /\ Only(t) /\ call[t].pc = "publish" /\ Written(t, InvalidSbsn)
         /\ \E p \in Pend : /\ pendLatch[p] = t
                            /\ pend' = [pend EXCEPT ![p] = Append(@, call[t].my)]
                            /\ pendLatch' = [pendLatch EXCEPT ![p] = NoOne]
         /\ call'[t].pc \in {"flush", "idle"}
<1>1. t \in Thread /\ InvalidSbsn \in Nat \cup {InvalidSbsn} /\ Free.pc = "idle"
  BY ThreadFacts DEF Free
<1>2. PICK p \in Pend : /\ pendLatch[p] = t
                       /\ pend' = [pend EXCEPT ![p] = Append(@, call[t].my)]
                       /\ pendLatch' = [pendLatch EXCEPT ![p] = NoOne]
  BY DEF PublishPendingLog
<1>3. Written(t, InvalidSbsn) /\ call[t].pc = "publish"
  BY DEF PublishPendingLog, At
<1>4. call[t].my \in 1 .. lsn - 1
  <2>1. call[t].my \in 0 .. lsn - 1
    BY <1>1, CallIsTyped DEF CallType
  <2> QED
    BY <2>1
<1>5. pend' \in [Pend -> Seq(1 .. lsn - 1)] /\ pendLatch' \in [Pend -> Thread \cup {NoOne}]
  BY <1>2, <1>4, AppendIs, TypeIs
<1>6. TypeOK'
  BY <1>1, <1>3, <1>5, WrittenTypes, TypeIs
  DEF PublishPendingLog, TypeOK, CallType, logVars, frontVars
<1> QED
  BY <1>1, <1>2, <1>3, <1>6, WrittenIs

LEMMA TakeLsnIs ==
  ASSUME TypeOK, NEW t \in Trans, TakeLsn(t)
  PROVE  /\ TypeOK' /\ Only(t) /\ call[t].pc = "stamp" /\ lsn' = lsn + 1
         /\ call'[t].my = lsn /\ call'[t].op = call[t].op /\ KeepsWay(t)
         /\ \/ call'[t].pc = "writeWait" /\ awaited' = Pend
            \/ /\ call'[t].pc = "put" /\ UNCHANGED awaited
               /\ PendCount = 0 \/ lsn = rearLsn + 1
<1>1. t \in Thread /\ "writeWait" \in Label /\ "put" \in Label /\ call[t].pc = "stamp"
  BY ThreadFacts DEF Label, TakeLsn, At
<1>2. PICK s \in {"writeWait", "put"} :
        /\ Become(t, [call[t] EXCEPT !.pc = s, !.my = lsn])
        /\ \/ s = "writeWait" /\ awaited' = Pend
           \/ s = "put" /\ UNCHANGED awaited /\ (PendCount = 0 \/ lsn = rearLsn + 1)
  BY ThreadFacts DEF TakeLsn
<1>3. /\ Only(t) /\ call'[t].pc = s /\ call'[t].my = lsn /\ call'[t].op = call[t].op /\ KeepsWay(t)
      /\ call' \in [Thread -> CallType(lsn + 1)]
  BY <1>1, <1>2, StampIs
<1>4. TypeOK'
  <2>1. awaited' \subseteq Pend /\ pendLatch' \in [Pend -> Thread \cup {NoOne}]
    BY <1>2, TypeIs DEF TakeLsn
  <2> QED
    BY <1>3, <2>1, LsnGrows DEF TakeLsn
<1> QED
  BY <1>1, <1>2, <1>3, <1>4 DEF TakeLsn

LEMMA PlacesAre ==
  ASSUME TypeOK, NEW l \in 1 .. lsn - 1, NEW r \in Places(l)
  PROVE  /\ r \in [lsn : 1 .. lsn - 1, first : Nat, last : Nat]
         /\ r.lsn = l /\ r.first <= r.last /\ r.first >= rearSbsn
         /\ r.last \in {rearSbsn, rearSbsn + 1}
         /\ r.first = rearSbsn \/ (RearUsed /\ r.first = rearSbsn + 1)
<1>1. rearSbsn \in Nat
  BY TypeIs
<1> QED
  BY <1>1 DEF Places

LEMMA PutLogIs ==
  ASSUME TypeOK, NEW t \in Trans, call[t].my > 0, PutLog(t)
  PROVE  /\ TypeOK' /\ Only(t) /\ call[t].pc = "put" /\ bufferLatch' = NoOne
         /\ \E r \in Places(call[t].my) :
              \/ /\ ~Full(r) /\ buffer' = buffer \cup {r} /\ rearLsn' = r.lsn
                 /\ rearSbsn' = IF call[t].op = "commit" THEN r.last + 1 ELSE r.last
                 /\ Written(t, r.last) /\ call'[t].pc \in {"flush", "idle"}
              \/ /\ Full(r) /\ UNCHANGED <<buffer, rearLsn, rearSbsn, worldVars>>
                 /\ call'[t].pc = "room" /\ call'[t].then = "try"
<1>1. t \in Thread /\ call[t].pc = "put" /\ Free.pc = "idle"
  BY ThreadFacts DEF PutLog, At, Free
<1>2. call[t].my \in 1 .. lsn - 1
  <2>1. call[t].my \in 0 .. lsn - 1
    BY <1>1, CallIsTyped DEF CallType
  <2> QED
    BY <2>1
<1>3. bufferLatch' = NoOne /\ flushWaiter' \in Thread \cup {NoOne}
  BY TypeIs DEF PutLog, ReleaseBuffer
<1>4. PICK r \in Places(call[t].my) :
        \/ /\ ~Full(r) /\ WriteLog(r)
           /\ rearSbsn' = IF call[t].op = "commit" THEN r.last + 1 ELSE r.last
           /\ Written(t, r.last)
        \/ /\ Full(r) /\ LeaveForRoom(t, "try")
           /\ UNCHANGED <<buffer, rearLsn, rearSbsn, worldVars>>
  BY DEF PutLog
<1>5. /\ r \in [lsn : 1 .. lsn - 1, first : Nat, last : Nat] /\ r.lsn = call[t].my
      /\ r.last \in Nat
  BY <1>2, PlacesAre
<1>6. CASE ~Full(r) /\ WriteLog(r) /\ Written(t, r.last)
           /\ rearSbsn' = IF call[t].op = "commit" THEN r.last + 1 ELSE r.last
  <2>1. /\ buffer' \subseteq [lsn : 1 .. lsn - 1, first : Nat, last : Nat] /\ rearSbsn' \in Nat
        /\ rearLsn' \in 0 .. lsn - 1
    BY <1>2, <1>5, <1>6, TypeIs DEF WriteLog
  <2>2. TypeOK'
    BY <1>1, <1>3, <1>5, <1>6, <2>1, WrittenTypes, TypeIs
    DEF PutLog, TypeOK, CallType, frontVars, pendVars
  <2> QED
    BY <1>1, <1>3, <1>5, <1>6, <2>2, WrittenIs DEF WriteLog
<1>7. CASE Full(r) /\ LeaveForRoom(t, "try") /\ UNCHANGED <<buffer, rearLsn, rearSbsn, worldVars>>
  <2>1. /\ Only(t) /\ call'[t] \in CallType(lsn) /\ call'[t].pc = "room"
        /\ call'[t].then = "try"
    BY <1>1, <1>7, LeaveForRoomIs
  <2>2. call' \in [Thread -> CallType(lsn)]
    BY <1>1, <2>1, SameCallType
  <2>3. TypeOK'
    BY <1>3, <1>7, <2>2, TypeIs DEF PutLog, TypeOK, CallType, frontVars, pendVars, worldVars
  <2> QED
    BY <1>1, <1>3, <1>7, <2>1, <2>3
<1> QED
  BY <1>4, <1>6, <1>7

LEMMA WaitPendingLogIs ==
  ASSUME TypeOK, NEW t \in Thread, WaitPendingLog(t)
  PROVE  /\ TypeOK' /\ call[t].pc \in {"writeWait", "flushWait"}
         /\ \/ /\ \E p \in awaited : pendLatch[p] = NoOne /\ awaited' = awaited \ {p}
               /\ UNCHANGED <<cursor, call>>
            \/ /\ awaited = {} /\ UNCHANGED awaited
               /\ cursor' = [p \in Pend |-> Len(pend[p])]
               /\ Only(t) /\ KeepsLog(t) /\ KeepsWay(t) /\ call'[t].till = call[t].till
               /\ call'[t].pc = IF Writing(t) THEN "writeApply" ELSE "flushApply"
<1> DEFINE s == IF Writing(t) THEN "writeApply" ELSE "flushApply"
<1>1. s \in Label
  BY DEF Label
<1>2. ASSUME awaited = {}, UNCHANGED awaited, cursor' = [p \in Pend |-> Len(pend[p])], Goto(t, s)
      PROVE  /\ TypeOK'
             /\ Only(t) /\ KeepsLog(t) /\ KeepsWay(t) /\ call'[t].till = call[t].till
             /\ call'[t].pc = s
  <2> HIDE DEF s
  <2>1. /\ Only(t) /\ KeepsLog(t) /\ KeepsWay(t) /\ call'[t].till = call[t].till
        /\ call'[t].pc = s /\ call'[t] \in CallType(lsn)
    BY <1>1, <1>2, GotoIs
  <2>2. cursor' \in [Pend -> Nat]
    <3>1. \A p \in Pend : pend[p] \in Seq(1 .. lsn - 1)
      BY TypeIs
    <3>2. \A p \in Pend : Len(pend[p]) \in Nat
      BY <3>1
    <3> QED
      BY <1>2, <3>2
  <2>3. call' \in [Thread -> CallType(lsn)]
    BY <2>1, SameCallType
  <2>4. TypeOK'
    BY <1>2, <2>2, <2>3, TypeIs
    DEF WaitPendingLog, TypeOK, CallType, frontVars, logVars, worldVars
  <2> QED
    BY <2>1, <2>4
<1>3. ASSUME NEW p \in awaited, awaited' = awaited \ {p}, UNCHANGED <<cursor, call>>
      PROVE  TypeOK'
  BY <1>3, TypeIs DEF WaitPendingLog, TypeOK, CallType, frontVars, logVars, worldVars
<1> QED
  BY <1>2, <1>3 DEF WaitPendingLog

\* What the cursor holds is in the pending buffers.
CursorOK == \A p \in Pend : cursor[p] <= Len(pend[p])

LEMMA HeadIs ==
  ASSUME TypeOK, CursorOK, NEW p \in Pend, cursor[p] > 0
  PROVE  /\ Len(pend[p]) > 0 /\ Head(pend[p]) = pend[p][1] /\ pend[p][1] \in 1 .. lsn - 1
         /\ Len(pend[p]) \in Nat /\ cursor[p] \in Nat /\ 1 \in 1 .. Len(pend[p])
<1>1. pend[p] \in Seq(1 .. lsn - 1) /\ cursor[p] \in Nat
  BY TypeIs
<1>2. Len(pend[p]) \in Nat
  BY <1>1
<1>3. cursor[p] <= Len(pend[p])
  BY DEF CursorOK
<1>4. Len(pend[p]) > 0
  BY <1>1, <1>2, <1>3
<1>5. Head(pend[p]) = pend[p][1] /\ pend[p][1] \in 1 .. lsn - 1
  <2> DEFINE S == 1 .. lsn - 1
  <2>1. pend[p] \in Seq(S)
    BY <1>1
  <2> HIDE DEF S
  <2>2. Head(pend[p]) = pend[p][1] /\ pend[p][1] \in S
    BY <1>4, <2>1, TailIs
  <2> QED
    BY <2>2 DEF S
<1> QED
  BY <1>1, <1>2, <1>4, <1>5

LEMMA ApplyPendingLogIs ==
  ASSUME TypeOK, CursorOK, NEW t \in Thread, ApplyPendingLog(t)
  PROVE  /\ TypeOK' /\ Only(t) /\ KeepsLog(t) /\ call'[t].skip = call[t].skip
         /\ call[t].pc \in {"writeApply", "flushApply"}
         /\ \E p \in Pend :
              /\ Oldest(t, p) /\ cursor[p] > 0
              /\ \E r \in Places(pend[p][1]) :
                 \/ /\ ~Full(r) /\ buffer' = buffer \cup {r} /\ rearLsn' = r.lsn /\ rearSbsn' = r.last
                    /\ pend' = [pend EXCEPT ![p] = Tail(@)]
                    /\ cursor' = [cursor EXCEPT ![p] = @ - 1]
                    /\ call'[t].pc = call[t].pc /\ call'[t].then = call[t].then
                    /\ call'[t].till = IF Writing(t) THEN call[t].till ELSE r.last
                    /\ UNCHANGED bufferLatch
                 \/ /\ Full(r) /\ UNCHANGED <<buffer, rearLsn, rearSbsn, pend>>
                    /\ bufferLatch' = NoOne /\ cursor' = [q \in Pend |-> 0]
                    /\ IF t = Flusher THEN call'[t].pc = "reclose"
                       ELSE /\ call'[t].pc = "room"
                            /\ call'[t].then = IF Writing(t) THEN "try" ELSE "flush"
<1>1. call[t].pc \in {"writeApply", "flushApply"}
  BY DEF ApplyPendingLog
<1>2. PICK p \in Pend : Oldest(t, p) /\ \E r \in Places(Head(pend[p])) :
       \/ /\ ~Full(r)
          /\ WriteLog(r) /\ rearSbsn' = r.last
          /\ pend' = [pend EXCEPT ![p] = Tail(@)]
          /\ cursor' = [cursor EXCEPT ![p] = @ - 1]
          /\ Become(t, IF Writing(t) THEN call[t] ELSE [call[t] EXCEPT !.till = r.last])
          /\ UNCHANGED <<bufferLatch, flushWaiter>>
       \/ /\ Full(r)
          /\ ReleaseBuffer
          /\ cursor' = [q \in Pend |-> 0]
          /\ IF t = Flusher THEN Goto(t, "reclose")
             ELSE LeaveForRoom(t, IF Writing(t) THEN "try" ELSE "flush")
          /\ UNCHANGED <<buffer, rearLsn, rearSbsn, pend>>
  BY DEF ApplyPendingLog
<1>3. cursor[p] > 0
  BY <1>2 DEF Oldest, Readable
<1>4. Head(pend[p]) = pend[p][1] /\ pend[p][1] \in 1 .. lsn - 1 /\ Len(pend[p]) > 0 /\ cursor[p] \in Nat
  BY <1>3, HeadIs
<1>5. ASSUME NEW r \in Places(pend[p][1]), ~Full(r), WriteLog(r), rearSbsn' = r.last,
             pend' = [pend EXCEPT ![p] = Tail(@)], cursor' = [cursor EXCEPT ![p] = @ - 1],
             Become(t, IF Writing(t) THEN call[t] ELSE [call[t] EXCEPT !.till = r.last]),
             UNCHANGED <<bufferLatch, flushWaiter>>
      PROVE  /\ TypeOK' /\ Only(t) /\ KeepsLog(t) /\ KeepsWay(t) /\ call'[t].pc = call[t].pc
             /\ call'[t].till = IF Writing(t) THEN call[t].till ELSE r.last
             /\ buffer' = buffer \cup {r} /\ rearLsn' = r.lsn
  <2> DEFINE b == IF Writing(t) THEN call[t].till ELSE r.last
             a == [call[t] EXCEPT !.till = b]
  <2>1. r \in [lsn : 1 .. lsn - 1, first : Nat, last : Nat] /\ r.lsn = pend[p][1] /\ r.last \in Nat
    BY <1>4, PlacesAre
  <2>2. call[t] \in CallType(lsn) /\ call[t] = [call[t] EXCEPT !.till = call[t].till]
        /\ call[t].till \in Nat \cup {InvalidSbsn, Unbounded}
    BY CallIsTyped DEF CallType
  <2>3. Become(t, a) /\ b \in Nat \cup {InvalidSbsn, Unbounded}
    BY <1>5, <2>1, <2>2
  <2> HIDE DEF b
  <2>4. /\ a \in CallType(lsn) /\ a.pc = call[t].pc /\ a.op = call[t].op /\ a.my = call[t].my
        /\ a.hint = call[t].hint /\ a.goal = call[t].goal /\ a.skip = call[t].skip
        /\ a.then = call[t].then /\ a.till = b
    BY <2>2, <2>3 DEF CallType
  <2>5. Only(t) /\ call'[t] = a
    BY <2>3, CallIsTyped, BecomeIs
  <2> HIDE DEF a
  <2>6. call' \in [Thread -> CallType(lsn)]
    BY <2>4, <2>5, SameCallType
  <2>7. pend' \in [Pend -> Seq(1 .. lsn - 1)] /\ cursor' \in [Pend -> Nat]
    <3>1. pend[p] \in Seq(1 .. lsn - 1)
      BY TypeIs
    <3>2. Tail(pend[p]) \in Seq(1 .. lsn - 1)
      <4> DEFINE S == 1 .. lsn - 1
      <4>1. pend[p] \in Seq(S)
        BY <3>1
      <4> HIDE DEF S
      <4>2. Tail(pend[p]) \in Seq(S)
        BY <1>4, <4>1, TailIs
      <4> QED
        BY <4>2 DEF S
    <3>3. cursor[p] - 1 \in Nat
      BY <1>3, <1>4
    <3> QED
      BY <1>5, <3>2, <3>3, TypeIs
  <2>8. /\ buffer' \subseteq [lsn : 1 .. lsn - 1, first : Nat, last : Nat]
        /\ rearLsn' \in 0 .. lsn - 1 /\ rearSbsn' \in Nat
    <3>1. buffer' = buffer \cup {r} /\ rearLsn' = pend[p][1] /\ rearSbsn' = r.last
      BY <1>5, <2>1 DEF WriteLog
    <3>2. pend[p][1] \in 0 .. lsn - 1
      BY <1>4
    <3>3. buffer \subseteq [lsn : 1 .. lsn - 1, first : Nat, last : Nat]
      BY TypeIs
    <3> QED
      BY <2>1, <3>1, <3>2, <3>3
  <2>9. TypeOK'
    BY <1>5, <2>6, <2>7, <2>8, TypeIs DEF ApplyPendingLog, TypeOK, CallType, frontVars, worldVars
  <2> QED
    BY <1>5, <2>4, <2>5, <2>9 DEF KeepsLog, KeepsWay, WriteLog, b
<1>6. ASSUME NEW r \in Places(pend[p][1]), Full(r), ReleaseBuffer, cursor' = [q \in Pend |-> 0],
             IF t = Flusher THEN Goto(t, "reclose")
             ELSE LeaveForRoom(t, IF Writing(t) THEN "try" ELSE "flush"),
             UNCHANGED <<buffer, rearLsn, rearSbsn, pend>>
      PROVE  /\ TypeOK' /\ Only(t) /\ KeepsLog(t) /\ call'[t].skip = call[t].skip
             /\ bufferLatch' = NoOne
             /\ IF t = Flusher THEN call'[t].pc = "reclose"
                ELSE /\ call'[t].pc = "room"
                     /\ call'[t].then = IF Writing(t) THEN "try" ELSE "flush"
  <2>1. bufferLatch' = NoOne /\ flushWaiter' \in Thread \cup {NoOne} /\ cursor' \in [Pend -> Nat]
    BY <1>6, TypeIs DEF ReleaseBuffer
  <2>2. /\ Only(t) /\ KeepsLog(t) /\ call'[t].skip = call[t].skip /\ call'[t] \in CallType(lsn)
        /\ IF t = Flusher THEN call'[t].pc = "reclose"
           ELSE /\ call'[t].pc = "room"
                /\ call'[t].then = IF Writing(t) THEN "try" ELSE "flush"
    <3>1. CASE t = Flusher
      <4>1. "reclose" \in Label
        BY DEF Label
      <4> QED
        BY <1>6, <3>1, <4>1, GotoIs DEF KeepsWay
    <3>2. CASE t # Flusher
      BY <1>6, <3>2, LeaveForRoomIs
    <3> QED
      BY <3>1, <3>2
  <2>3. call' \in [Thread -> CallType(lsn)]
    BY <2>2, SameCallType
  <2>4. TypeOK'
    BY <1>6, <2>1, <2>3, TypeIs
    DEF ApplyPendingLog, TypeOK, CallType, frontVars, worldVars
  <2> QED
    BY <2>1, <2>2, <2>4
<1> QED
  BY <1>1, <1>2, <1>3, <1>4, <1>5, <1>6 DEF KeepsWay

LEMMA PendingLogsAppliedIs ==
  ASSUME TypeOK, NEW t \in Thread, PendingLogsApplied(t)
  PROVE  /\ TypeOK' /\ Only(t) /\ KeepsLog(t) /\ KeepsWay(t) /\ call'[t].till = call[t].till
         /\ call[t].pc \in {"writeApply", "flushApply"} /\ Readable(t) = {}
         /\ cursor' = [q \in Pend |-> 0]
         /\ call'[t].pc = IF Writing(t) THEN "put" ELSE "close"
<1> DEFINE s == IF Writing(t) THEN "put" ELSE "close"
<1>1. s \in Label /\ Goto(t, s) /\ cursor' = [q \in Pend |-> 0]
  BY DEF Label, PendingLogsApplied
<1> HIDE DEF s
<1>2. /\ Only(t) /\ KeepsLog(t) /\ KeepsWay(t) /\ call'[t].till = call[t].till
      /\ call'[t].pc = s /\ call'[t] \in CallType(lsn)
  BY <1>1, GotoIs
<1>3. call' \in [Thread -> CallType(lsn)] /\ cursor' \in [Pend -> Nat]
  BY <1>1, <1>2, SameCallType
<1>4. TypeOK'
  BY <1>3, TypeIs DEF PendingLogsApplied, TypeOK, CallType, frontVars, logVars, worldVars
<1> QED
  BY <1>1, <1>2, <1>4 DEF PendingLogsApplied, s

\* The steps of smrFlushLog that only look.
LEMMA BeginFlushIs ==
  ASSUME TypeOK, NEW t \in Trans \cup PageWriters, BeginFlush(t)
  PROVE  /\ TypeOK' /\ Only(t) /\ call[t].pc = "flush"
         /\ \/ frontLsn >= call[t].goal /\ call'[t] = Free
            \/ /\ call[t].op = "commit" /\ call[t].hint # InvalidSbsn
               /\ call'[t].pc = "io" /\ call'[t].till = call[t].hint
               /\ KeepsLog(t) /\ KeepsWay(t)
            \/ call'[t].pc = "join" /\ KeepsLog(t) /\ KeepsWay(t)
<1>1. t \in Thread /\ call[t].pc = "flush" /\ "join" \in Label
  BY ThreadFacts DEF BeginFlush, At, Label
<1> DEFINE b == call[t].hint
           c == [call[t] EXCEPT !.pc = "io"]
           a == [c EXCEPT !.till = b]
<1>2. CASE frontLsn >= call[t].goal /\ Become(t, Free)
  <2>1. Only(t) /\ call'[t] = Free /\ call'[t] \in CallType(lsn)
    BY <1>1, <1>2, CallIsTyped, BecomeIs
  <2>2. TypeOK'
    BY <1>1, <2>1, SameLsnType, TypeIs DEF BeginFlush, logVars, pendVars
  <2> QED
    BY <1>1, <1>2, <2>1, <2>2
<1>3. CASE call[t].op = "commit" /\ call[t].hint # InvalidSbsn /\ Become(t, a)
  <2>1. b \in Nat \cup {InvalidSbsn} /\ call[t] \in CallType(lsn)
    BY <1>1, CallIsTyped DEF CallType
  <2> HIDE DEF b
  <2>2. c \in CallType(lsn) /\ c.pc = "io" /\ c.op = call[t].op /\ c.my = call[t].my
        /\ c.hint = call[t].hint /\ c.goal = call[t].goal /\ c.skip = call[t].skip
        /\ c.then = call[t].then
    BY <2>1 DEF CallType, Label
  <2> HIDE DEF c
  <2>3. a \in CallType(lsn) /\ a.pc = c.pc /\ a.op = c.op /\ a.my = c.my
        /\ a.hint = c.hint /\ a.goal = c.goal /\ a.skip = c.skip /\ a.then = c.then /\ a.till = b
    BY <2>1, <2>2 DEF CallType
  <2>4. Only(t) /\ call'[t] = a
    BY <1>1, <1>3, CallIsTyped, BecomeIs
  <2> HIDE DEF a
  <2>5. TypeOK'
    BY <1>1, <2>3, <2>4, SameLsnType, TypeIs DEF BeginFlush, logVars, pendVars
  <2> QED
    BY <1>1, <1>3, <2>2, <2>3, <2>4, <2>5 DEF KeepsLog, KeepsWay, b
<1>4. CASE Goto(t, "join")
  <2>1. TypeOK'
    BY <1>1, <1>4, GotoIs, SameLsnType, TypeIs DEF BeginFlush, logVars, pendVars
  <2> QED
    BY <1>1, <1>4, <2>1, GotoIs
<1> QED
  BY <1>2, <1>3, <1>4 DEF BeginFlush

LEMMA WaitForRoomIs ==
  ASSUME TypeOK, NEW t \in Thread, WaitForRoom(t)
  PROVE  /\ TypeOK' /\ Only(t) /\ call[t].pc = "room" /\ call'[t].pc \in {"wait", "self"}
         /\ KeepsLog(t) /\ KeepsWay(t)
<1> DEFINE w == IF FlusherActive THEN "wait" ELSE "self"
           b == Min({frontSbsn + WaitBlocks, rearSbsn})
           a == [call[t] EXCEPT !.pc = w, !.till = b]
<1>1. b \in Nat /\ w \in {"wait", "self"}
  <2> DEFINE m == frontSbsn + WaitBlocks
             n == rearSbsn
  <2>1. m \in Nat /\ n \in Nat
    BY ThreadFacts, TypeIs
  <2> HIDE DEF m, n
  <2>2. \E k \in {m, n} : \A l \in {m, n} : k <= l
    <3>1. CASE m <= n
      BY <2>1, <3>1
    <3>2. CASE n <= m
      BY <2>1, <3>2
    <3> QED
      BY <2>1, <3>1, <3>2
  <2>3. Min({m, n}) \in {m, n}
    BY <2>2 DEF Min
  <2>4. Min({m, n}) \in Nat
    BY <2>1, <2>3
  <2> QED
    BY <2>4 DEF m, n
<1>2. Become(t, a) /\ call[t].pc = "room"
  BY DEF WaitForRoom, At
<1> HIDE DEF b, w
<1>3. a \in CallType(lsn) /\ a.pc = w /\ a.op = call[t].op /\ a.my = call[t].my
      /\ a.hint = call[t].hint /\ a.goal = call[t].goal /\ a.skip = call[t].skip
      /\ a.then = call[t].then
  BY <1>1, CallIsTyped DEF CallType, Label
<1>4. Only(t) /\ call'[t] = a
  BY <1>2, CallIsTyped, BecomeIs
<1> HIDE DEF a
<1>5. TypeOK'
  BY <1>3, <1>4, SameLsnType, TypeIs DEF WaitForRoom, logVars, pendVars
<1> QED
  BY <1>1, <1>2, <1>3, <1>4, <1>5 DEF KeepsLog, KeepsWay

LEMMA EndWaitIs ==
  ASSUME TypeOK, NEW t \in Thread, EndWait(t)
  PROVE  /\ TypeOK' /\ Only(t) /\ call[t].pc = "wait" /\ GoOn(t)
         /\ \/ Reaches(frontSbsn, call[t].till)
            \/ call[t].then = "idle" /\ frontLsn >= call[t].goal
<1>1. GoOn(t) /\ call[t].pc = "wait"
  BY DEF EndWait, At
<1>2. TypeOK'
  BY <1>1, GoOnIs, SameLsnType, TypeIs DEF EndWait, logVars, pendVars
<1> QED
  BY <1>1, <1>2, GoOnIs DEF EndWait

\* A write to disk begins, or is not needed.
LEMMA StartDiskType ==
  ASSUME TypeOK, NEW t \in Thread, StartDisk(t) \/ (GoOn(t) /\ UNCHANGED fileLatch),
         UNCHANGED <<logVars, frontVars, bufferLatch, flushWaiter, groupLsn, pendVars, worldVars>>
  PROVE  TypeOK'
<1>1. Only(t) /\ call'[t] \in CallType(lsn) /\ fileLatch' \in {fileLatch, t}
  BY StartDiskIs, GoOnIs
<1> QED
  BY <1>1, SameLsnType, TypeIs DEF logVars, pendVars

LEMMA FlushByTransIs ==
  ASSUME TypeOK, NEW t \in Trans \cup PageWriters, FlushByTrans(t)
  PROVE  /\ TypeOK' /\ Only(t) /\ call[t].pc = "io"
         /\ \/ fileLatch = NoOne /\ StartDisk(t)
            \/ /\ UNCHANGED fileLatch /\ call'[t].pc \in {"wait", "self"}
               /\ KeepsLog(t) /\ KeepsWay(t) /\ call'[t].till = call[t].till
<1>1. t \in Thread /\ call[t].pc = "io"
  BY ThreadFacts DEF FlushByTrans, At
<1>2. CASE fileLatch = NoOne /\ StartDisk(t)
  <2>1. TypeOK'
    BY <1>1, <1>2, StartDiskType DEF FlushByTrans
  <2>2. Only(t)
    BY <1>1, <1>2, StartDiskIs, GoOnIs
  <2> QED
    BY <1>1, <1>2, <2>1, <2>2
<1>3. ASSUME NEW s \in {"wait", "self"}, Goto(t, s), UNCHANGED fileLatch
      PROVE  /\ TypeOK' /\ Only(t) /\ call'[t].pc = s
             /\ KeepsLog(t) /\ KeepsWay(t) /\ call'[t].till = call[t].till
  <2>1. s \in Label
    BY DEF Label
  <2>2. TypeOK'
    BY <1>1, <1>3, <2>1, GotoIs, SameLsnType, TypeIs DEF FlushByTrans, logVars, pendVars
  <2> QED
    BY <1>1, <1>3, <2>1, <2>2, GotoIs
<1> QED
  BY <1>1, <1>2, <1>3 DEF FlushByTrans

LEMMA FlushBufferIs ==
  ASSUME TypeOK, NEW t \in Thread, FlushBuffer(t)
  PROVE  /\ TypeOK' /\ Only(t) /\ call[t].pc = "self"
         /\ \/ Reaches(frontSbsn, call[t].till) /\ GoOn(t) /\ UNCHANGED fileLatch
            \/ ~Reaches(frontSbsn, call[t].till) /\ fileLatch = NoOne /\ StartDisk(t)
<1>1. TypeOK'
  BY StartDiskType DEF FlushBuffer
<1>2. Only(t)
  BY StartDiskIs, GoOnIs DEF FlushBuffer
<1> QED
  BY <1>1, <1>2 DEF FlushBuffer, At

LEMMA JoinGroupIs ==
  ASSUME TypeOK, NEW t \in Trans \cup PageWriters, JoinGroup(t)
  PROVE  /\ TypeOK' /\ Only(t) /\ call[t].pc \in {"join", "queued"}
         /\ call'[t].op = call[t].op /\ call'[t].my = call[t].my /\ call'[t].hint = call[t].hint
         /\ call'[t].then = call[t].then
         /\ \/ /\ bufferLatch = NoOne /\ bufferLatch' = t /\ call'[t].pc = "group"
               /\ call'[t].goal >= call[t].goal /\ call'[t].skip = call[t].skip
            \/ /\ UNCHANGED bufferLatch /\ call'[t].pc = "queued"
               /\ call'[t].goal = call[t].goal /\ call'[t].skip = call[t].skip
            \/ /\ UNCHANGED bufferLatch /\ call'[t].pc = "io" /\ call'[t].goal = call[t].goal
               /\ call'[t].skip /\ call'[t].till = Unbounded
<1> DEFINE n == Max({groupLsn, call[t].goal})
           g == [call[t] EXCEPT !.pc = "group"]
           gg == [g EXCEPT !.goal = n]
           i == [call[t] EXCEPT !.pc = "io"]
           is == [i EXCEPT !.skip = TRUE]
           iu == [is EXCEPT !.till = Unbounded]
<1>1. t \in Thread /\ call[t].pc \in {"join", "queued"} /\ "queued" \in Label
  BY ThreadFacts DEF JoinGroup, At, Label
<1>2. call[t] \in CallType(lsn) /\ call[t].goal \in 0 .. lsn - 1 /\ groupLsn \in 0 .. lsn - 1
  BY <1>1, CallIsTyped, TypeIs DEF CallType
<1>3. n \in 0 .. lsn - 1 /\ n >= call[t].goal
  <2>1. groupLsn \in Nat /\ call[t].goal \in Nat
    BY <1>2
  <2> QED
    BY <1>2, <2>1, MaxOfTwo
<1>4. groupLsn' = n
  BY DEF JoinGroup
<1> HIDE DEF n
<1>5. gg \in CallType(lsn) /\ gg.pc = "group" /\ gg.goal = n /\ gg.op = call[t].op
      /\ gg.my = call[t].my /\ gg.hint = call[t].hint /\ gg.skip = call[t].skip
      /\ gg.then = call[t].then
  <2>1. g \in CallType(lsn) /\ g.pc = "group" /\ g.op = call[t].op
      /\ g.my = call[t].my /\ g.hint = call[t].hint /\ g.skip = call[t].skip
      /\ g.then = call[t].then
    BY <1>2 DEF CallType, Label
  <2> HIDE DEF g
  <2> QED
    BY <1>3, <2>1 DEF CallType
<1>6. iu \in CallType(lsn) /\ iu.pc = "io" /\ iu.goal = call[t].goal /\ iu.op = call[t].op
      /\ iu.my = call[t].my /\ iu.hint = call[t].hint /\ iu.skip = TRUE /\ iu.till = Unbounded
      /\ iu.then = call[t].then
  <2>1. i \in CallType(lsn) /\ i.pc = "io" /\ i.goal = call[t].goal /\ i.op = call[t].op
      /\ i.my = call[t].my /\ i.hint = call[t].hint /\ i.then = call[t].then
    BY <1>2 DEF CallType, Label
  <2> HIDE DEF i
  <2>2. is \in CallType(lsn) /\ is.pc = "io" /\ is.goal = call[t].goal /\ is.op = call[t].op
      /\ is.my = call[t].my /\ is.hint = call[t].hint /\ is.skip = TRUE /\ is.then = call[t].then
    BY <2>1 DEF CallType
  <2> HIDE DEF is
  <2> QED
    BY <2>2 DEF CallType
<1>7. \/ bufferLatch = NoOne /\ bufferLatch' = t /\ UNCHANGED flushWaiter /\ Become(t, gg)
      \/ UNCHANGED bufferLatch /\ flushWaiter' = t /\ Goto(t, "queued")
      \/ UNCHANGED bufferLatch /\ UNCHANGED flushWaiter /\ Become(t, iu)
  BY DEF JoinGroup, n
<1> HIDE DEF gg, iu
<1>8. Only(t) /\ call'[t] \in CallType(lsn)
  BY <1>1, <1>5, <1>6, <1>7, GotoIs, CallIsTyped, BecomeIs
<1>9. TypeOK'
  <2>1. call' \in [Thread -> CallType(lsn)]
    BY <1>1, <1>8, SameCallType
  <2>2. bufferLatch' \in Thread \cup {NoOne} /\ flushWaiter' \in Thread \cup {NoOne}
    BY <1>1, <1>7, TypeIs
  <2> QED
    BY <1>3, <1>4, <2>1, <2>2, TypeIs
    DEF JoinGroup, TypeOK, CallType, logVars, frontVars, pendVars, worldVars
<1>10. CASE bufferLatch = NoOne /\ bufferLatch' = t /\ Become(t, gg)
  BY <1>1, <1>3, <1>5, <1>8, <1>9, <1>10, CallIsTyped, BecomeIs
<1>11. CASE UNCHANGED bufferLatch /\ Goto(t, "queued")
  BY <1>1, <1>8, <1>9, <1>11, GotoIs DEF KeepsLog, KeepsWay
<1>12. CASE UNCHANGED bufferLatch /\ Become(t, iu)
  BY <1>1, <1>6, <1>8, <1>9, <1>12, CallIsTyped, BecomeIs
<1> QED
  BY <1>7, <1>10, <1>11, <1>12

LEMMA DriveGroupIs ==
  ASSUME TypeOK, NEW t \in Trans \cup PageWriters, DriveGroup(t)
  PROVE  /\ TypeOK' /\ Only(t) /\ call[t].pc = "group"
         /\ \/ frontLsn >= call[t].goal /\ bufferLatch' = NoOne /\ call'[t] = Free
               /\ UNCHANGED awaited
            \/ /\ UNCHANGED bufferLatch /\ call'[t].pc = "flushWait"
               /\ call'[t].till = call[t].hint /\ KeepsLog(t) /\ KeepsWay(t)
               /\ awaited' = IF call[t].goal > rearLsn THEN Pend ELSE {}
<1> DEFINE b == call[t].hint
           c == [call[t] EXCEPT !.pc = "flushWait"]
           a == [c EXCEPT !.till = b]
<1>1. t \in Thread /\ call[t].pc = "group"
  BY ThreadFacts DEF DriveGroup, At
<1>2. CASE frontLsn >= call[t].goal /\ ReleaseBuffer /\ Become(t, Free) /\ UNCHANGED awaited
  <2>1. Only(t) /\ call'[t] = Free /\ call'[t] \in CallType(lsn)
    BY <1>1, <1>2, CallIsTyped, BecomeIs
  <2>2. bufferLatch' = NoOne /\ flushWaiter' \in {flushWaiter, NoOne}
    BY <1>2 DEF ReleaseBuffer
  <2>3. TypeOK'
    BY <1>1, <1>2, <2>1, <2>2, SameLsnType, TypeIs DEF DriveGroup, logVars
  <2> QED
    BY <1>1, <1>2, <2>1, <2>2, <2>3
<1>3. CASE /\ Become(t, a) /\ UNCHANGED <<bufferLatch, flushWaiter>>
           /\ awaited' = IF call[t].goal > rearLsn THEN Pend ELSE {}
  <2>1. b \in Nat \cup {InvalidSbsn} /\ call[t] \in CallType(lsn)
    BY <1>1, CallIsTyped DEF CallType
  <2> HIDE DEF b
  <2>2. c \in CallType(lsn) /\ c.pc = "flushWait" /\ c.op = call[t].op /\ c.my = call[t].my
        /\ c.hint = call[t].hint /\ c.goal = call[t].goal /\ c.skip = call[t].skip
        /\ c.then = call[t].then
    BY <2>1 DEF CallType, Label
  <2> HIDE DEF c
  <2>3. a \in CallType(lsn) /\ a.pc = c.pc /\ a.op = c.op /\ a.my = c.my
        /\ a.hint = c.hint /\ a.goal = c.goal /\ a.skip = c.skip /\ a.then = c.then /\ a.till = b
    BY <2>1, <2>2 DEF CallType
  <2>4. Only(t) /\ call'[t] = a
    BY <1>1, <1>3, CallIsTyped, BecomeIs
  <2> HIDE DEF a
  <2>5. awaited' \subseteq Pend
    BY <1>3
  <2>6. TypeOK'
    BY <1>1, <1>3, <2>3, <2>4, <2>5, SameLsnType, TypeIs DEF DriveGroup, logVars
  <2> QED
    BY <1>1, <1>3, <2>2, <2>3, <2>4, <2>6 DEF KeepsLog, KeepsWay, b
<1> QED
  BY <1>2, <1>3 DEF DriveGroup

LEMMA SwitchedRearIs ==
  ASSUME TypeOK
  PROVE  /\ SwitchedRear \in Nat /\ SwitchedRear \in {rearSbsn, rearSbsn + 1}
         /\ SwitchedRear - 1 \in Nat \cup {InvalidSbsn}
         /\ SwitchedRear = rearSbsn + 1 <=> RearUsed
<1>1. rearSbsn \in Nat
  BY TypeIs
<1> QED
  BY <1>1 DEF SwitchedRear, InvalidSbsn

LEMMA CloseBlockIs ==
  ASSUME TypeOK, NEW t \in Thread, CloseBlock(t)
  PROVE  /\ TypeOK' /\ Only(t) /\ call[t].pc = "close" /\ bufferLatch' = NoOne
         /\ call'[t].pc = IF t = Flusher THEN "self" ELSE "io"
         /\ KeepsLog(t) /\ KeepsWay(t)
         /\ IF call[t].till \in {rearSbsn, InvalidSbsn}
            THEN rearSbsn' = SwitchedRear /\ call'[t].till = SwitchedRear - 1
            ELSE UNCHANGED rearSbsn /\ call'[t].till = call[t].till
<1> DEFINE b == SwitchedRear - 1
           n == IF t = Flusher THEN "self" ELSE "io"
           c == [call[t] EXCEPT !.pc = n]
           a == [c EXCEPT !.till = b]
<1>1. call[t].pc = "close" /\ bufferLatch' = NoOne /\ flushWaiter' \in {flushWaiter, NoOne}
  BY DEF CloseBlock, At, ReleaseBuffer
<1>2. n \in Label /\ b \in Nat \cup {InvalidSbsn}
  BY SwitchedRearIs DEF Label
<1>3. CASE call[t].till \in {rearSbsn, InvalidSbsn} /\ rearSbsn' = SwitchedRear /\ Become(t, a)
  <2> HIDE DEF b, n
  <2>1. call[t] \in CallType(lsn)
    BY CallIsTyped
  <2>2. c \in CallType(lsn) /\ c.pc = n /\ c.op = call[t].op /\ c.my = call[t].my
        /\ c.hint = call[t].hint /\ c.goal = call[t].goal /\ c.skip = call[t].skip
        /\ c.then = call[t].then
    BY <1>2, <2>1 DEF CallType
  <2> HIDE DEF c
  <2>3. a \in CallType(lsn) /\ a.pc = c.pc /\ a.op = c.op /\ a.my = c.my
        /\ a.hint = c.hint /\ a.goal = c.goal /\ a.skip = c.skip /\ a.then = c.then /\ a.till = b
    BY <1>2, <2>2 DEF CallType
  <2>4. Only(t) /\ call'[t] = a
    BY <1>3, CallIsTyped, BecomeIs
  <2> HIDE DEF a
  <2>5. call' \in [Thread -> CallType(lsn)]
    BY <2>3, <2>4, SameCallType
  <2>6. TypeOK'
    BY <1>1, <1>3, <2>5, SwitchedRearIs, TypeIs
    DEF CloseBlock, TypeOK, CallType, frontVars, pendVars, worldVars
  <2> QED
    BY <1>1, <1>3, <2>2, <2>3, <2>4, <2>6 DEF KeepsLog, KeepsWay, b, n
<1>4. CASE call[t].till \notin {rearSbsn, InvalidSbsn} /\ UNCHANGED rearSbsn /\ Goto(t, n)
  <2> HIDE DEF n
  <2>1. TypeOK'
    BY <1>1, <1>2, <1>4, GotoIs, SameLsnType, TypeIs DEF CloseBlock, pendVars
  <2> QED
    BY <1>1, <1>2, <1>4, <2>1, GotoIs DEF n
<1> QED
  BY <1>3, <1>4 DEF CloseBlock

Newest(B) == Max({d.lsn : d \in B})
Highest(B) == Max({d.sbsn : d \in B})

LEMMA PagesAre ==
  ASSUME TypeOK, BufferOK, NEW B \in SUBSET dirty, B # {}
  PROVE  /\ Newest(B) \in 1 .. lsn - 1 /\ Highest(B) \in Nat \cup {InvalidSbsn}
         /\ \E d \in B : d.lsn = Newest(B)
         /\ \E d \in B : d.sbsn = Highest(B)
         /\ \A d \in B : d.sbsn <= Highest(B)
<1> DEFINE L == {d.lsn : d \in B}
           S == {d.sbsn : d \in B}
<1>1. \A d \in B : d.lsn \in 1 .. lsn - 1 /\ d.sbsn \in Nat \cup {InvalidSbsn} /\ d.sbsn <= rearSbsn
  BY TypeIs DEF BufferOK
<1>2. lsn - 1 \in Int /\ rearSbsn \in Int
  BY TypeIs
<1>3. L \subseteq 1 .. lsn - 1 /\ S \subseteq Nat \cup {InvalidSbsn}
  BY <1>1
<1>4. L \in SUBSET Int /\ S \in SUBSET Int /\ L # {} /\ S # {}
  BY <1>3 DEF InvalidSbsn
<1>5. (\A x \in L : x <= lsn - 1) /\ (\A x \in S : x <= rearSbsn)
  BY <1>1, <1>2, <1>3
<1>6. (\A x \in L : \E d \in B : d.lsn = x) /\ (\A x \in S : \E d \in B : d.sbsn = x)
  OBVIOUS
<1>8. \A d \in B : d.sbsn \in S
  OBVIOUS
<1> HIDE DEF L, S
<1>7. Max(L) \in L /\ Max(S) \in S /\ \A x \in S : x <= Max(S)
  BY <1>2, <1>4, <1>5, MaxOfBounded
<1> QED
  BY <1>3, <1>6, <1>7, <1>8 DEF Newest, Highest, L, S

LEMMA CollectPagesIs ==
  ASSUME TypeOK, BufferOK, NEW t \in PageWriters, CollectPages(t)
  PROVE  /\ TypeOK' /\ Only(t) /\ call[t].pc = "idle"
         /\ call'[t].pc = "flush" /\ call'[t].op = "page" /\ ~call'[t].skip /\ call'[t].then = "idle"
         /\ \E B \in SUBSET dirty :
              /\ B # {} /\ Cardinality(B) <= MaxBatch /\ dirty' = dirty \ B
              /\ call'[t].my = Newest(B) /\ call'[t].goal = Newest(B)
              /\ call'[t].hint = Highest(B)
<1>1. t \in Thread /\ call[t].pc = "idle"
  BY ThreadFacts DEF CollectPages, At
<1>2. PICK B \in SUBSET dirty :
       /\ B # {} /\ Cardinality(B) <= MaxBatch
       /\ Become(t, [Free EXCEPT !.pc = "flush", !.op = "page", !.my = Newest(B),
                                 !.goal = Newest(B), !.hint = Highest(B)])
       /\ dirty' = dirty \ B
  BY DEF CollectPages, Newest, Highest
<1>3. Newest(B) \in 1 .. lsn - 1 /\ Highest(B) \in Nat \cup {InvalidSbsn}
  BY <1>2, PagesAre
<1>4. PICK n \in 1 .. lsn - 1, h \in Nat \cup {InvalidSbsn} : n = Newest(B) /\ h = Highest(B)
  BY <1>3
<1> DEFINE a1 == [Free EXCEPT !.pc = "flush"]
           a2 == [a1 EXCEPT !.op = "page"]
           a3 == [a2 EXCEPT !.my = n]
           a4 == [a3 EXCEPT !.goal = n]
           a == [a4 EXCEPT !.hint = h]
<1>5. Become(t, a)
  BY <1>2, <1>4
<1>6. Free \in CallType(lsn) /\ Free.skip = FALSE /\ Free.then = "idle"
  BY <1>1, CallIsTyped DEF Free
<1>7. a1 \in CallType(lsn) /\ a1.pc = "flush" /\ a1.skip = FALSE /\ a1.then = "idle"
  BY <1>6 DEF CallType, Label
<1> HIDE DEF a1
<1>8. a2 \in CallType(lsn) /\ a2.pc = "flush" /\ a2.op = "page" /\ a2.skip = FALSE /\ a2.then = "idle"
  BY <1>7 DEF CallType
<1> HIDE DEF a2
<1>9. a3 \in CallType(lsn) /\ a3.pc = "flush" /\ a3.op = "page" /\ a3.skip = FALSE /\ a3.then = "idle"
      /\ a3.my = n
  BY <1>8 DEF CallType
<1> HIDE DEF a3
<1>10. a4 \in CallType(lsn) /\ a4.pc = "flush" /\ a4.op = "page" /\ a4.skip = FALSE /\ a4.then = "idle"
      /\ a4.my = n /\ a4.goal = n
  BY <1>9 DEF CallType
<1> HIDE DEF a4
<1>11. a \in CallType(lsn) /\ a.pc = "flush" /\ a.op = "page" /\ a.skip = FALSE /\ a.then = "idle" /\ a.my = n
      /\ a.goal = n /\ a.hint = h
  BY <1>10 DEF CallType
<1> HIDE DEF a
<1>12. Only(t) /\ call'[t] = a
  BY <1>1, <1>5, CallIsTyped, BecomeIs
<1>13. call' \in [Thread -> CallType(lsn)]
  BY <1>1, <1>11, <1>12, SameCallType
<1>14. TypeOK'
  BY <1>2, <1>13, TypeIs DEF CollectPages, TypeOK, CallType, logVars, frontVars, pendVars
<1> QED
  BY <1>1, <1>2, <1>4, <1>11, <1>12, <1>14

\* The log flusher.
LEMMA FlushStreamLogIs ==
  ASSUME TypeOK, FlushStreamLog
  PROVE  /\ TypeOK' /\ Only(Flusher) /\ call[Flusher].pc = "idle"
         /\ fileLatch = NoOne /\ fileLatch' = Flusher /\ frontSbsn < rearSbsn - 1
         /\ call'[Flusher].pc = "disk" /\ call'[Flusher].till = rearSbsn - 1
<1> DEFINE c == [Free EXCEPT !.pc = "disk"]
           a == [c EXCEPT !.till = rearSbsn - 1]
<1>1. frontSbsn < rearSbsn - 1 /\ fileLatch = NoOne /\ fileLatch' = Flusher
      /\ call[Flusher].pc = "idle" /\ Become(Flusher, a)
  <2>1. frontSbsn \in Int /\ rearSbsn \in Int
    BY TypeIs
  <2> QED
    BY <2>1 DEF FlushStreamLog, At
<1>2. rearSbsn - 1 \in Nat
  BY <1>1, TypeIs
<1>3. a \in CallType(lsn) /\ a.pc = "disk" /\ a.till = rearSbsn - 1
  <2>1. c \in CallType(lsn) /\ c.pc = "disk"
    BY CallIsTyped, ThreadFacts DEF CallType, Label
  <2> HIDE DEF c
  <2> QED
    BY <1>2, <2>1 DEF CallType
<1> HIDE DEF a
<1>4. Only(Flusher) /\ call'[Flusher] = a
  BY <1>1, CallIsTyped, BecomeIs, ThreadFacts
<1>5. TypeOK'
  BY <1>1, <1>3, <1>4, ThreadFacts, SameLsnType, TypeIs DEF FlushStreamLog, logVars, pendVars
<1> QED
  BY <1>1, <1>3, <1>4, <1>5

LEMMA BeginFlushAllIs ==
  ASSUME TypeOK, BeginFlushAll
  PROVE  /\ TypeOK' /\ Only(Flusher) /\ call[Flusher].pc = "idle" /\ call'[Flusher].pc = "all"
<1>1. Goto(Flusher, "all") /\ "all" \in Label /\ call[Flusher].pc = "idle"
  BY DEF BeginFlushAll, Label, At
<1>2. TypeOK'
  BY <1>1, ThreadFacts, GotoIs, SameLsnType, TypeIs DEF BeginFlushAll, logVars, pendVars
<1> QED
  BY <1>1, <1>2, ThreadFacts, GotoIs

LEMMA FlushAllLogsIs ==
  ASSUME TypeOK, FlushAllLogs
  PROVE  /\ TypeOK' /\ Only(Flusher) /\ call[Flusher].pc = "all"
         /\ bufferLatch = NoOne /\ bufferLatch' = Flusher
         /\ call'[Flusher].pc = "flushWait" /\ awaited' = Pend
<1> DEFINE a1 == [Free EXCEPT !.pc = "flushWait"]
           a2 == [a1 EXCEPT !.till = rearSbsn]
           a == [a2 EXCEPT !.goal = lsn - 1]
<1>1. call[Flusher].pc = "all" /\ bufferLatch = NoOne /\ bufferLatch' = Flusher /\ awaited' = Pend
  BY DEF FlushAllLogs, At
<1>2. Become(Flusher, a)
  BY DEF FlushAllLogs
<1>3. a \in CallType(lsn) /\ a.pc = "flushWait"
  <2>1. a1 \in CallType(lsn) /\ a1.pc = "flushWait"
    BY CallIsTyped, ThreadFacts DEF CallType, Label
  <2> HIDE DEF a1
  <2>2. a2 \in CallType(lsn) /\ a2.pc = "flushWait"
    BY <2>1, TypeIs DEF CallType
  <2> HIDE DEF a2
  <2>3. lsn - 1 \in 0 .. lsn - 1
    BY TypeIs
  <2> QED
    BY <2>2, <2>3 DEF CallType
<1> HIDE DEF a
<1>4. Only(Flusher) /\ call'[Flusher] = a
  BY <1>2, CallIsTyped, BecomeIs, ThreadFacts
<1>5. TypeOK'
  BY <1>1, <1>3, <1>4, ThreadFacts, SameLsnType, TypeIs DEF FlushAllLogs, logVars
<1> QED
  BY <1>1, <1>3, <1>4, <1>5

LEMMA ReacquireForCloseIs ==
  ASSUME TypeOK, ReacquireForClose
  PROVE  /\ TypeOK' /\ Only(Flusher) /\ call[Flusher].pc = "reclose"
         /\ bufferLatch = NoOne /\ bufferLatch' = Flusher /\ call'[Flusher].pc = "close"
<1> DEFINE c == [call[Flusher] EXCEPT !.pc = "close"]
           a == [c EXCEPT !.then = "all"]
<1>1. call[Flusher].pc = "reclose" /\ bufferLatch = NoOne /\ bufferLatch' = Flusher
      /\ Become(Flusher, a)
  BY DEF ReacquireForClose, At
<1>2. c \in CallType(lsn) /\ c.pc = "close"
  BY CallIsTyped, ThreadFacts DEF CallType, Label
<1> HIDE DEF c
<1>3. a \in CallType(lsn) /\ a.pc = "close"
  BY <1>2 DEF CallType
<1> HIDE DEF a
<1>4. Only(Flusher) /\ call'[Flusher] = a
  BY <1>1, CallIsTyped, BecomeIs, ThreadFacts
<1>5. TypeOK'
  BY <1>1, <1>3, <1>4, ThreadFacts, SameLsnType, TypeIs DEF ReacquireForClose, logVars, pendVars
<1> QED
  BY <1>1, <1>3, <1>4, <1>5

-----------------------------------------------------------------------------
(* The invariant: steps that move no log. *)

LEMMA OthersKept ==
  ASSUME TypeOK, NEW t \in Thread, Only(t)
  PROVE  \A u \in Thread \ {t} : call'[u] = call[u]
BY TypeIs DEF Only

LEMMA PublishedIs ==
  \A l : l \in Published <=> \E p \in Pend : \E i \in 1 .. Len(pend[p]) : l = pend[p][i]
BY DEF Published

LEMMA PendingIs ==
  \A l : l \in Pending <=>
    \/ \E p \in Pend : \E i \in 1 .. Len(pend[p]) : l = pend[p][i]
    \/ \E t \in Thread : call[t].pc = "publish" /\ l = call[t].my
BY PublishedIs DEF Pending, At

\* How a step may change who has a latch, and the same for the right to write to disk.
LatchStep(t) ==
  \/ UNCHANGED bufferLatch /\ (call[t].pc \in Latched <=> call'[t].pc \in Latched)
  \/ bufferLatch = NoOne /\ bufferLatch' = t /\ call'[t].pc \in Latched
  \/ bufferLatch' = NoOne /\ call[t].pc \in Latched /\ call'[t].pc \notin Latched

FileStep(t) ==
  \/ UNCHANGED fileLatch /\ (call[t].pc = "disk" <=> call'[t].pc = "disk")
  \/ fileLatch = NoOne /\ fileLatch' = t /\ call'[t].pc = "disk"
  \/ fileLatch' = NoOne /\ call[t].pc = "disk" /\ call'[t].pc # "disk"

LEMMA OwnersKept ==
  ASSUME TypeOK, OwnersOK, NEW t \in Thread, Only(t), LatchStep(t), FileStep(t),
         UNCHANGED pendLatch, call[t].pc = "publish" <=> call'[t].pc = "publish"
  PROVE  OwnersOK'
<1>1. \A u \in Thread \ {t} : call'[u] = call[u]
  BY OthersKept
<1>2. NoOne \notin Thread /\ \A p \in Pend : pendLatch[p] \in Thread \cup {NoOne}
  BY ThreadFacts, TypeIs
<1>3. \A u \in Thread : call'[u].pc \in Latched <=> bufferLatch' = u
  BY <1>1, <1>2 DEF OwnersOK, LatchStep
<1>4. \A u \in Thread : call'[u].pc = "disk" <=> fileLatch' = u
  BY <1>1, <1>2 DEF OwnersOK, FileStep
<1>5. \A u \in Thread : call'[u].pc = "publish" <=> call[u].pc = "publish"
  BY <1>1
<1>6. \A p \in Pend : pendLatch[p] # NoOne => call'[pendLatch[p]].pc = "publish"
  BY <1>2, <1>5 DEF OwnersOK
<1> QED
  BY <1>3, <1>4, <1>5, <1>6 DEF OwnersOK

LEMMA BufferKept ==
  ASSUME BufferOK, UNCHANGED <<buffer, rearLsn, rearSbsn, frontSbsn, disk>>, dirty' \subseteq dirty
  PROVE  BufferOK'
BY DEF BufferOK

LEMMA FrontKept ==
  ASSUME TypeOK, FrontOK, NEW t \in Thread, Only(t),
         UNCHANGED <<buffer, rearLsn, rearSbsn, frontVars>>,
         call'[t].pc = "disk" => frontSbsn < call'[t].till /\ call'[t].till < rearSbsn
  PROVE  FrontOK'
<1>1. \A u \in Thread \ {t} : call'[u] = call[u]
  BY OthersKept
<1> QED
  BY <1>1 DEF FrontOK, FrontBelowRear, frontVars

\* Nothing becomes pending or leaves the pending buffers.
LEMMA PendingKept ==
  ASSUME TypeOK, OwnersOK, PendingOK, NEW t \in Thread, Only(t),
         UNCHANGED <<rearLsn, pend, pendLatch>>, call[t].pc # "publish", call'[t].pc # "publish",
         call'[t].pc \in Fresh => call[t].pc \in Fresh /\ call'[t].my = call[t].my,
         \A p \in Pend : cursor'[p] <= Len(pend[p])
  PROVE  /\ PendingOK' /\ Pending' = Pending /\ Published' = Published
         /\ \A p \in Pend : \A l : NewerCopied(p, l)' <=> NewerCopied(p, l)
<1>1. \A u \in Thread \ {t} : call'[u] = call[u]
  BY OthersKept
<1>2. \A u \in Thread : (call'[u].pc = "publish" <=> call[u].pc = "publish")
                        /\ (call[u].pc = "publish" => call'[u].my = call[u].my)
  BY <1>1
<1>3. Published' = Published
  BY DEF Published
<1>4. Pending' = Pending
  BY <1>2, <1>3 DEF Pending, At
<1>5. \A u \in Thread : call'[u].pc \in Fresh => call[u].pc \in Fresh /\ call'[u].my = call[u].my
  BY <1>1
<1>6. \A p \in Pend : pendLatch[p] # NoOne =>
        pendLatch[p] \in Thread /\ call'[pendLatch[p]].my = call[pendLatch[p]].my
  <2> TAKE p \in Pend
  <2> HAVE pendLatch[p] # NoOne
  <2>1. pendLatch[p] \in Thread /\ call[pendLatch[p]].pc = "publish"
    BY TypeIs DEF OwnersOK
  <2> QED
    BY <1>2, <2>1
<1>7. \A p \in Pend : \A l : NewerCopied(p, l)' <=> NewerCopied(p, l)
  BY <1>6 DEF NewerCopied
<1>8. PendingOK'
  <2>1. PendingIsNewer'
    BY <1>4 DEF PendingOK, PendingIsNewer
  <2>2. \A p, q \in Pend : \A i \in 1 .. Len(pend'[p]), j \in 1 .. Len(pend'[q]) :
          pend'[p][i] = pend'[q][j] => p = q
    BY DEF PendingOK
  <2>3. \A p \in Pend : pendLatch'[p] # NoOne =>
          \A i \in 1 .. Len(pend'[p]) : pend'[p][i] < call'[pendLatch'[p]].my
    BY <1>6 DEF PendingOK
  <2>4. \A u \in Thread : call'[u].pc \in Fresh =>
          call'[u].my \notin Published' /\ call'[u].my > rearLsn'
    BY <1>3, <1>5 DEF PendingOK
  <2>5. \A u, w \in Thread :
          call'[u].pc \in Fresh /\ call'[w].pc \in Fresh /\ call'[u].my = call'[w].my => u = w
    BY <1>5 DEF PendingOK
  <2> QED
    BY <2>1, <2>2, <2>3, <2>4, <2>5 DEF PendingOK
<1> QED
  BY <1>3, <1>4, <1>7, <1>8

\* At most one thread has the buffer latch.
LEMMA OneHolder ==
  ASSUME OwnersOK, NEW t \in Thread, NEW u \in Thread, call[t].pc \in Latched, call[u].pc \in Latched
  PROVE  t = u
BY DEF OwnersOK

LEMMA NotLatchedSettled ==
  ASSUME NEW t \in Thread, call[t].pc \notin Latched
  PROVE  Settled(t)
BY DEF Settled, Latched

\* A step that leaves the pending logs alone, and the cursor of whoever has the latch.
LEMMA SettledKept ==
  ASSUME TypeOK, OwnersOK, OwnersOK', NEW t \in Thread, Only(t),
         UNCHANGED pend, Pending' = Pending,
         \A p \in Pend : \A l : NewerCopied(p, l)' <=> NewerCopied(p, l),
         UNCHANGED <<awaited, cursor>> \/ call'[t].pc \in Latched \/ call[t].pc \in Latched,
         \A u \in Thread : Settled(u), Settled(t)'
  PROVE  \A u \in Thread : Settled(u)'
<1> SUFFICES ASSUME NEW u \in Thread, u # t, call'[u].pc \in Latched PROVE Settled(u)'
  <2>1. \A u \in Thread : call'[u].pc \notin Latched => Settled(u)'
    BY DEF Settled, Latched
  <2> QED
    BY <2>1
<1>1. call'[u] = call[u]
  BY OthersKept
<1>2. UNCHANGED <<awaited, cursor>>
  BY <1>1, OneHolder DEF OwnersOK
<1>3. EndLsn(u)' = EndLsn(u)
  BY <1>1 DEF EndLsn, Writing
<1> QED
  BY <1>1, <1>2, <1>3 DEF Settled

\* All of it: a step that changes no block and no pending log.
LEMMA PlainStep ==
  ASSUME LogInv, TypeOK', NEW t \in Thread, Only(t), LatchStep(t), FileStep(t),
         UNCHANGED <<buffer, rearLsn, rearSbsn, frontVars, disk, pend, pendLatch>>,
         dirty' \subseteq dirty, call[t].pc # "publish", call'[t].pc # "publish",
         call'[t].pc \in Fresh => call[t].pc \in Fresh /\ call'[t].my = call[t].my,
         call'[t].pc = "disk" => frontSbsn < call'[t].till /\ call'[t].till < rearSbsn,
         UNCHANGED <<awaited, cursor>> \/ call'[t].pc \in Latched \/ call[t].pc \in Latched,
         \A p \in Pend : cursor'[p] <= Len(pend[p]),
         Settled(t)'
  PROVE  LogInv'
<1>1. OwnersOK'
  BY OwnersKept DEF LogInv
<1>2. BufferOK' /\ FrontOK'
  BY BufferKept, FrontKept DEF LogInv, frontVars
<1>3. /\ PendingOK' /\ Pending' = Pending
      /\ \A p \in Pend : \A l : NewerCopied(p, l)' <=> NewerCopied(p, l)
  BY PendingKept DEF LogInv
<1>4. \A u \in Thread : Settled(u)'
  BY <1>1, <1>3, SettledKept DEF LogInv
<1> QED
  BY <1>1, <1>2, <1>3, <1>4 DEF LogInv

LEMMA TryBufferLatchKeeps ==
  ASSUME LogInv, NEW t \in Trans, NEW o \in {"log", "commit"}, TryBufferLatch(t, o)
  PROVE  LogInv'
<1>1. /\ t \in Thread /\ TypeOK' /\ Only(t) /\ call[t].pc \in {"idle", "try"}
      /\ \/ bufferLatch = NoOne /\ bufferLatch' = t /\ call'[t].pc = "stamp"
         \/ UNCHANGED bufferLatch /\ call'[t].pc \in {"pend", "latch"}
  BY TryBufferLatchIs, ThreadFacts DEF LogInv
<1>2. UNCHANGED <<buffer, rearLsn, rearSbsn, frontVars, disk, pend, pendLatch, dirty, awaited,
                  cursor, fileLatch>>
  BY DEF TryBufferLatch, logVars, pendVars, worldVars
<1>3. LatchStep(t) /\ FileStep(t)
  BY <1>1, <1>2 DEF LatchStep, FileStep, Latched
<1>4. Settled(t)'
  BY <1>1 DEF Settled
<1> QED
  BY <1>1, <1>2, <1>3, <1>4, PlainStep DEF LogInv, Fresh, PendingOK

LEMMA AcquireBufferLatchKeeps ==
  ASSUME LogInv, NEW t \in Trans, AcquireBufferLatch(t)
  PROVE  LogInv'
<1>1. /\ t \in Thread /\ TypeOK' /\ Only(t) /\ call[t].pc = "latch" /\ call'[t].pc = "stamp"
  BY AcquireBufferLatchIs, ThreadFacts DEF LogInv
<1>2. /\ UNCHANGED <<buffer, rearLsn, rearSbsn, frontVars, disk, pend, pendLatch, dirty, awaited,
                     cursor, fileLatch>>
      /\ bufferLatch = NoOne /\ bufferLatch' = t
  BY DEF AcquireBufferLatch, logVars, pendVars, worldVars
<1>3. LatchStep(t) /\ FileStep(t)
  BY <1>1, <1>2 DEF LatchStep, FileStep, Latched
<1>4. Settled(t)'
  BY <1>1 DEF Settled
<1> QED
  BY <1>1, <1>2, <1>3, <1>4, PlainStep DEF LogInv, Fresh, PendingOK

\* A thread that neither has the buffer latch nor takes it, and no pending log.
LEMMA QuietStep ==
  ASSUME LogInv, TypeOK', NEW t \in Thread, Only(t), FileStep(t),
         UNCHANGED <<buffer, rearLsn, rearSbsn, frontVars, disk, pend, pendLatch, awaited, cursor,
                     bufferLatch>>,
         dirty' \subseteq dirty, call[t].pc \notin Latched \cup {"publish"},
         call'[t].pc \notin Latched \cup {"publish"},
         call'[t].pc = "disk" => frontSbsn < call'[t].till /\ call'[t].till < rearSbsn
  PROVE  LogInv'
<1>1. LatchStep(t)
  BY DEF LatchStep
<1>2. Settled(t)' /\ call'[t].pc \notin Fresh
  BY DEF Settled, Latched, Fresh
<1> QED
  BY <1>1, <1>2, PlainStep DEF LogInv, PendingOK

LEMMA GoOnKeeps ==
  ASSUME LogInv, TypeOK', NEW t \in Thread, GoOn(t), call[t].pc \in {"wait", "io", "self"},
         UNCHANGED <<buffer, rearLsn, rearSbsn, frontVars, disk, pend, pendLatch, awaited, cursor,
                     bufferLatch, fileLatch, dirty>>
  PROVE  LogInv'
<1>1. Only(t) /\ call'[t].pc = call[t].then /\ call[t].then \in {"idle", "try", "flush", "all"}
  BY GoOnIs, CallIsTyped DEF LogInv, CallType
<1>2. FileStep(t)
  BY <1>1 DEF FileStep
<1> QED
  BY <1>1, <1>2, QuietStep DEF Latched

LEMMA StartDiskKeeps ==
  ASSUME LogInv, TypeOK', NEW t \in Thread, StartDisk(t), call[t].pc \in {"io", "self"},
         fileLatch = NoOne,
         UNCHANGED <<buffer, rearLsn, rearSbsn, frontVars, disk, pend, pendLatch, awaited, cursor,
                     bufferLatch, dirty>>
  PROVE  LogInv'
<1>1. CASE GoOn(t) /\ UNCHANGED fileLatch
  BY <1>1, GoOnKeeps
<1>2. CASE /\ Only(t) /\ fileLatch' = t /\ call'[t].pc = "disk"
           /\ Below(call[t].till) > frontSbsn /\ call'[t].till = Below(call[t].till)
  <2>1. call[t].till \in Int /\ rearSbsn \in Int /\ frontSbsn \in Int
    <3>1. TypeOK
      BY DEF LogInv
    <3>2. call[t].till \in Nat \cup {InvalidSbsn, Unbounded}
      BY <3>1, CallIsTyped DEF CallType
    <3> QED
      BY <3>1, <3>2, TypeIs DEF InvalidSbsn, Unbounded
  <2>2. frontSbsn < call'[t].till /\ call'[t].till < rearSbsn
    BY <1>2, <2>1 DEF Below, Reaches
  <2>3. FileStep(t)
    BY <1>2 DEF FileStep
  <2> QED
    BY <1>2, <2>2, <2>3, QuietStep DEF Latched
<1> QED
  BY <1>1, <1>2, StartDiskIs DEF LogInv

LEMMA FlushByTransKeeps ==
  ASSUME LogInv, NEW t \in Trans \cup PageWriters, FlushByTrans(t)
  PROVE  LogInv'
<1>1. /\ t \in Thread /\ TypeOK' /\ Only(t) /\ call[t].pc = "io"
      /\ \/ fileLatch = NoOne /\ StartDisk(t)
         \/ UNCHANGED fileLatch /\ call'[t].pc \in {"wait", "self"}
  BY FlushByTransIs, ThreadFacts DEF LogInv
<1>2. UNCHANGED <<buffer, rearLsn, rearSbsn, frontVars, disk, pend, pendLatch, dirty, awaited,
                  cursor, bufferLatch>>
  BY DEF FlushByTrans, logVars, pendVars, worldVars
<1>3. CASE UNCHANGED fileLatch /\ call'[t].pc \in {"wait", "self"}
  <2>1. FileStep(t)
    BY <1>1, <1>3 DEF FileStep
  <2> QED
    BY <1>1, <1>2, <1>3, <2>1, QuietStep DEF Latched
<1> QED
  BY <1>1, <1>2, <1>3, StartDiskKeeps

LEMMA FlushBufferKeeps ==
  ASSUME LogInv, NEW t \in Thread, FlushBuffer(t)
  PROVE  LogInv'
<1>1. /\ TypeOK' /\ call[t].pc = "self"
      /\ \/ GoOn(t) /\ UNCHANGED fileLatch
         \/ fileLatch = NoOne /\ StartDisk(t)
  BY FlushBufferIs DEF LogInv
<1>2. UNCHANGED <<buffer, rearLsn, rearSbsn, frontVars, disk, pend, pendLatch, dirty, awaited,
                  cursor, bufferLatch>>
  BY DEF FlushBuffer, logVars, pendVars, worldVars
<1> QED
  BY <1>1, <1>2, StartDiskKeeps, GoOnKeeps

LEMMA WaitForRoomKeeps ==
  ASSUME LogInv, NEW t \in Thread, WaitForRoom(t)
  PROVE  LogInv'
<1>1. TypeOK' /\ Only(t) /\ call[t].pc = "room" /\ call'[t].pc \in {"wait", "self"}
  BY WaitForRoomIs DEF LogInv
<1>2. UNCHANGED <<buffer, rearLsn, rearSbsn, frontVars, disk, pend, pendLatch, dirty, awaited,
                  cursor, bufferLatch, fileLatch>>
  BY DEF WaitForRoom, logVars, pendVars, worldVars
<1>3. FileStep(t)
  BY <1>1, <1>2 DEF FileStep
<1> QED
  BY <1>1, <1>2, <1>3, QuietStep DEF Latched

LEMMA EndWaitKeeps ==
  ASSUME LogInv, NEW t \in Thread, EndWait(t)
  PROVE  LogInv'
<1>1. TypeOK' /\ call[t].pc = "wait" /\ GoOn(t)
  BY EndWaitIs DEF LogInv
<1>2. UNCHANGED <<buffer, rearLsn, rearSbsn, frontVars, disk, pend, pendLatch, dirty, awaited,
                  cursor, bufferLatch, fileLatch>>
  BY DEF EndWait, logVars, pendVars, worldVars
<1> QED
  BY <1>1, <1>2, GoOnKeeps

LEMMA CollectPagesKeeps ==
  ASSUME LogInv, NEW t \in PageWriters, CollectPages(t)
  PROVE  LogInv'
<1>1. /\ t \in Thread /\ TypeOK' /\ Only(t) /\ call[t].pc = "idle" /\ call'[t].pc = "flush"
      /\ dirty' \subseteq dirty
  BY CollectPagesIs, ThreadFacts DEF LogInv
<1>2. UNCHANGED <<buffer, rearLsn, rearSbsn, frontVars, disk, pend, pendLatch, awaited,
                  cursor, bufferLatch, fileLatch>>
  BY DEF CollectPages, logVars, pendVars
<1>3. FileStep(t)
  BY <1>1, <1>2 DEF FileStep
<1> QED
  BY <1>1, <1>2, <1>3, QuietStep DEF Latched

LEMMA BeginFlushKeeps ==
  ASSUME LogInv, NEW t \in Trans \cup PageWriters, BeginFlush(t)
  PROVE  LogInv'
<1>1. /\ t \in Thread /\ TypeOK' /\ Only(t) /\ call[t].pc = "flush"
      /\ call'[t].pc \in {"idle", "io", "join"}
  BY BeginFlushIs, ThreadFacts DEF LogInv, Free
<1>2. UNCHANGED <<buffer, rearLsn, rearSbsn, frontVars, disk, pend, pendLatch, awaited,
                  cursor, bufferLatch, fileLatch, dirty>>
  BY DEF BeginFlush, logVars, pendVars, worldVars
<1>3. FileStep(t)
  BY <1>1, <1>2 DEF FileStep
<1> QED
  BY <1>1, <1>2, <1>3, QuietStep DEF Latched

LEMMA JoinGroupKeeps ==
  ASSUME LogInv, NEW t \in Trans \cup PageWriters, JoinGroup(t)
  PROVE  LogInv'
<1>1. /\ t \in Thread /\ TypeOK' /\ Only(t) /\ call[t].pc \in {"join", "queued"}
      /\ \/ bufferLatch = NoOne /\ bufferLatch' = t /\ call'[t].pc = "group"
         \/ UNCHANGED bufferLatch /\ call'[t].pc \in {"queued", "io"}
  BY JoinGroupIs, ThreadFacts DEF LogInv
<1>2. UNCHANGED <<buffer, rearLsn, rearSbsn, frontVars, disk, pend, pendLatch, awaited,
                  cursor, fileLatch, dirty>>
  BY DEF JoinGroup, logVars, pendVars, worldVars
<1>3. LatchStep(t) /\ FileStep(t)
  BY <1>1, <1>2 DEF LatchStep, FileStep, Latched
<1>4. Settled(t)'
  BY <1>1 DEF Settled
<1> QED
  BY <1>1, <1>2, <1>3, <1>4, PlainStep DEF LogInv, Fresh, PendingOK

LEMMA FlushStreamLogKeeps ==
  ASSUME LogInv, FlushStreamLog
  PROVE  LogInv'
<1>1. /\ TypeOK' /\ Only(Flusher) /\ call[Flusher].pc = "idle"
      /\ fileLatch = NoOne /\ fileLatch' = Flusher /\ frontSbsn < rearSbsn - 1
      /\ call'[Flusher].pc = "disk" /\ call'[Flusher].till = rearSbsn - 1 /\ rearSbsn \in Int
  BY FlushStreamLogIs, TypeIs DEF LogInv
<1>2. UNCHANGED <<buffer, rearLsn, rearSbsn, frontVars, disk, pend, pendLatch, awaited,
                  cursor, bufferLatch, dirty>>
  BY DEF FlushStreamLog, logVars, pendVars, worldVars
<1>3. FileStep(Flusher)
  BY <1>1 DEF FileStep
<1> QED
  BY <1>1, <1>2, <1>3, QuietStep, ThreadFacts DEF Latched

LEMMA BeginFlushAllKeeps ==
  ASSUME LogInv, BeginFlushAll
  PROVE  LogInv'
<1>1. TypeOK' /\ Only(Flusher) /\ call[Flusher].pc = "idle" /\ call'[Flusher].pc = "all"
  BY BeginFlushAllIs DEF LogInv
<1>2. UNCHANGED <<buffer, rearLsn, rearSbsn, frontVars, disk, pend, pendLatch, awaited,
                  cursor, bufferLatch, dirty, fileLatch>>
  BY DEF BeginFlushAll, logVars, pendVars, worldVars
<1>3. FileStep(Flusher)
  BY <1>1, <1>2 DEF FileStep
<1> QED
  BY <1>1, <1>2, <1>3, QuietStep, ThreadFacts DEF Latched

LEMMA ReacquireForCloseKeeps ==
  ASSUME LogInv, ReacquireForClose
  PROVE  LogInv'
<1>1. /\ Flusher \in Thread /\ TypeOK' /\ Only(Flusher) /\ call[Flusher].pc = "reclose"
      /\ bufferLatch = NoOne /\ bufferLatch' = Flusher /\ call'[Flusher].pc = "close"
  BY ReacquireForCloseIs, ThreadFacts DEF LogInv
<1>2. UNCHANGED <<buffer, rearLsn, rearSbsn, frontVars, disk, pend, pendLatch, awaited,
                  cursor, dirty, fileLatch>>
  BY DEF ReacquireForClose, logVars, pendVars, worldVars
<1>3. LatchStep(Flusher) /\ FileStep(Flusher)
  BY <1>1, <1>2 DEF LatchStep, FileStep, Latched
<1>4. Settled(Flusher)'
  BY <1>1 DEF Settled
<1> QED
  BY <1>1, <1>2, <1>3, <1>4, PlainStep DEF LogInv, Fresh, PendingOK

-----------------------------------------------------------------------------
(* The invariant: what the owner of the buffer latch makes sure of. *)

LEMMA CopierIs ==
  ASSUME TypeOK, OwnersOK, NEW p \in Pend, pendLatch[p] # NoOne
  PROVE  /\ pendLatch[p] \in Thread /\ call[pendLatch[p]].pc = "publish"
         /\ call[pendLatch[p]].pc \in Fresh
BY TypeIs DEF OwnersOK, Fresh

LEMMA LsnsAreInts ==
  ASSUME TypeOK, NEW t \in Thread
  PROVE  /\ call[t].my \in Nat /\ call[t].goal \in Nat /\ EndLsn(t) \in Int
         /\ call[t].my < lsn /\ call[t].goal < lsn /\ lsn \in Nat /\ rearLsn \in Nat
         /\ rearLsn < lsn /\ frontLsn \in Nat /\ frontLsn < lsn
<1>1. call[t].my \in 0 .. lsn - 1 /\ call[t].goal \in 0 .. lsn - 1 /\ lsn \in Nat
  BY CallIsTyped, TypeIs DEF CallType
<1>2. EndLsn(t) \in Int
  BY <1>1 DEF EndLsn
<1> QED
  BY <1>1, <1>2, TypeIs

LEMMA PendIsTyped ==
  ASSUME TypeOK, NEW p \in Pend
  PROVE  /\ pend[p] \in Seq(1 .. lsn - 1) /\ Len(pend[p]) \in Nat /\ cursor[p] \in Nat
         /\ \A i \in 1 .. Len(pend[p]) : pend[p][i] \in 1 .. lsn - 1
<1> DEFINE S == 1 .. lsn - 1
<1>1. pend[p] \in Seq(S) /\ cursor[p] \in Nat
  BY TypeIs
<1> HIDE DEF S
<1>2. Len(pend[p]) \in Nat /\ \A i \in 1 .. Len(pend[p]) : pend[p][i] \in S
  BY <1>1
<1> QED
  BY <1>1, <1>2 DEF S

LEMMA CursorIsOK ==
  ASSUME LogInv
  PROVE  CursorOK
BY DEF LogInv, PendingOK, CursorOK

\* The owner of the latch goes on, or gives it up: what it knew of the pending logs is
\* still true while it does.
LEMMA HolderKeeps ==
  ASSUME LogInv, NEW t \in Thread, Only(t), UNCHANGED <<rearLsn, pend, pendLatch>>,
         call[t].pc # "publish", call'[t].pc # "publish",
         call'[t].pc \in Fresh => call[t].pc \in Fresh /\ call'[t].my = call[t].my,
         \A p \in Pend : cursor'[p] <= Len(pend[p])
  PROVE  Pending' = Pending /\ \A p \in Pend : \A l : NewerCopied(p, l)' <=> NewerCopied(p, l)
BY PendingKept DEF LogInv

LEMMA WaitPendingLogKeeps ==
  ASSUME LogInv, NEW t \in Thread, WaitPendingLog(t)
  PROVE  LogInv'
<1>1. /\ TypeOK /\ TypeOK' /\ call[t].pc \in {"writeWait", "flushWait"} /\ Settled(t)
      /\ \A p \in Pend : cursor[p] <= Len(pend[p])
  BY WaitPendingLogIs DEF LogInv, PendingOK
<1>2. UNCHANGED <<buffer, rearLsn, rearSbsn, frontVars, disk, pend, pendLatch,
                  dirty, fileLatch, bufferLatch>>
  BY DEF WaitPendingLog, logVars, worldVars
<1>3. ASSUME NEW p \in awaited, pendLatch[p] = NoOne, awaited' = awaited \ {p},
             UNCHANGED <<cursor, call>>
      PROVE  LogInv'
  <2>1. Only(t)
    BY <1>1, <1>3, TypeIs DEF Only
  <2>2. LatchStep(t) /\ FileStep(t) /\ call[t].pc # "publish" /\ call[t].pc # "disk"
    BY <1>1, <1>2, <1>3 DEF LatchStep, FileStep
  <2>3. \A q \in Pend : \A l : NewerCopied(q, l)' <=> NewerCopied(q, l)
    BY <1>2, <1>3 DEF NewerCopied
  <2>4. EndLsn(t)' = EndLsn(t)
    BY <1>3 DEF EndLsn, Writing
  <2>5. Settled(t)'
    BY <1>1, <1>3, <2>3, <2>4 DEF Settled, NewerCopied
  <2> QED
    BY <1>1, <1>2, <1>3, <2>1, <2>2, <2>5, PlainStep DEF Latched
<1>4. ASSUME awaited = {}, UNCHANGED awaited, cursor' = [p \in Pend |-> Len(pend[p])],
             Only(t), KeepsLog(t), call'[t].pc = IF Writing(t) THEN "writeApply" ELSE "flushApply"
      PROVE  LogInv'
  <2>1. /\ call[t].pc # "publish" /\ call'[t].pc \notin {"publish", "disk"} /\ call[t].pc # "disk"
        /\ call'[t].pc \in Fresh => call[t].pc \in Fresh /\ call'[t].my = call[t].my
        /\ call'[t].pc \in Latched /\ call[t].pc \in Latched
    BY <1>1, <1>4 DEF KeepsLog, Fresh, Writing, Latched
  <2>2. \A p \in Pend : cursor'[p] = Len(pend[p]) /\ Len(pend[p]) \in Nat
    BY <1>1, <1>4, PendIsTyped
  <2>3. \A q \in Pend : \A l : NewerCopied(q, l)' <=> NewerCopied(q, l)
    BY <1>2, <1>4, <2>1, <2>2, HolderKeeps
  <2>4. EndLsn(t)' = EndLsn(t) /\ call'[t].pc # "put"
    BY <1>1, <1>4 DEF EndLsn, Writing, KeepsLog
  <2>5. Settled(t)'
    <3>1. \A p \in Pend : NewerCopied(p, EndLsn(t))'
      BY <1>1, <1>4, <2>3, <2>4 DEF Settled
    <3>2. \A p \in Pend : cursor'[p] + 1 .. Len(pend'[p]) = {}
      BY <1>2, <2>2
    <3> QED
      BY <1>4, <2>4, <3>1, <3>2 DEF Settled
  <2>6. LatchStep(t) /\ FileStep(t)
    BY <1>2, <2>1 DEF LatchStep, FileStep
  <2> QED
    BY <1>1, <1>2, <1>4, <2>1, <2>2, <2>5, <2>6, PlainStep
<1> QED
  BY <1>1, <1>3, <1>4, WaitPendingLogIs

\* When nothing is readable for t, nothing up to its LSN is pending.
LEMMA NothingReadable ==
  ASSUME LogInv, NEW t \in Thread, call[t].pc \in {"writeApply", "flushApply"}, Readable(t) = {}
  PROVE  \A l \in Pending : l > EndLsn(t)
<1>1. TypeOK /\ OwnersOK /\ CursorOK /\ Settled(t) /\ PendingIsNewer
  BY CursorIsOK DEF LogInv, PendingOK
<1>2. ASSUME NEW p \in Pend, NEW i \in 1 .. Len(pend[p]) PROVE pend[p][i] > EndLsn(t)
  <2>1. CASE cursor[p] > 0
    <3>1. Head(pend[p]) = pend[p][1] /\ pend[p][1] \in Int /\ 1 \in 1 .. Len(pend[p])
      BY <1>1, <2>1, HeadIs
    <3>2. ~(pend[p][1] <= EndLsn(t))
      BY <2>1, <3>1 DEF Readable
    <3>3. i = 1 \/ pend[p][1] < pend[p][i]
      BY <1>1, <3>1 DEF PendingIsNewer
    <3>4. EndLsn(t) \in Int /\ pend[p][i] \in Int
      BY <1>1, LsnsAreInts, PendIsTyped
    <3> QED
      BY <3>1, <3>2, <3>3, <3>4
  <2>2. CASE ~(cursor[p] > 0)
    <3>1. cursor[p] = 0 /\ i \in cursor[p] + 1 .. Len(pend[p])
      BY <1>1, <2>2, PendIsTyped
    <3> QED
      BY <1>1, <3>1 DEF Settled
  <2> QED
    BY <2>1, <2>2
<1>3. ASSUME NEW u \in Thread, call[u].pc = "publish" PROVE call[u].my > EndLsn(t)
  <2>1. PICK p \in Pend : pendLatch[p] = u
    BY <1>1, <1>3 DEF OwnersOK
  <2> QED
    BY <1>1, <2>1, ThreadFacts DEF Settled, NewerCopied
<1> QED
  BY <1>2, <1>3, PendingIs

LEMMA PendingLogsAppliedKeeps ==
  ASSUME LogInv, NEW t \in Thread, PendingLogsApplied(t)
  PROVE  LogInv'
<1>1. /\ TypeOK /\ TypeOK' /\ Only(t) /\ KeepsLog(t) /\ Readable(t) = {}
      /\ call[t].pc \in {"writeApply", "flushApply"} /\ cursor' = [q \in Pend |-> 0]
      /\ call'[t].pc = IF Writing(t) THEN "put" ELSE "close"
  BY PendingLogsAppliedIs DEF LogInv
<1>2. UNCHANGED <<buffer, rearLsn, rearSbsn, frontVars, disk, pend, pendLatch,
                  dirty, fileLatch, bufferLatch>>
  BY DEF PendingLogsApplied, logVars, worldVars
<1>3. /\ call[t].pc \notin {"publish", "disk"} /\ call'[t].pc \notin {"publish", "disk"}
      /\ call'[t].pc \in Fresh => call[t].pc \in Fresh /\ call'[t].my = call[t].my
      /\ call'[t].pc \in Latched /\ call[t].pc \in Latched
  BY <1>1 DEF KeepsLog, Fresh, Writing, Latched
<1>4. \A p \in Pend : cursor'[p] <= Len(pend[p])
  BY <1>1, PendIsTyped
<1>5. Pending' = Pending
  BY <1>1, <1>2, <1>3, <1>4, HolderKeeps
<1>6. Settled(t)'
  <2>1. CASE Writing(t)
    <3>1. \A l \in Pending : l >= call[t].my
      <4>1. EndLsn(t) = call[t].my - 1 /\ call[t].my \in Int
        BY <1>1, <2>1, LsnsAreInts DEF EndLsn
      <4>2. \A l \in Pending : l \in Int
        BY <1>1, PendingIs, PendIsTyped, LsnsAreInts
      <4> QED
        BY <1>1, <4>1, <4>2, NothingReadable
    <3> QED
      BY <1>1, <1>5, <2>1, <3>1 DEF Settled, KeepsLog
  <2>2. CASE ~Writing(t)
    BY <1>1, <2>2 DEF Settled
  <2> QED
    BY <2>1, <2>2
<1>7. LatchStep(t) /\ FileStep(t)
  BY <1>2, <1>3 DEF LatchStep, FileStep
<1> QED
  BY <1>1, <1>2, <1>3, <1>4, <1>6, <1>7, PlainStep

LEMMA DriveGroupKeeps ==
  ASSUME LogInv, NEW t \in Trans \cup PageWriters, DriveGroup(t)
  PROVE  LogInv'
<1>1. /\ t \in Thread /\ TypeOK /\ TypeOK' /\ Only(t) /\ call[t].pc = "group"
      /\ \/ bufferLatch' = NoOne /\ call'[t] = Free /\ UNCHANGED awaited
         \/ /\ UNCHANGED bufferLatch /\ call'[t].pc = "flushWait" /\ KeepsLog(t)
            /\ awaited' = IF call[t].goal > rearLsn THEN Pend ELSE {}
  BY DriveGroupIs, ThreadFacts DEF LogInv
<1>2. UNCHANGED <<buffer, rearLsn, rearSbsn, frontVars, disk, pend, pendLatch,
                  dirty, fileLatch, cursor>>
  BY DEF DriveGroup, logVars, worldVars
<1>3. /\ call'[t].pc \in {"idle", "flushWait"} /\ call'[t].pc \notin Fresh
      /\ call'[t].pc # "publish" /\ call[t].pc # "publish" /\ call[t].pc \in Latched
  BY <1>1 DEF Free, Fresh, Latched
<1>4. \A p \in Pend : cursor'[p] <= Len(pend[p])
  BY <1>2 DEF LogInv, PendingOK
<1>5. Settled(t)'
  <2>1. CASE call'[t].pc = "flushWait"
    <3>1. EndLsn(t)' = call[t].goal /\ awaited' = IF call[t].goal > rearLsn THEN Pend ELSE {}
      BY <1>1, <2>1 DEF EndLsn, Writing, KeepsLog, Free
    <3>2. ASSUME NEW p \in Pend \ awaited' PROVE NewerCopied(p, call[t].goal)
      <4> SUFFICES ASSUME pendLatch[p] # NoOne PROVE call[pendLatch[p]].my > call[t].goal
        BY DEF NewerCopied
      <4>1. pendLatch[p] \in Thread /\ call[pendLatch[p]].my > rearLsn
        BY CopierIs DEF LogInv, PendingOK
      <4>2. ~(call[t].goal > rearLsn)
        BY <3>1, <3>2
      <4> QED
        BY <1>1, <4>1, <4>2, LsnsAreInts
    <3>3. \A p \in Pend : \A l : NewerCopied(p, l)' <=> NewerCopied(p, l)
      BY <1>1, <1>2, <1>3, <1>4, HolderKeeps
    <3> QED
      BY <2>1, <3>1, <3>2, <3>3 DEF Settled
  <2>2. CASE call'[t].pc = "idle"
    BY <2>2 DEF Settled
  <2> QED
    BY <1>3, <2>1, <2>2
<1>6. LatchStep(t) /\ FileStep(t)
  BY <1>1, <1>2, <1>3 DEF LatchStep, FileStep, Latched, Free
<1> QED
  BY <1>1, <1>2, <1>3, <1>4, <1>5, <1>6, PlainStep

LEMMA FlushAllLogsKeeps ==
  ASSUME LogInv, FlushAllLogs
  PROVE  LogInv'
<1>1. /\ Flusher \in Thread /\ TypeOK' /\ Only(Flusher) /\ call[Flusher].pc = "all"
      /\ bufferLatch = NoOne /\ bufferLatch' = Flusher
      /\ call'[Flusher].pc = "flushWait" /\ awaited' = Pend
  BY FlushAllLogsIs, ThreadFacts DEF LogInv
<1>2. UNCHANGED <<buffer, rearLsn, rearSbsn, frontVars, disk, pend, pendLatch,
                  cursor, dirty, fileLatch>>
  BY DEF FlushAllLogs, logVars, worldVars
<1>3. LatchStep(Flusher) /\ FileStep(Flusher)
  BY <1>1, <1>2 DEF LatchStep, FileStep, Latched
<1>4. Settled(Flusher)'
  BY <1>1 DEF Settled
<1>5. call'[Flusher].pc \in Latched /\ call'[Flusher].pc \notin Fresh
  BY <1>1 DEF Latched, Fresh
<1>6. \A p \in Pend : cursor'[p] <= Len(pend[p])
  BY <1>2 DEF LogInv, PendingOK
<1> QED
  BY <1>1, <1>2, <1>3, <1>4, <1>5, <1>6, PlainStep

\* A block is switched: the rear block is used, so no block is left out, and the buffer
\* is not full, so the rear does not come round.
LEMMA CloseBlockKeeps ==
  ASSUME LogInv, NEW t \in Thread, CloseBlock(t)
  PROVE  LogInv'
<1>1. /\ TypeOK /\ TypeOK' /\ Only(t) /\ call[t].pc = "close" /\ bufferLatch' = NoOne
      /\ call'[t].pc \in {"self", "io"} /\ rearSbsn' \in {rearSbsn, SwitchedRear}
  BY CloseBlockIs DEF LogInv
<1>2. UNCHANGED <<buffer, rearLsn, frontVars, disk, pend, pendLatch,
                  dirty, fileLatch, cursor, awaited>>
  BY DEF CloseBlock, pendVars, worldVars
<1>3. /\ rearSbsn \in Nat /\ frontSbsn \in Int /\ Room \in Nat
      /\ rearSbsn' = rearSbsn \/ (rearSbsn' = rearSbsn + 1 /\ RearUsed)
  BY <1>1, SwitchedRearIs, TypeIs, ThreadFacts
<1>4. \A r \in buffer : r.first \in Nat /\ r.last \in Nat
  BY <1>1, TypeIs
<1>5. CASE rearSbsn' = rearSbsn
  <2>1. LatchStep(t) /\ FileStep(t) /\ Settled(t)'
    BY <1>1, <1>2 DEF LatchStep, FileStep, Latched, Settled
  <2>2. call'[t].pc \notin Fresh /\ call[t].pc \in Latched
    BY <1>1 DEF Fresh, Latched
  <2> QED
    BY <1>1, <1>2, <1>5, <2>1, <2>2, PlainStep DEF LogInv, PendingOK
<1>6. CASE rearSbsn' = rearSbsn + 1 /\ RearUsed
  <2>1. PICK r \in buffer : r.last = rearSbsn
    BY <1>6 DEF RearUsed
  <2>2. r.first <= r.last /\ r.last - frontSbsn < Room
    BY DEF LogInv, BufferOK
  <2>3. BufferOK'
    <3>1. \A q \in buffer : /\ q.first <= q.last /\ q.last <= rearSbsn + 1
                            /\ q.lsn <= rearLsn /\ q.last - frontSbsn < Room
      BY <1>3, <1>4 DEF LogInv, BufferOK
    <3>2. \A b \in 0 .. rearSbsn' - 1 : \E q \in buffer : q.first <= b /\ b <= q.last
      <4> TAKE b \in 0 .. rearSbsn' - 1
      <4>1. b \in 0 .. rearSbsn - 1 \/ b = rearSbsn
        BY <1>3, <1>6
      <4> QED
        BY <2>1, <2>2, <4>1 DEF LogInv, BufferOK
    <3>3. \A d \in dirty : d.sbsn <= rearSbsn + 1
      <4> TAKE d \in dirty
      <4>1. d.sbsn \in Int /\ d.sbsn <= rearSbsn
        BY <1>1, TypeIs DEF LogInv, BufferOK, InvalidSbsn
      <4> QED
        BY <1>3, <4>1
    <3> QED
      BY <1>2, <1>6, <3>1, <3>2, <3>3 DEF LogInv, BufferOK, frontVars
  <2>4. FrontOK'
    <3>1. frontSbsn < rearSbsn + 1 /\ rearSbsn + 1 - frontSbsn <= Room + 1
      BY <1>3, <2>1, <2>2 DEF LogInv, FrontOK, FrontBelowRear
    <3>2. \A u \in Thread : call'[u].pc = "disk" =>
             frontSbsn < call'[u].till /\ call'[u].till < rearSbsn + 1
      <4> TAKE u \in Thread
      <4> HAVE call'[u].pc = "disk"
      <4>1. u # t /\ call'[u] = call[u]
        BY <1>1, OthersKept
      <4>2. call[u].till \in Nat \cup {InvalidSbsn, Unbounded}
        BY <1>1, CallIsTyped DEF CallType
      <4>3. frontSbsn < call[u].till /\ call[u].till < rearSbsn
        BY <4>1 DEF LogInv, FrontOK
      <4> QED
        BY <1>3, <4>1, <4>2, <4>3 DEF InvalidSbsn, Unbounded
    <3>3. frontLsn <= rearLsn /\ \A q \in buffer : q.lsn <= frontLsn => q.last <= frontSbsn
      BY DEF LogInv, FrontOK
    <3>4. FrontBelowRear'
      <4>1. frontSbsn' = frontSbsn
        BY <1>2 DEF frontVars
      <4>2. frontSbsn' < rearSbsn' /\ rearSbsn' - frontSbsn' <= Room + 1
        BY <1>3, <1>6, <3>1, <4>1
      <4> QED
        BY <4>2 DEF FrontBelowRear
    <3> QED
      BY <1>2, <1>6, <3>2, <3>3, <3>4 DEF FrontOK, frontVars
  <2>5. OwnersOK'
    <3>1. LatchStep(t) /\ FileStep(t)
      BY <1>1, <1>2 DEF LatchStep, FileStep, Latched
    <3> QED
      BY <1>1, <1>2, <3>1, OwnersKept DEF LogInv
  <2>6. /\ PendingOK' /\ Pending' = Pending
        /\ \A p \in Pend : \A l : NewerCopied(p, l)' <=> NewerCopied(p, l)
    BY <1>1, <1>2, PendingKept DEF LogInv, Fresh, PendingOK
  <2>7. \A u \in Thread : Settled(u)'
    <3>1. Settled(t)'
      BY <1>1 DEF Settled
    <3> QED
      BY <1>1, <1>2, <2>5, <2>6, <3>1, SettledKept DEF LogInv
  <2> QED
    BY <1>1, <2>3, <2>4, <2>5, <2>6, <2>7 DEF LogInv
<1> QED
  BY <1>3, <1>5, <1>6

-----------------------------------------------------------------------------
(* The invariant: LSNs are given out, and logs move. *)

LEMMA PendingLsns ==
  ASSUME TypeOK, NEW l \in Pending
  PROVE  l \in Nat /\ l < lsn
<1>1. CASE \E p \in Pend : \E i \in 1 .. Len(pend[p]) : l = pend[p][i]
  <2>1. l \in 1 .. lsn - 1
    BY <1>1, PendIsTyped
  <2> QED
    BY <2>1, TypeIs
<1>2. CASE \E t \in Thread : call[t].pc = "publish" /\ l = call[t].my
  BY <1>2, LsnsAreInts
<1> QED
  BY <1>1, <1>2, PendingIs

LEMMA PublishedLsns ==
  ASSUME TypeOK, NEW l \in Published
  PROVE  l \in Pending /\ l \in Nat /\ l < lsn
BY PendingLsns DEF Pending

\* An LSN is taken under the latch of a pending buffer: it is newer than all that is
\* pending, and than all that the owner of the buffer latch waits for.
LEMMA TakesPendingLsn ==
  ASSUME LogInv, NEW t \in Thread, TypeOK', Only(t), NEW p \in Pend, pendLatch[p] = NoOne,
         pendLatch' = [pendLatch EXCEPT ![p] = t], lsn' = lsn + 1,
         call[t].pc = "pend", call'[t].pc = "publish", call'[t].my = lsn,
         UNCHANGED <<buffer, rearLsn, rearSbsn, frontVars, disk, dirty, bufferLatch, fileLatch,
                     pend, awaited, cursor>>
  PROVE  LogInv'
<1>1. TypeOK /\ OwnersOK /\ BufferOK /\ FrontOK /\ PendingOK /\ \A u \in Thread : Settled(u)
  BY DEF LogInv
<1>2. \A u \in Thread \ {t} : call'[u] = call[u]
  BY <1>1, OthersKept
<1>3. pendLatch'[p] = t /\ \A q \in Pend \ {p} : pendLatch'[q] = pendLatch[q]
  BY <1>1, TypeIs
<1>4. \A q \in Pend : pendLatch[q] # NoOne =>
        /\ pendLatch[q] \in Thread /\ call[pendLatch[q]].pc = "publish"
        /\ q # p /\ pendLatch[q] # t /\ pendLatch'[q] = pendLatch[q]
        /\ call'[pendLatch[q]] = call[pendLatch[q]]
  BY <1>1, <1>2, <1>3, CopierIs
<1>5. OwnersOK'
  <2>1. \A u \in Thread : call'[u].pc \in Latched <=> bufferLatch' = u
    BY <1>1, <1>2 DEF OwnersOK, Latched
  <2>2. \A u \in Thread : call'[u].pc = "disk" <=> fileLatch' = u
    BY <1>1, <1>2 DEF OwnersOK
  <2>3. \A q \in Pend : pendLatch'[q] # NoOne => call'[pendLatch'[q]].pc = "publish"
    BY <1>3, <1>4
  <2>4. \A u \in Thread : call'[u].pc = "publish" => \E q \in Pend : pendLatch'[q] = u
    <3> TAKE u \in Thread
    <3> HAVE call'[u].pc = "publish"
    <3>1. CASE u = t
      BY <1>3, <3>1
    <3>2. CASE u # t
      <4>1. PICK q \in Pend : pendLatch[q] = u
        BY <1>1, <1>2, <3>2 DEF OwnersOK
      <4> QED
        BY <1>4, <4>1, ThreadFacts
    <3> QED
      BY <3>1, <3>2
  <2>5. \A q, w \in Pend : pendLatch'[q] # NoOne /\ pendLatch'[q] = pendLatch'[w] => q = w
    <3> TAKE q, w \in Pend
    <3> HAVE pendLatch'[q] # NoOne /\ pendLatch'[q] = pendLatch'[w]
    <3>1. \A v \in Pend : pendLatch'[v] = t => v = p
      <4> TAKE v \in Pend
      <4> HAVE pendLatch'[v] = t
      <4> SUFFICES ASSUME v # p PROVE FALSE
        OBVIOUS
      <4>1. pendLatch[v] = t
        BY <1>3
      <4> QED
        BY <1>4, <4>1, ThreadFacts
    <3>2. CASE pendLatch'[q] = t
      BY <3>1, <3>2
    <3>3. CASE pendLatch'[q] # t
      <4>1. q # p /\ w # p /\ pendLatch[q] = pendLatch[w] /\ pendLatch[q] # NoOne
        BY <1>3, <3>3
      <4> QED
        BY <1>1, <4>1 DEF OwnersOK
    <3> QED
      BY <3>2, <3>3
  <2> QED
    BY <2>1, <2>2, <2>3, <2>4, <2>5 DEF OwnersOK
<1>6. BufferOK' /\ FrontOK'
  BY <1>1, BufferKept, FrontKept DEF frontVars
<1>7. Published' = Published
  BY DEF Published
<1>8. \A l \in Pending' : l \in Pending \/ l = lsn
  BY <1>2, <1>7 DEF Pending, At
<1>9. lsn \in Nat /\ \A l \in Pending : l \in Nat /\ l < lsn
  BY <1>1, TypeIs, PendingLsns
<1>10. PendingOK'
  <2>1. PendingIsNewer'
    BY <1>1, <1>8, LsnsAreInts DEF PendingOK, PendingIsNewer
  <2>2. \A q \in Pend : pendLatch'[q] # NoOne =>
          \A i \in 1 .. Len(pend'[q]) : pend'[q][i] < call'[pendLatch'[q]].my
    <3>1. \A i \in 1 .. Len(pend[p]) : pend[p][i] < lsn
      BY <1>9, PendingIs
    <3>2. \A q \in Pend \ {p} : pendLatch[q] # NoOne =>
             \A i \in 1 .. Len(pend[q]) : pend[q][i] < call'[pendLatch[q]].my
      BY <1>1, <1>4 DEF PendingOK
    <3> QED
      BY <1>3, <3>1, <3>2
  <2>3. \A u \in Thread : call'[u].pc \in Fresh =>
          call'[u].my \notin Published' /\ call'[u].my > rearLsn'
    <3>1. lsn \notin Published /\ lsn > rearLsn
      BY <1>1, <1>9, PublishedLsns, LsnsAreInts
    <3> QED
      BY <1>1, <1>2, <1>7, <3>1 DEF PendingOK
  <2>4. \A u, w \in Thread :
          call'[u].pc \in Fresh /\ call'[w].pc \in Fresh /\ call'[u].my = call'[w].my => u = w
    <3>1. \A u \in Thread \ {t} : call'[u].my = call[u].my /\ call[u].my < lsn /\ call[u].my \in Nat
      BY <1>1, <1>2, LsnsAreInts
    <3> QED
      BY <1>1, <1>2, <1>9, <3>1 DEF PendingOK
  <2> QED
    BY <1>1, <2>1, <2>2, <2>3, <2>4 DEF PendingOK
<1>11. ASSUME NEW u \in Thread PROVE Settled(u)'
  <2>1. CASE u = t
    BY <2>1 DEF Settled
  <2>2. CASE u # t
    <3>1. call'[u] = call[u] /\ EndLsn(u)' = EndLsn(u) /\ EndLsn(u) \in Int /\ EndLsn(u) < lsn
      <4>1. call'[u] = call[u]
        BY <1>2, <2>2
      <4>2. EndLsn(u)' = EndLsn(u)
        BY <4>1 DEF EndLsn, Writing
      <4>3. EndLsn(u) \in Int /\ EndLsn(u) < lsn
        BY <1>1, LsnsAreInts DEF EndLsn
      <4> QED
        BY <4>1, <4>2, <4>3
    <3>2. \A q \in Pend : NewerCopied(q, EndLsn(u)) => NewerCopied(q, EndLsn(u))'
      <4>1. NewerCopied(p, EndLsn(u))'
        BY <1>3, <3>1, <1>9 DEF NewerCopied
      <4>2. \A q \in Pend \ {p} : NewerCopied(q, EndLsn(u)) => NewerCopied(q, EndLsn(u))'
        BY <1>3, <1>4, <3>1 DEF NewerCopied
      <4> QED
        BY <4>1, <4>2
    <3>3. call[u].my < lsn /\ call[u].my \in Nat
      BY <1>1, LsnsAreInts
    <3>4. Settled(u)
      BY <1>1
    <3>5. call[u].pc = "put" => \A l \in Pending' : l >= call[u].my
      BY <1>8, <1>9, <3>3, <3>4 DEF Settled
    <3> QED
      BY <3>1, <3>2, <3>4, <3>5 DEF Settled
  <2> QED
    BY <2>1, <2>2
<1> QED
  BY <1>5, <1>6, <1>10, <1>11 DEF LogInv

LEMMA BeginPendingLogKeeps ==
  ASSUME LogInv, NEW t \in Trans, BeginPendingLog(t)
  PROVE  LogInv'
<1>1. /\ t \in Thread /\ TypeOK' /\ Only(t) /\ call[t].pc = "pend"
      /\ \/ /\ \E p \in Pend : Usable(p) /\ pendLatch' = [pendLatch EXCEPT ![p] = t]
            /\ lsn' = lsn + 1 /\ call'[t].pc = "publish" /\ call'[t].my = lsn
         \/ UNCHANGED <<lsn, pendLatch>> /\ call'[t].pc = "latch"
  BY BeginPendingLogIs, ThreadFacts DEF LogInv
<1>2. UNCHANGED <<buffer, rearLsn, rearSbsn, frontVars, disk, dirty, bufferLatch, fileLatch,
                  pend, awaited, cursor>>
  BY DEF BeginPendingLog, worldVars
<1>3. CASE UNCHANGED pendLatch /\ call'[t].pc = "latch"
  <2>1. FileStep(t)
    BY <1>1, <1>2, <1>3 DEF FileStep
  <2> QED
    BY <1>1, <1>2, <1>3, <2>1, QuietStep DEF Latched
<1> QED
  BY <1>1, <1>2, <1>3, TakesPendingLsn DEF Usable

\* The copied log is published: it was pending before, and whoever waited for its
\* pending buffer knew that it is newer.
LEMMA PublishPendingLogKeeps ==
  ASSUME LogInv, NEW t \in Trans, PublishPendingLog(t)
  PROVE  /\ LogInv' /\ Published' = Published \cup {call[t].my}
         /\ UNCHANGED <<buffer, frontVars, disk>>
         /\ call[t].my \in Nat /\ call[t].my > rearLsn
<1>1. TypeOK /\ OwnersOK /\ BufferOK /\ FrontOK /\ PendingOK /\ \A u \in Thread : Settled(u)
  BY DEF LogInv
<1> DEFINE m == call[t].my
<1>2. t \in Thread /\ call[t].pc = "publish" /\ m \in Nat /\ m < lsn /\ m > rearLsn /\ m > 0
      /\ m \notin Published
  <2>1. t \in Thread /\ call[t].pc = "publish"
    BY ThreadFacts DEF PublishPendingLog, At
  <2> QED
    BY <1>1, <2>1, LsnsAreInts DEF PendingOK, Fresh
<1>3. /\ TypeOK' /\ Only(t) /\ Written(t, InvalidSbsn) /\ call'[t].pc \in {"flush", "idle"}
  BY <1>1, <1>2, PublishPendingLogIs
<1>4. PICK p \in Pend : /\ pendLatch[p] = t
                        /\ pend' = [pend EXCEPT ![p] = Append(@, m)]
                        /\ pendLatch' = [pendLatch EXCEPT ![p] = NoOne]
  BY <1>1, <1>2, PublishPendingLogIs
<1>5. /\ UNCHANGED <<lsn, buffer, rearLsn, rearSbsn, frontVars, bufferLatch, fileLatch, awaited,
                     cursor, disk>>
      /\ \A d \in dirty' : d \in dirty \/ d.sbsn = InvalidSbsn
  <2>1. UNCHANGED <<lsn, buffer, rearLsn, rearSbsn, frontVars, bufferLatch, fileLatch, awaited,
                    cursor>>
    BY DEF PublishPendingLog, logVars
  <2>2. InvalidSbsn \in Nat \cup {InvalidSbsn}
    OBVIOUS
  <2>3. \/ UNCHANGED <<disk, dirty>>
        \/ /\ dirty' \in {dirty, dirty \cup {[lsn |-> call[t].my, sbsn |-> InvalidSbsn]}}
           /\ UNCHANGED disk
    BY <1>1, <1>2, <1>3, <2>2, WrittenIs
  <2>4. \A d \in dirty' : d \in dirty \/ d.sbsn = InvalidSbsn
    BY <2>3
  <2> QED
    BY <2>1, <2>3, <2>4
<1> HIDE DEF m
<1>6. \A u \in Thread \ {t} : call'[u] = call[u]
  BY <1>1, <1>2, <1>3, OthersKept
<1>7. pendLatch'[p] = NoOne /\ \A q \in Pend \ {p} : pendLatch'[q] = pendLatch[q]
  BY <1>1, <1>4, TypeIs
<1>8. \A q \in Pend : pendLatch'[q] # NoOne =>
        /\ q # p /\ pendLatch'[q] = pendLatch[q] /\ pendLatch[q] \in Thread \ {t}
        /\ call[pendLatch[q]].pc = "publish" /\ call'[pendLatch[q]] = call[pendLatch[q]]
  <2> TAKE q \in Pend
  <2> HAVE pendLatch'[q] # NoOne
  <2>1. q # p /\ pendLatch'[q] = pendLatch[q]
    BY <1>7
  <2>2. pendLatch[q] # t
    BY <1>1, <1>4, <2>1, ThreadFacts DEF OwnersOK
  <2> QED
    BY <1>1, <1>6, <2>1, <2>2, CopierIs
<1>9. /\ \A q \in Pend \ {p} : pend'[q] = pend[q]
      /\ Len(pend[p]) \in Nat /\ Len(pend'[p]) = Len(pend[p]) + 1
      /\ \A i \in 1 .. Len(pend[p]) : pend'[p][i] = pend[p][i]
      /\ pend'[p][Len(pend[p]) + 1] = m
      /\ \A i \in 1 .. Len(pend'[p]) : i \in 1 .. Len(pend[p]) \/ i = Len(pend[p]) + 1
  <2>1. pend'[p] = Append(pend[p], m) /\ \A q \in Pend \ {p} : pend'[q] = pend[q]
    BY <1>1, <1>4, TypeIs
  <2> DEFINE S == 1 .. lsn - 1
  <2>2. pend[p] \in Seq(S) /\ m \in S
    BY <1>1, <1>2, TypeIs
  <2> HIDE DEF S
  <2> QED
    BY <2>1, <2>2, AppendIs
<1>10. Published' = Published \cup {m}
  <2>1. \A l \in Published' : l \in Published \/ l = m
    <3> TAKE l \in Published'
    <3>1. PICK q \in Pend : \E i \in 1 .. Len(pend'[q]) : l = pend'[q][i]
      BY DEF Published
    <3>2. CASE q = p
      BY <1>9, <3>1, <3>2, PublishedIs
    <3>3. CASE q # p
      BY <1>9, <3>1, <3>3, PublishedIs
    <3> QED
      BY <3>2, <3>3
  <2>2. \A q \in Pend : \A i \in 1 .. Len(pend[q]) : pend[q][i] \in Published'
    <3> TAKE q \in Pend
    <3> TAKE i \in 1 .. Len(pend[q])
    <3>1. i \in 1 .. Len(pend'[q]) /\ pend'[q][i] = pend[q][i]
      BY <1>9
    <3> QED
      BY <3>1 DEF Published
  <2>3. \A l \in Published : l \in Published'
    BY <2>2, PublishedIs
  <2>4. m \in Published'
    <3>1. Len(pend[p]) + 1 \in 1 .. Len(pend'[p])
      BY <1>9
    <3>2. pend'[p][Len(pend[p]) + 1] \in Published'
      BY <3>1 DEF Published
    <3> QED
      BY <1>9, <3>2
  <2> QED
    BY <2>1, <2>3, <2>4
<1>11. Pending' = Pending
  <2>1. \A l : l \in Pending' <=> l \in Published' \/ \E u \in Thread : call'[u].pc = "publish" /\ l = call'[u].my
    BY DEF Pending, At
  <2>2. \A l : l \in Pending <=> l \in Published \/ \E u \in Thread : call[u].pc = "publish" /\ l = call[u].my
    BY DEF Pending, At
  <2>3. \A l : (\E u \in Thread : call[u].pc = "publish" /\ l = call[u].my)
               <=> l = m \/ \E u \in Thread \ {t} : call[u].pc = "publish" /\ l = call[u].my
    BY <1>2 DEF m
  <2>4. \A l : (\E u \in Thread : call'[u].pc = "publish" /\ l = call'[u].my)
               <=> \E u \in Thread \ {t} : call[u].pc = "publish" /\ l = call[u].my
    BY <1>3, <1>6
  <2>5. \A l : l \in Pending' <=> l \in Pending
    BY <1>10, <2>1, <2>2, <2>3, <2>4
  <2> QED
    BY <2>5
<1>12. OwnersOK'
  <2>1. \A u \in Thread : call'[u].pc \in Latched <=> bufferLatch' = u
    BY <1>1, <1>2, <1>3, <1>5, <1>6 DEF OwnersOK, Latched
  <2>2. \A u \in Thread : call'[u].pc = "disk" <=> fileLatch' = u
    BY <1>1, <1>2, <1>3, <1>5, <1>6 DEF OwnersOK
  <2>3. \A q \in Pend : pendLatch'[q] # NoOne => call'[pendLatch'[q]].pc = "publish"
    BY <1>8
  <2>4. \A u \in Thread : call'[u].pc = "publish" => \E q \in Pend : pendLatch'[q] = u
    <3> TAKE u \in Thread
    <3> HAVE call'[u].pc = "publish"
    <3>1. u # t /\ call[u].pc = "publish"
      BY <1>3, <1>6
    <3>2. PICK q \in Pend : pendLatch[q] = u
      BY <1>1, <3>1 DEF OwnersOK
    <3> QED
      BY <1>4, <1>7, <3>1, <3>2
  <2>5. \A q, w \in Pend : pendLatch'[q] # NoOne /\ pendLatch'[q] = pendLatch'[w] => q = w
    BY <1>1, <1>8 DEF OwnersOK
  <2> QED
    BY <2>1, <2>2, <2>3, <2>4, <2>5 DEF OwnersOK
<1>13. BufferOK'
  <2>1. \A d \in dirty' : d.sbsn <= rearSbsn
    BY <1>1, <1>5, TypeIs DEF BufferOK, InvalidSbsn
  <2> QED
    BY <1>1, <1>5, <2>1 DEF BufferOK, frontVars
<1>14. FrontOK'
  BY <1>1, <1>2, <1>3, <1>5, FrontKept
<1>15. PendingOK'
  <2>1. \A i \in 1 .. Len(pend[p]) : pend[p][i] < m
    BY <1>1, <1>2, <1>4, ThreadFacts DEF PendingOK, m
  <2>2. PendingIsNewer'
    <3>1. \A l \in Pending' : l > rearLsn'
      BY <1>1, <1>5, <1>11 DEF PendingOK, PendingIsNewer
    <3>2. \A q \in Pend : \A i, j \in 1 .. Len(pend'[q]) : i < j => pend'[q][i] < pend'[q][j]
      <4> TAKE q \in Pend
      <4>1. CASE q = p
        <5>1. \A i, j \in 1 .. Len(pend[p]) : i < j => pend[p][i] < pend[p][j]
          BY <1>1 DEF PendingOK, PendingIsNewer
        <5> TAKE i, j \in 1 .. Len(pend'[q])
        <5> HAVE i < j
        <5>2. i \in 1 .. Len(pend[p])
          BY <1>9, <4>1
        <5>3. CASE j = Len(pend[p]) + 1
          BY <1>9, <2>1, <4>1, <5>2, <5>3
        <5>4. CASE j \in 1 .. Len(pend[p])
          BY <1>9, <4>1, <5>1, <5>2, <5>4
        <5> QED
          BY <1>9, <4>1, <5>3, <5>4
      <4>2. CASE q # p
        BY <1>1, <1>9, <4>2 DEF PendingOK, PendingIsNewer
      <4> QED
        BY <4>1, <4>2
    <3> QED
      BY <3>1, <3>2 DEF PendingIsNewer
  <2>3. \A q, w \in Pend : \A i \in 1 .. Len(pend'[q]), j \in 1 .. Len(pend'[w]) :
          pend'[q][i] = pend'[w][j] => q = w
    <3>1. \A q \in Pend : \A i \in 1 .. Len(pend[q]) : pend[q][i] # m
      BY <1>2, PublishedIs
    <3>2. \A q, w \in Pend : \A i \in 1 .. Len(pend[q]), j \in 1 .. Len(pend[w]) :
            pend[q][i] = pend[w][j] => q = w
      BY <1>1 DEF PendingOK
    <3>3. \A q \in Pend : \A i \in 1 .. Len(pend'[q]) :
            \/ i \in 1 .. Len(pend[q]) /\ pend'[q][i] = pend[q][i]
            \/ q = p /\ pend'[q][i] = m
      BY <1>9
    <3> QED
      BY <3>1, <3>2, <3>3
  <2>4. \A q \in Pend : pendLatch'[q] # NoOne =>
          \A i \in 1 .. Len(pend'[q]) : pend'[q][i] < call'[pendLatch'[q]].my
    BY <1>1, <1>8, <1>9 DEF PendingOK
  <2>5. \A u \in Thread : call'[u].pc \in Fresh =>
          call'[u].my \notin Published' /\ call'[u].my > rearLsn'
    <3> TAKE u \in Thread
    <3> HAVE call'[u].pc \in Fresh
    <3>1. u # t /\ call'[u] = call[u] /\ call[u].pc \in Fresh
      BY <1>3, <1>6 DEF Fresh
    <3>2. call[u].my # m
      BY <1>1, <1>2, <3>1 DEF PendingOK, Fresh, m
    <3> QED
      BY <1>1, <1>5, <1>10, <3>1, <3>2 DEF PendingOK
  <2>6. \A u, w \in Thread :
          call'[u].pc \in Fresh /\ call'[w].pc \in Fresh /\ call'[u].my = call'[w].my => u = w
    <3>1. \A u \in Thread : call'[u].pc \in Fresh => u # t /\ call'[u] = call[u]
      BY <1>3, <1>6 DEF Fresh
    <3> QED
      BY <1>1, <3>1 DEF PendingOK
  <2>7. \A q \in Pend : cursor'[q] <= Len(pend'[q])
    BY <1>1, <1>5, <1>9, PendIsTyped DEF PendingOK
  <2> QED
    BY <2>2, <2>3, <2>4, <2>5, <2>6, <2>7 DEF PendingOK
<1>16. ASSUME NEW u \in Thread PROVE Settled(u)'
  <2>1. CASE u = t
    BY <1>3, <2>1 DEF Settled
  <2>2. CASE u # t
    <3>1. call'[u] = call[u] /\ EndLsn(u)' = EndLsn(u) /\ Settled(u) /\ EndLsn(u) \in Int
      BY <1>1, <1>6, <2>2, LsnsAreInts DEF EndLsn, Writing
    <3>2. \A q \in Pend : NewerCopied(q, EndLsn(u)) => NewerCopied(q, EndLsn(u))'
      BY <1>7, <1>8, <3>1 DEF NewerCopied
    <3>3. call[u].pc \in {"writeApply", "flushApply"} =>
            \A q \in Pend : \A i \in cursor[q] + 1 .. Len(pend'[q]) : pend'[q][i] > EndLsn(u)
      <4> HAVE call[u].pc \in {"writeApply", "flushApply"}
      <4>1. m > EndLsn(u)
        BY <1>4, <3>1, <1>2, ThreadFacts DEF Settled, NewerCopied, m
      <4>2. \A q \in Pend : \A i \in cursor[q] + 1 .. Len(pend[q]) : pend[q][i] > EndLsn(u)
        BY <3>1 DEF Settled
      <4> TAKE q \in Pend
      <4> TAKE i \in cursor[q] + 1 .. Len(pend'[q])
      <4>3. cursor[q] \in Nat /\ Len(pend[q]) \in Nat
        BY <1>1, PendIsTyped
      <4>4. CASE q # p
        BY <1>9, <4>2, <4>4
      <4>5. CASE q = p
        <5>1. CASE i = Len(pend[p]) + 1
          BY <1>9, <4>1, <4>5, <5>1
        <5>2. CASE i # Len(pend[p]) + 1
          <6>1. i \in cursor[p] + 1 .. Len(pend[p]) /\ i \in 1 .. Len(pend[p])
            BY <1>9, <4>3, <4>5, <5>2
          <6> QED
            BY <1>9, <4>2, <4>5, <6>1
        <5> QED
          BY <5>1, <5>2
      <4> QED
        BY <4>4, <4>5
    <3> QED
      BY <1>5, <1>11, <3>1, <3>2, <3>3 DEF Settled
  <2> QED
    BY <2>1, <2>2
<1> QED
  BY <1>2, <1>3, <1>5, <1>10, <1>12, <1>13, <1>14, <1>15, <1>16 DEF LogInv, m

\* An LSN is taken under the buffer latch: either all pending buffers are waited for, or
\* the last log of the buffer has the LSN before it, and nothing is pending.
LEMMA TakeLsnKeeps ==
  ASSUME LogInv, NEW t \in Trans, TakeLsn(t)
  PROVE  LogInv'
<1>1. TypeOK /\ OwnersOK /\ BufferOK /\ FrontOK /\ PendingOK /\ \A u \in Thread : Settled(u)
  BY DEF LogInv
<1>2. /\ t \in Thread /\ TypeOK' /\ Only(t) /\ call[t].pc = "stamp" /\ call'[t].my = lsn
      /\ \/ call'[t].pc = "writeWait" /\ awaited' = Pend
         \/ call'[t].pc = "put" /\ (PendCount = 0 \/ lsn = rearLsn + 1)
  BY <1>1, TakeLsnIs, ThreadFacts
<1>3. UNCHANGED <<buffer, rearLsn, rearSbsn, frontVars, disk, dirty, bufferLatch, fileLatch,
                  pend, pendLatch, cursor>>
  BY DEF TakeLsn, worldVars
<1>4. \A u \in Thread \ {t} : call'[u] = call[u]
  BY <1>1, <1>2, OthersKept
<1>5. OwnersOK'
  <2>1. LatchStep(t) /\ FileStep(t)
    BY <1>2, <1>3 DEF LatchStep, FileStep, Latched
  <2> QED
    BY <1>1, <1>2, <1>3, <2>1, OwnersKept
<1>6. BufferOK' /\ FrontOK'
  BY <1>1, <1>2, <1>3, BufferKept, FrontKept DEF frontVars
<1>7. Published' = Published
  BY <1>3 DEF Published
<1>8. \A u \in Thread : (call'[u].pc = "publish" <=> call[u].pc = "publish")
                        /\ (call[u].pc = "publish" => call'[u] = call[u])
  BY <1>2, <1>4
<1>9. Pending' = Pending
  BY <1>7, <1>8 DEF Pending, At
<1>10. \A q \in Pend : pendLatch[q] # NoOne => call'[pendLatch[q]] = call[pendLatch[q]]
  BY <1>1, <1>8, CopierIs
<1>11. PendingOK'
  <2>1. lsn \notin Published /\ lsn > rearLsn
    BY <1>1, <1>2, PublishedLsns, LsnsAreInts
  <2>2. \A u \in Thread : call'[u].pc \in Fresh =>
          call'[u].my \notin Published' /\ call'[u].my > rearLsn'
    BY <1>1, <1>2, <1>3, <1>4, <1>7, <2>1 DEF PendingOK
  <2>3. \A u, w \in Thread :
          call'[u].pc \in Fresh /\ call'[w].pc \in Fresh /\ call'[u].my = call'[w].my => u = w
    <3>1. \A u \in Thread \ {t} : call'[u].my = call[u].my /\ call[u].my < lsn /\ call[u].my \in Nat
      BY <1>1, <1>4, LsnsAreInts
    <3> QED
      BY <1>1, <1>2, <1>4, <3>1, LsnsAreInts DEF PendingOK
  <2>4. \A q \in Pend : pendLatch'[q] # NoOne =>
          \A i \in 1 .. Len(pend'[q]) : pend'[q][i] < call'[pendLatch'[q]].my
    BY <1>1, <1>3, <1>10 DEF PendingOK
  <2>5. PendingIsNewer'
    BY <1>1, <1>3, <1>9 DEF PendingOK, PendingIsNewer
  <2> QED
    BY <1>1, <1>3, <2>2, <2>3, <2>4, <2>5 DEF PendingOK
<1>12. Settled(t)'
  <2>1. CASE call'[t].pc = "writeWait" /\ awaited' = Pend
    BY <2>1 DEF Settled
  <2>2. CASE call'[t].pc = "put" /\ (PendCount = 0 \/ lsn = rearLsn + 1)
    <3>1. ASSUME NEW l \in Pending PROVE FALSE
      <4>1. CASE PendCount = 0
        <5>1. Pend = {}
          BY <4>1 DEF Pend
        <5> QED
          BY <1>1, <5>1, PendingIs DEF OwnersOK
      <4>2. CASE lsn = rearLsn + 1
        <5>1. l > rearLsn /\ l < lsn /\ l \in Nat /\ rearLsn \in Nat
          BY <1>1, <1>2, PendingLsns, LsnsAreInts DEF PendingOK, PendingIsNewer
        <5> QED
          BY <4>2, <5>1
      <4> QED
        BY <2>2, <4>1, <4>2
    <3> QED
      BY <1>9, <2>2, <3>1 DEF Settled
  <2> QED
    BY <1>2, <2>1, <2>2
<1>13. \A u \in Thread : Settled(u)'
  <2>1. \A q \in Pend : \A l : NewerCopied(q, l)' <=> NewerCopied(q, l)
    BY <1>3, <1>10 DEF NewerCopied
  <2>2. call'[t].pc \in Latched
    BY <1>2 DEF Latched
  <2> QED
    BY <1>1, <1>2, <1>3, <1>5, <1>9, <1>12, <2>1, <2>2, SettledKept
<1> QED
  BY <1>2, <1>5, <1>6, <1>11, <1>13 DEF LogInv

\* A log is written behind the last log of the buffer.
LEMMA AddedToBuffer ==
  ASSUME TypeOK, BufferOK, FrontOK, NEW l \in 1 .. lsn - 1, l > rearLsn, NEW r \in Places(l), ~Full(r),
         buffer' = buffer \cup {r}, rearLsn' = l, rearSbsn' \in {r.last, r.last + 1},
         UNCHANGED <<frontVars, disk>>, dirty' \subseteq dirty \cup {[lsn |-> l, sbsn |-> r.last]},
         NEW t \in Thread, Only(t), call'[t].pc # "disk"
  PROVE  BufferOK' /\ FrontOK' /\ r.lsn = l /\ r \notin buffer /\ r.last >= rearSbsn
<1>1. /\ r.lsn = l /\ r.first \in Nat /\ r.last \in Nat /\ r.first <= r.last
      /\ r.first >= rearSbsn /\ r.last \in {rearSbsn, rearSbsn + 1}
      /\ r.first = rearSbsn \/ (RearUsed /\ r.first = rearSbsn + 1)
  BY PlacesAre
<1>2. /\ rearSbsn \in Nat /\ frontSbsn \in Int /\ frontLsn \in Nat /\ rearLsn \in Nat /\ Room \in Nat
      /\ l \in Nat
  BY TypeIs, ThreadFacts
<1>3. \A q \in buffer : q.first \in Nat /\ q.last \in Nat /\ q.lsn \in Nat
  BY TypeIs
<1>4. r.last - frontSbsn < Room
  BY <1>1, <1>2 DEF Full
<1>5. UNCHANGED <<frontLsn, frontSbsn, disk>>
  BY DEF frontVars
<1>6. rearSbsn' \in Nat /\ rearSbsn' >= rearSbsn /\ r.last <= rearSbsn' /\ rearSbsn' - 1 <= r.last
  BY <1>1, <1>2
<1>7. \A q \in buffer : q.lsn < l /\ q.lsn <= rearLsn /\ q.last <= rearSbsn /\ q.first <= q.last
                        /\ q.last - frontSbsn < Room
  BY <1>2, <1>3 DEF BufferOK
<1>8. BufferOK'
  <2>1. \A q \in buffer' : /\ q.first <= q.last /\ q.last <= rearSbsn'
                           /\ q.lsn <= rearLsn' /\ q.last - frontSbsn' < Room
    BY <1>1, <1>2, <1>3, <1>4, <1>5, <1>6, <1>7
  <2>2. \A q, w \in buffer' : q.lsn = w.lsn => q = w
    BY <1>1, <1>2, <1>3, <1>7 DEF BufferOK
  <2>3. \A q, w \in buffer' : q.lsn < w.lsn => q.last <= w.first
    <3> TAKE q, w \in buffer'
    <3> HAVE q.lsn < w.lsn
    <3>1. CASE w = r
      <4>1. q # r
        BY <1>1, <1>2, <3>1
      <4> QED
        BY <1>1, <1>2, <1>3, <1>7, <3>1, <4>1
    <3>2. CASE w # r
      <4>1. q # r
        BY <1>1, <1>2, <1>3, <1>7, <3>2
      <4> QED
        BY <3>2, <4>1 DEF BufferOK
    <3> QED
      BY <3>1, <3>2
  <2>4. \A b \in 0 .. rearSbsn' - 1 : \E q \in buffer' : q.first <= b /\ b <= q.last
    <3> TAKE b \in 0 .. rearSbsn' - 1
    <3>1. CASE b < rearSbsn
      <4>1. b \in 0 .. rearSbsn - 1
        BY <1>2, <1>6, <3>1
      <4> QED
        BY <4>1 DEF BufferOK
    <3>2. CASE b >= r.first /\ b <= r.last
      BY <3>2
    <3>3. CASE b = rearSbsn /\ RearUsed
      BY <1>2, <1>7, <3>3 DEF RearUsed
    <3> QED
      BY <1>1, <1>2, <1>6, <3>1, <3>2, <3>3
  <2>5. \A d \in disk' : d <= rearLsn' /\ \A q \in buffer' : d < q.lsn
    <3>1. \A d \in disk : d \in Nat /\ d <= rearLsn /\ \A q \in buffer : d < q.lsn
      BY TypeIs DEF BufferOK
    <3> QED
      BY <1>1, <1>2, <1>5, <3>1
  <2>6. \A d \in dirty' : d.sbsn <= rearSbsn'
    <3>1. \A d \in dirty : d.sbsn \in Int /\ d.sbsn <= rearSbsn
      BY TypeIs DEF BufferOK, InvalidSbsn
    <3> QED
      BY <1>2, <1>6, <3>1
  <2> QED
    BY <2>1, <2>2, <2>3, <2>4, <2>5, <2>6 DEF BufferOK
<1>9. FrontOK'
  <2>1. frontLsn < l /\ frontLsn <= rearLsn /\ frontSbsn < rearSbsn
    BY <1>2 DEF FrontOK, FrontBelowRear
  <2>2. FrontBelowRear'
    <3>1. frontSbsn' < rearSbsn' /\ rearSbsn' - frontSbsn' <= Room + 1
      BY <1>2, <1>1, <1>4, <1>5, <1>6, <2>1
    <3> QED
      BY <3>1 DEF FrontBelowRear
  <2>3. \A q \in buffer' : q.lsn <= frontLsn' => q.last <= frontSbsn'
    BY <1>1, <1>2, <1>5, <2>1 DEF FrontOK
  <2>4. \A u \in Thread : call'[u].pc = "disk" => frontSbsn' < call'[u].till /\ call'[u].till < rearSbsn'
    <3> TAKE u \in Thread
    <3> HAVE call'[u].pc = "disk"
    <3>1. u # t /\ call'[u] = call[u]
      BY OthersKept
    <3>2. call[u].till \in Nat \cup {InvalidSbsn, Unbounded}
      BY CallIsTyped DEF CallType
    <3>3. call[u].till \in Int
      BY <3>2 DEF InvalidSbsn, Unbounded
    <3>4. frontSbsn < call[u].till /\ call[u].till < rearSbsn
      BY <3>1 DEF FrontOK
    <3> QED
      BY <1>2, <1>5, <1>6, <3>1, <3>3, <3>4
  <2> QED
    BY <1>2, <1>5, <2>1, <2>2, <2>3, <2>4 DEF FrontOK
<1>10. r \notin buffer /\ r.last >= rearSbsn
  BY <1>1, <1>2, <1>7
<1> QED
  BY <1>1, <1>8, <1>9, <1>10

\* The thread's own log is put into the buffer: nothing older is pending.
LEMMA PutLogKeeps ==
  ASSUME LogInv, NEW t \in Trans, PutLog(t)
  PROVE  /\ LogInv' /\ UNCHANGED <<frontVars, disk, pend>>
         /\ \/ UNCHANGED buffer
            \/ \E r : /\ buffer' = buffer \cup {r} /\ r.lsn > rearLsn
                      /\ r.last >= rearSbsn
<1>1. TypeOK /\ OwnersOK /\ BufferOK /\ FrontOK /\ PendingOK /\ \A u \in Thread : Settled(u)
  BY DEF LogInv
<1> DEFINE m == call[t].my
<1>2. t \in Thread /\ call[t].pc = "put" /\ m \in Nat /\ m < lsn /\ m > rearLsn /\ m > 0
      /\ m \notin Published /\ m \in 1 .. lsn - 1
  <2>1. t \in Thread /\ call[t].pc = "put"
    BY ThreadFacts DEF PutLog, At
  <2>2. m \in Nat /\ m < lsn /\ m > rearLsn /\ rearLsn \in Nat /\ lsn \in Nat /\ m \notin Published
    BY <1>1, <2>1, LsnsAreInts DEF PendingOK, Fresh
  <2> HIDE DEF m
  <2> QED
    BY <2>1, <2>2
<1>3. /\ TypeOK' /\ Only(t) /\ bufferLatch' = NoOne
      /\ \E r \in Places(call[t].my) :
           \/ /\ ~Full(r) /\ buffer' = buffer \cup {r} /\ rearLsn' = r.lsn
              /\ rearSbsn' = IF call[t].op = "commit" THEN r.last + 1 ELSE r.last
              /\ Written(t, r.last) /\ call'[t].pc \in {"flush", "idle"}
           \/ /\ Full(r) /\ UNCHANGED <<buffer, rearLsn, rearSbsn, worldVars>>
              /\ call'[t].pc = "room" /\ call'[t].then = "try"
  BY <1>1, <1>2, PutLogIs
<1>4. UNCHANGED <<lsn, frontVars, fileLatch, pend, pendLatch, awaited, cursor>>
  BY DEF PutLog, pendVars
<1>5. /\ call[t].pc \in Latched /\ call'[t].pc \in {"flush", "idle", "room"}
      /\ call'[t].pc \notin Latched \cup Fresh \cup {"publish", "disk"}
  BY <1>2, <1>3 DEF Latched, Fresh
<1>6. LatchStep(t) /\ FileStep(t) /\ Settled(t)'
  BY <1>2, <1>3, <1>4, <1>5 DEF LatchStep, FileStep, Settled
<1>7. CASE UNCHANGED <<buffer, rearLsn, rearSbsn, worldVars>>
  BY <1>1, <1>2, <1>3, <1>4, <1>5, <1>6, <1>7, PlainStep DEF PendingOK, worldVars
<1>8. ASSUME NEW r \in Places(m), ~Full(r), buffer' = buffer \cup {r}, rearLsn' = r.lsn,
             rearSbsn' = IF call[t].op = "commit" THEN r.last + 1 ELSE r.last, Written(t, r.last)
      PROVE  LogInv' /\ UNCHANGED disk /\ r.lsn > rearLsn /\ r.last >= rearSbsn
  <2> HIDE DEF m
  <2>1. r.lsn = m /\ r.last \in Nat
    BY <1>1, <1>2, <1>8, PlacesAre
  <2>2. UNCHANGED disk /\ dirty' \subseteq dirty \cup {[lsn |-> m, sbsn |-> r.last]}
    BY <1>1, <1>2, <1>8, <2>1, WrittenIs DEF m
  <2>3. BufferOK' /\ FrontOK' /\ r.last >= rearSbsn
    BY <1>1, <1>2, <1>3, <1>4, <1>5, <1>8, <2>1, <2>2, AddedToBuffer
  <2>4. OwnersOK'
    BY <1>1, <1>2, <1>3, <1>4, <1>5, <1>6, OwnersKept
  <2>5. \A u \in Thread \ {t} : call'[u] = call[u]
    BY <1>1, <1>2, <1>3, OthersKept
  <2>6. \A u \in Thread : call'[u].pc \in Fresh =>
          u # t /\ call'[u] = call[u] /\ call[u].pc = "publish" /\ call[u].my > m
    <3> TAKE u \in Thread
    <3> HAVE call'[u].pc \in Fresh
    <3>1. u # t /\ call'[u] = call[u]
      BY <1>5, <2>5
    <3>2. call[u].pc = "publish"
      BY <1>1, <1>2, <1>5, <3>1, OneHolder DEF Fresh, Latched
    <3>3. call[u].my >= m /\ call[u].my \in Nat
      BY <1>1, <1>2, <3>2, PendingIs, LsnsAreInts DEF Settled, m
    <3>4. call[u].my # m
      BY <1>1, <1>2, <3>1, <3>2 DEF PendingOK, Fresh, m
    <3> QED
      BY <1>2, <3>1, <3>2, <3>3, <3>4
  <2>7. \A l \in Pending : l > m
    <3> TAKE l \in Pending
    <3>1. l >= m /\ l \in Nat
      BY <1>1, <1>2, PendingLsns DEF Settled, m
    <3>2. l # m
      <4>1. CASE l \in Published
        BY <1>2, <4>1
      <4>2. CASE \E u \in Thread : call[u].pc = "publish" /\ l = call[u].my
        <5>1. PICK u \in Thread : call[u].pc = "publish" /\ l = call[u].my
          BY <4>2
        <5>2. call'[u].pc \in Fresh
          BY <1>2, <2>5, <5>1 DEF Fresh
        <5> QED
          BY <1>2, <2>6, <5>1, <5>2, <3>1
      <4> QED
        BY <4>1, <4>2 DEF Pending, At
    <3> QED
      BY <1>2, <3>1, <3>2
  <2>8. Published' = Published
    BY <1>4 DEF Published
  <2>9. Pending' = Pending
    <3>1. \A u \in Thread : (call'[u].pc = "publish" <=> call[u].pc = "publish")
                            /\ (call[u].pc = "publish" => call'[u] = call[u])
      BY <1>2, <1>5, <2>5
    <3> QED
      BY <2>8, <3>1 DEF Pending, At
  <2>10. \A q \in Pend : pendLatch[q] # NoOne => call'[pendLatch[q]] = call[pendLatch[q]]
    <3> TAKE q \in Pend
    <3> HAVE pendLatch[q] # NoOne
    <3>1. pendLatch[q] \in Thread /\ call[pendLatch[q]].pc = "publish"
      BY <1>1, CopierIs
    <3> QED
      BY <1>2, <2>5, <3>1
  <2>11. PendingOK'
    <3>1. PendingIsNewer'
      BY <1>1, <1>4, <1>8, <2>1, <2>7, <2>9 DEF PendingOK, PendingIsNewer
    <3>2. \A q \in Pend : pendLatch'[q] # NoOne =>
            \A i \in 1 .. Len(pend'[q]) : pend'[q][i] < call'[pendLatch'[q]].my
      BY <1>1, <1>4, <2>10 DEF PendingOK
    <3>3. \A u \in Thread : call'[u].pc \in Fresh =>
            call'[u].my \notin Published' /\ call'[u].my > rearLsn'
      <4>1. \A u \in Thread : call'[u].pc \in Fresh => call[u].my \notin Published
        BY <1>1, <2>6 DEF PendingOK
      <4> QED
        BY <1>8, <2>1, <2>6, <2>8, <4>1
    <3>4. \A u, w \in Thread :
            call'[u].pc \in Fresh /\ call'[w].pc \in Fresh /\ call'[u].my = call'[w].my => u = w
      BY <1>1, <2>6 DEF PendingOK
    <3> QED
      BY <1>1, <1>4, <3>1, <3>2, <3>3, <3>4 DEF PendingOK
  <2>12. \A u \in Thread : Settled(u)'
    <3>1. \A q \in Pend : \A l : NewerCopied(q, l)' <=> NewerCopied(q, l)
      BY <1>4, <2>10 DEF NewerCopied
    <3> QED
      BY <1>1, <1>2, <1>3, <1>4, <1>6, <2>4, <2>9, <3>1, SettledKept
  <2> QED
    BY <1>2, <1>3, <2>1, <2>2, <2>3, <2>4, <2>11, <2>12 DEF LogInv
<1> QED
  BY <1>3, <1>4, <1>7, <1>8 DEF worldVars

\* The head that smrReadPendingLog finds is the oldest of all that is pending.
LEMMA OldestIsFirst ==
  ASSUME LogInv, NEW t \in Thread, call[t].pc \in {"writeApply", "flushApply"},
         NEW p \in Pend, Oldest(t, p)
  PROVE  /\ pend[p][1] <= EndLsn(t)
         /\ \A q \in Pend : \A i \in 1 .. Len(pend[q]) :
              pend[q][i] > pend[p][1] \/ (q = p /\ i = 1)
         /\ \A u \in Thread : call[u].pc = "publish" => call[u].my > pend[p][1]
<1>1. TypeOK /\ OwnersOK /\ PendingOK /\ Settled(t) /\ CursorOK
  BY CursorIsOK DEF LogInv
<1> DEFINE l == pend[p][1]
<1>2. /\ cursor[p] > 0 /\ l \in Nat /\ Head(pend[p]) = l /\ l <= EndLsn(t) /\ EndLsn(t) \in Int
      /\ 1 \in 1 .. Len(pend[p]) /\ p \in Readable(t)
  <2>1. p \in Readable(t) /\ cursor[p] > 0 /\ Head(pend[p]) <= EndLsn(t)
    BY DEF Oldest, Readable
  <2>2. Head(pend[p]) = pend[p][1] /\ pend[p][1] \in 1 .. lsn - 1 /\ 1 \in 1 .. Len(pend[p])
    BY <1>1, <2>1, HeadIs
  <2> QED
    BY <1>1, <2>1, <2>2, LsnsAreInts
<1>3. ASSUME NEW q \in Pend, NEW i \in 1 .. Len(pend[q]), q # p \/ i # 1
      PROVE  pend[q][i] > l
  <2>1. pend[q][i] \in Nat /\ cursor[q] \in Nat /\ Len(pend[q]) \in Nat /\ 1 \in 1 .. Len(pend[q])
    <3>1. pend[q][i] \in 1 .. lsn - 1 /\ cursor[q] \in Nat /\ Len(pend[q]) \in Nat
      BY <1>1, PendIsTyped
    <3> QED
      BY <3>1
  <2>2. i = 1 \/ pend[q][1] < pend[q][i]
    BY <1>1, <2>1 DEF PendingOK, PendingIsNewer
  <2>3. CASE q = p
    BY <1>3, <2>2, <2>3
  <2>4. CASE q # p /\ cursor[q] = 0
    <3>1. i \in cursor[q] + 1 .. Len(pend[q])
      BY <2>1, <2>4
    <3>2. pend[q][i] > EndLsn(t)
      BY <1>1, <3>1 DEF Settled
    <3> HIDE DEF l
    <3> QED
      BY <1>2, <2>1, <3>2
  <2>5. CASE q # p /\ cursor[q] > 0
    <3>1. Head(pend[q]) = pend[q][1] /\ pend[q][1] \in 1 .. lsn - 1
      BY <1>1, <2>5, HeadIs
    <3>2. pend[q][1] > l
      <4>1. CASE pend[q][1] <= EndLsn(t)
        <5>1. q \in Readable(t)
          BY <2>5, <3>1, <4>1 DEF Readable
        <5>2. l <= pend[q][1]
          BY <1>2, <3>1, <5>1 DEF Oldest
        <5>3. l # pend[q][1]
          BY <1>1, <1>2, <2>1, <2>5 DEF PendingOK
        <5> HIDE DEF l
        <5> QED
          BY <1>2, <3>1, <5>2, <5>3
      <4>2. CASE ~(pend[q][1] <= EndLsn(t))
        <5> HIDE DEF l
        <5> QED
          BY <1>2, <3>1, <4>2
      <4> QED
        BY <4>1, <4>2
    <3> HIDE DEF l
    <3> QED
      BY <1>2, <2>1, <2>2, <3>1, <3>2
  <2> QED
    BY <1>3, <2>1, <2>3, <2>4, <2>5
<1>4. ASSUME NEW u \in Thread, call[u].pc = "publish" PROVE call[u].my > l
  <2>1. PICK q \in Pend : pendLatch[q] = u
    BY <1>1, <1>4 DEF OwnersOK
  <2>2. call[u].my > EndLsn(t) /\ call[u].my \in Nat
    BY <1>1, <2>1, ThreadFacts, LsnsAreInts DEF Settled, NewerCopied
  <2> HIDE DEF l
  <2> QED
    BY <1>2, <2>2
<1> HIDE DEF l
<1>5. \A q \in Pend : \A i \in 1 .. Len(pend[q]) : pend[q][i] > l \/ (q = p /\ i = 1)
  BY <1>3
<1> QED
  BY <1>2, <1>4, <1>5 DEF l

LEMMA ApplyPendingLogKeeps ==
  ASSUME LogInv, NEW t \in Thread, ApplyPendingLog(t)
  PROVE  /\ LogInv' /\ UNCHANGED <<frontVars, disk>>
         /\ \/ UNCHANGED <<buffer, pend>>
            \/ \E r : /\ buffer' = buffer \cup {r} /\ r.lsn > rearLsn
                      /\ r.last >= rearSbsn /\ Published = Published' \cup {r.lsn}
<1>1. TypeOK /\ OwnersOK /\ BufferOK /\ FrontOK /\ PendingOK /\ CursorOK
      /\ \A u \in Thread : Settled(u)
  BY CursorIsOK DEF LogInv
<1>2. /\ TypeOK' /\ Only(t) /\ KeepsLog(t) /\ call[t].pc \in {"writeApply", "flushApply"}
      /\ \E p \in Pend :
           /\ Oldest(t, p) /\ cursor[p] > 0
           /\ \E r \in Places(pend[p][1]) :
                 \/ /\ ~Full(r) /\ buffer' = buffer \cup {r} /\ rearLsn' = r.lsn /\ rearSbsn' = r.last
                    /\ pend' = [pend EXCEPT ![p] = Tail(@)]
                    /\ cursor' = [cursor EXCEPT ![p] = @ - 1]
                    /\ call'[t].pc = call[t].pc /\ UNCHANGED bufferLatch
                 \/ /\ Full(r) /\ UNCHANGED <<buffer, rearLsn, rearSbsn, pend>>
                    /\ bufferLatch' = NoOne /\ cursor' = [q \in Pend |-> 0]
                    /\ call'[t].pc \in {"reclose", "room"}
  BY <1>1, ApplyPendingLogIs
<1>3. UNCHANGED <<lsn, frontVars, fileLatch, pendLatch, awaited, disk, dirty>>
  BY DEF ApplyPendingLog, worldVars
<1>4. call[t].pc \in Latched /\ call[t].pc \notin {"publish", "disk"}
  BY <1>2 DEF Latched
<1>5. PICK p \in Pend :
           /\ Oldest(t, p) /\ cursor[p] > 0
           /\ \E r \in Places(pend[p][1]) :
                 \/ /\ ~Full(r) /\ buffer' = buffer \cup {r} /\ rearLsn' = r.lsn /\ rearSbsn' = r.last
                    /\ pend' = [pend EXCEPT ![p] = Tail(@)]
                    /\ cursor' = [cursor EXCEPT ![p] = @ - 1]
                    /\ call'[t].pc = call[t].pc /\ UNCHANGED bufferLatch
                 \/ /\ Full(r) /\ UNCHANGED <<buffer, rearLsn, rearSbsn, pend>>
                    /\ bufferLatch' = NoOne /\ cursor' = [q \in Pend |-> 0]
                    /\ call'[t].pc \in {"reclose", "room"}
  BY <1>2
<1>6. ASSUME UNCHANGED <<buffer, rearLsn, rearSbsn, pend>>, bufferLatch' = NoOne,
             cursor' = [q \in Pend |-> 0], call'[t].pc \in {"reclose", "room"}
      PROVE  LogInv'
  <2>1. LatchStep(t) /\ FileStep(t) /\ Settled(t)' /\ call'[t].pc \notin {"publish", "disk"} \cup Fresh
    BY <1>3, <1>4, <1>6 DEF LatchStep, FileStep, Settled, Latched, Fresh
  <2>2. \A q \in Pend : cursor'[q] <= Len(pend[q])
    BY <1>1, <1>6, PendIsTyped
  <2> QED
    BY <1>2, <1>3, <1>4, <1>6, <2>1, <2>2, PlainStep
<1>7. ASSUME NEW r \in Places(pend[p][1]), ~Full(r), buffer' = buffer \cup {r}, rearLsn' = r.lsn,
             rearSbsn' = r.last, pend' = [pend EXCEPT ![p] = Tail(@)],
             cursor' = [cursor EXCEPT ![p] = @ - 1], call'[t].pc = call[t].pc,
             UNCHANGED bufferLatch
      PROVE  /\ LogInv' /\ r.lsn > rearLsn /\ r.last >= rearSbsn
             /\ Published = Published' \cup {r.lsn}
  <2> DEFINE l == pend[p][1]
  <2>1. /\ l <= EndLsn(t)
        /\ \A q \in Pend : \A i \in 1 .. Len(pend[q]) : pend[q][i] > l \/ (q = p /\ i = 1)
        /\ \A u \in Thread : call[u].pc = "publish" => call[u].my > l
    BY <1>2, <1>5, OldestIsFirst
  <2>2. l \in 1 .. lsn - 1 /\ 1 \in 1 .. Len(pend[p]) /\ Len(pend[p]) > 0 /\ Len(pend[p]) \in Nat
        /\ cursor[p] \in Nat
    BY <1>1, <1>5, HeadIs
  <2>3. l \in Published /\ l > rearLsn /\ l \in Nat
    <3>1. l \in Published
      BY <2>2, PublishedIs
    <3> QED
      BY <1>1, <3>1, PublishedLsns DEF PendingOK, PendingIsNewer
  <2>4. /\ Len(pend'[p]) = Len(pend[p]) - 1
        /\ \A i \in 1 .. Len(pend'[p]) : i + 1 \in 1 .. Len(pend[p]) /\ pend'[p][i] = pend[p][i + 1]
        /\ \A q \in Pend \ {p} : pend'[q] = pend[q] /\ cursor'[q] = cursor[q]
        /\ cursor'[p] = cursor[p] - 1
    <3> DEFINE S == 1 .. lsn - 1
    <3>1. pend[p] \in Seq(S)
      BY <1>1, TypeIs
    <3> HIDE DEF S
    <3>2. /\ Len(Tail(pend[p])) = Len(pend[p]) - 1
          /\ \A i \in 1 .. Len(Tail(pend[p])) :
               i + 1 \in 1 .. Len(pend[p]) /\ Tail(pend[p])[i] = pend[p][i + 1]
      BY <2>2, <3>1, TailIs
    <3>3. /\ pend'[p] = Tail(pend[p]) /\ cursor'[p] = cursor[p] - 1
          /\ \A q \in Pend \ {p} : pend'[q] = pend[q] /\ cursor'[q] = cursor[q]
      BY <1>1, <1>7, TypeIs
    <3> QED
      BY <3>2, <3>3
  <2>5. \A q \in Pend : \A i \in 1 .. Len(pend'[q]) :
          \/ q # p /\ i \in 1 .. Len(pend[q]) /\ pend'[q][i] = pend[q][i]
          \/ q = p /\ i + 1 \in 1 .. Len(pend[q]) /\ pend'[q][i] = pend[q][i + 1] /\ i + 1 # 1
    BY <2>2, <2>4
  <2>6. r.lsn = l
    BY <1>1, <2>2, <1>7, PlacesAre
  <2> HIDE DEF l
  <2>7. call'[t].pc \notin {"publish", "disk"} /\ call'[t].pc \in Latched
        /\ call'[t].my = call[t].my /\ call'[t].goal = call[t].goal
    BY <1>2, <1>4, <1>7 DEF KeepsLog
  <2>8. BufferOK' /\ FrontOK' /\ r.last >= rearSbsn
    <3>1. dirty' \subseteq dirty \cup {[lsn |-> l, sbsn |-> r.last]}
      BY <1>3
    <3>2. r \in Places(l) /\ rearLsn' = l /\ rearSbsn' \in {r.last, r.last + 1} /\ UNCHANGED disk
      BY <1>3, <1>7, <2>6 DEF l
    <3> QED
      BY <1>1, <1>2, <1>3, <1>7, <2>2, <2>3, <2>7, <3>1, <3>2, AddedToBuffer
  <2>9. OwnersOK'
    <3>1. LatchStep(t) /\ FileStep(t)
      BY <1>3, <1>4, <1>7, <2>7 DEF LatchStep, FileStep
    <3> QED
      BY <1>1, <1>2, <1>3, <1>4, <2>7, <3>1, OwnersKept
  <2>10. \A u \in Thread \ {t} : call'[u] = call[u]
    BY <1>1, <1>2, OthersKept
  <2>11. Published = Published' \cup {l}
    <3>1. \A k \in Published' : k \in Published
      <4> TAKE k \in Published'
      <4>1. PICK q \in Pend : \E i \in 1 .. Len(pend'[q]) : k = pend'[q][i]
        BY DEF Published
      <4> QED
        BY <2>5, <4>1, PublishedIs
    <3>2. \A k \in Published : k \in Published' \/ k = l
      <4> TAKE k \in Published
      <4>1. PICK q \in Pend : \E i \in 1 .. Len(pend[q]) : k = pend[q][i]
        BY PublishedIs
      <4>2. PICK i \in 1 .. Len(pend[q]) : k = pend[q][i]
        BY <4>1
      <4>3. CASE q # p
        <5>1. k = pend'[q][i] /\ i \in 1 .. Len(pend'[q])
          BY <2>4, <4>2, <4>3
        <5> QED
          BY <5>1 DEF Published
      <4>4. CASE q = p /\ i # 1
        <5>1. i - 1 \in 1 .. Len(pend'[p]) /\ pend'[p][i - 1] = pend[p][i - 1 + 1] /\ i - 1 + 1 = i
          BY <2>2, <2>4, <4>4
        <5>2. k = pend'[q][i - 1] /\ i - 1 \in 1 .. Len(pend'[q])
          BY <4>2, <4>4, <5>1
        <5> QED
          BY <5>2 DEF Published
      <4> QED
        BY <4>2, <4>3, <4>4 DEF l
    <3> QED
      BY <2>3, <3>1, <3>2
  <2>12. \A u \in Thread : (call'[u].pc = "publish" <=> call[u].pc = "publish")
                           /\ (call[u].pc = "publish" => call'[u] = call[u])
    BY <1>4, <2>7, <2>10
  <2>13. \A k \in Pending' : k \in Pending /\ k > l
    <3> TAKE k \in Pending'
    <3>1. CASE k \in Published'
      <4>1. k \in Published
        BY <2>11, <3>1
      <4>2. k > l
        <5>1. PICK q \in Pend : \E i \in 1 .. Len(pend'[q]) : k = pend'[q][i]
          BY <3>1 DEF Published
        <5> QED
          BY <2>1, <2>5, <5>1
      <4> QED
        BY <4>1, <4>2 DEF Pending
    <3>2. CASE \E u \in Thread : call'[u].pc = "publish" /\ k = call'[u].my
      BY <2>1, <2>12, <3>2 DEF Pending, At
    <3> QED
      BY <3>1, <3>2 DEF Pending, At
  <2>14. \A q \in Pend : pendLatch[q] # NoOne => call'[pendLatch[q]] = call[pendLatch[q]]
    BY <1>1, <2>12, CopierIs
  <2>15. PendingOK'
    <3>1. PendingIsNewer'
      <4>1. \A k \in Pending' : k > rearLsn'
        BY <1>7, <2>6, <2>13
      <4>2. \A q \in Pend : \A i, j \in 1 .. Len(pend'[q]) : i < j => pend'[q][i] < pend'[q][j]
        <5> TAKE q \in Pend
        <5> TAKE i, j \in 1 .. Len(pend'[q])
        <5> HAVE i < j
        <5>1. \A k, n \in 1 .. Len(pend[q]) : k < n => pend[q][k] < pend[q][n]
          BY <1>1 DEF PendingOK, PendingIsNewer
        <5>2. CASE q = p
          <6>1. i + 1 < j + 1 /\ i + 1 \in 1 .. Len(pend[q]) /\ j + 1 \in 1 .. Len(pend[q])
            BY <2>2, <2>4, <5>2
          <6> QED
            BY <2>4, <5>1, <5>2, <6>1
        <5>3. CASE q # p
          BY <2>4, <5>1, <5>3
        <5> QED
          BY <5>2, <5>3
      <4> QED
        BY <4>1, <4>2 DEF PendingIsNewer
    <3>2. \A q, w \in Pend : \A i \in 1 .. Len(pend'[q]), j \in 1 .. Len(pend'[w]) :
            pend'[q][i] = pend'[w][j] => q = w
      <4>1. \A q, w \in Pend : \A i \in 1 .. Len(pend[q]), j \in 1 .. Len(pend[w]) :
              pend[q][i] = pend[w][j] => q = w
        BY <1>1 DEF PendingOK
      <4> QED
        BY <2>5, <4>1
    <3>3. \A q \in Pend : pendLatch'[q] # NoOne =>
            \A i \in 1 .. Len(pend'[q]) : pend'[q][i] < call'[pendLatch'[q]].my
      <4>1. \A q \in Pend : pendLatch[q] # NoOne =>
              \A i \in 1 .. Len(pend[q]) : pend[q][i] < call[pendLatch[q]].my
        BY <1>1 DEF PendingOK
      <4> QED
        BY <1>3, <2>5, <2>14, <4>1
    <3>4. \A u \in Thread : call'[u].pc \in Fresh =>
            /\ call[u].pc \in Fresh /\ call'[u].my = call[u].my
            /\ call[u].my \notin Published /\ call[u].my > l
      <4> TAKE u \in Thread
      <4> HAVE call'[u].pc \in Fresh
      <4>1. call[u].pc \in Fresh /\ call'[u].my = call[u].my /\ call[u].my \notin Published
        BY <1>1, <1>7, <2>7, <2>10 DEF PendingOK
      <4>2. CASE u = t
        <5>1. EndLsn(t) = call[t].my - 1
          BY <1>2, <4>1, <4>2 DEF EndLsn, Writing, Fresh
        <5> QED
          BY <1>1, <2>1, <2>3, <4>1, <4>2, <5>1, LsnsAreInts
      <4>3. CASE u # t
        <5>1. call[u].pc = "publish"
          BY <1>1, <1>4, <4>1, <4>3, OneHolder DEF Fresh, Latched
        <5> QED
          BY <2>1, <4>1, <5>1
      <4> QED
        BY <4>2, <4>3
    <3>5. \A u \in Thread : call'[u].pc \in Fresh =>
            call'[u].my \notin Published' /\ call'[u].my > rearLsn'
      BY <1>7, <2>6, <2>11, <3>4
    <3>6. \A u, w \in Thread :
            call'[u].pc \in Fresh /\ call'[w].pc \in Fresh /\ call'[u].my = call'[w].my => u = w
      BY <1>1, <3>4 DEF PendingOK
    <3>7. \A q \in Pend : cursor'[q] <= Len(pend'[q])
      BY <1>1, <2>2, <2>4 DEF PendingOK
    <3> QED
      BY <3>1, <3>2, <3>3, <3>5, <3>6, <3>7 DEF PendingOK
  <2>16. \A u \in Thread : Settled(u)'
    <3>1. ASSUME NEW u \in Thread, u # t PROVE Settled(u)'
      <4>1. call'[u].pc \notin Latched
        BY <1>1, <1>4, <2>10, <3>1, OneHolder
      <4> QED
        BY <4>1 DEF Settled, Latched
    <3>2. Settled(t)'
      <4>1. EndLsn(t)' = EndLsn(t)
        BY <1>7, <2>7 DEF EndLsn, Writing
      <4>2. \A q \in Pend : NewerCopied(q, EndLsn(t)) => NewerCopied(q, EndLsn(t))'
        BY <1>3, <2>14, <4>1 DEF NewerCopied
      <4>3. \A q \in Pend : /\ NewerCopied(q, EndLsn(t))
                            /\ \A i \in cursor[q] + 1 .. Len(pend[q]) : pend[q][i] > EndLsn(t)
        BY <1>1, <1>2 DEF Settled
      <4>4. \A q \in Pend : \A i \in cursor'[q] + 1 .. Len(pend'[q]) : pend'[q][i] > EndLsn(t)
        <5> TAKE q \in Pend
        <5> TAKE i \in cursor'[q] + 1 .. Len(pend'[q])
        <5>1. CASE q # p
          BY <2>4, <4>3, <5>1
        <5>2. CASE q = p
          <6>1. i \in 1 .. Len(pend'[p]) /\ i + 1 \in cursor[p] + 1 .. Len(pend[p])
            BY <1>5, <2>2, <2>4, <5>2
          <6> QED
            BY <2>4, <4>3, <5>2, <6>1
        <5> QED
          BY <5>1, <5>2
      <4>5. call'[t].pc \notin {"writeWait", "flushWait", "put"}
        BY <1>2, <1>7
      <4>6. \A q \in Pend : /\ NewerCopied(q, EndLsn(t))'
                            /\ \A i \in cursor'[q] + 1 .. Len(pend'[q]) : pend'[q][i] > EndLsn(t)'
        BY <4>1, <4>2, <4>3, <4>4
      <4> QED
        BY <4>5, <4>6 DEF Settled
    <3> QED
      BY <3>1, <3>2
  <2> QED
    BY <1>2, <2>3, <2>6, <2>8, <2>9, <2>11, <2>15, <2>16 DEF LogInv
<1> QED
  BY <1>3, <1>5, <1>6, <1>7

-----------------------------------------------------------------------------
(* The invariant: the front moves, and a crash. *)

\* The LSN that a block header stands for: that log and all before it end in blocks up
\* to that one.
LEMMA HeaderIs ==
  ASSUME TypeOK, BufferOK, NEW b \in Nat, b < rearSbsn
  PROVE  /\ HeaderLsn(b) \in 0 .. rearLsn
         /\ \A r \in buffer : r.lsn <= HeaderLsn(b) => r.last <= b
<1> DEFINE S == {q \in buffer : q.first <= b}
           L == {q.lsn : q \in S}
           last == CHOOSE r \in buffer : /\ r.first <= b /\ b <= r.last
                                         /\ \A q \in buffer : q.first <= b => q.lsn <= r.lsn
<1>1. /\ rearLsn \in Nat /\ rearSbsn \in Nat
      /\ \A q \in buffer : /\ q.lsn \in Nat /\ q.lsn > 0 /\ q.first \in Nat /\ q.last \in Nat
                           /\ q.first <= q.last /\ q.lsn <= rearLsn
  BY TypeIs DEF BufferOK
<1>2. PICK r0 \in buffer : r0.first <= b /\ b <= r0.last
  BY <1>1 DEF BufferOK
<1>3. PICK n \in S : \A q \in S : q.lsn <= n.lsn
  <2>1. L \in SUBSET Int /\ L # {} /\ \A x \in L : x <= rearLsn
    BY <1>1, <1>2
  <2>2. rearLsn \in Int
    BY <1>1
  <2>3. \A x \in L : \E q \in S : x = q.lsn
    OBVIOUS
  <2>4. \A q \in S : q.lsn \in L
    OBVIOUS
  <2> HIDE DEF L, S
  <2>5. Max(L) \in L /\ \A x \in L : x <= Max(L)
    BY <2>1, <2>2, MaxOfBounded
  <2> QED
    BY <2>3, <2>4, <2>5
<1>4. n \in buffer /\ n.first <= b /\ r0 \in S
  BY <1>2, <1>3
<1>5. b <= n.last
  <2>1. r0.lsn <= n.lsn
    BY <1>3, <1>4
  <2>2. CASE r0.lsn = n.lsn
    BY <1>2, <1>4, <2>2 DEF BufferOK
  <2>3. CASE r0.lsn < n.lsn
    <3>1. r0.last <= n.first
      BY <1>4, <2>3 DEF BufferOK
    <3> QED
      BY <1>1, <1>2, <1>4, <3>1
  <2> QED
    BY <1>1, <1>4, <2>1, <2>2, <2>3
<1>6. \A q \in buffer : q.first <= b => q.lsn <= n.lsn
  BY <1>3
<1>7. last \in buffer /\ last.first <= b /\ b <= last.last
  BY <1>4, <1>5, <1>6
<1>8. HeaderLsn(b) = IF last.last > b THEN last.lsn - 1 ELSE last.lsn
  BY DEF HeaderLsn
<1> HIDE DEF last, S, L
<1>9. HeaderLsn(b) \in 0 .. rearLsn
  BY <1>1, <1>7, <1>8
<1>10. ASSUME NEW r \in buffer, r.lsn <= HeaderLsn(b) PROVE r.last <= b
  <2>1. CASE r.lsn < last.lsn
    <3>1. r.last <= last.first
      BY <1>7, <2>1 DEF BufferOK
    <3> QED
      BY <1>1, <1>7, <3>1
  <2>2. CASE r.lsn = last.lsn
    <3>1. r = last
      BY <1>7, <2>2 DEF BufferOK
    <3>2. ~(last.last > b)
      BY <1>1, <1>7, <1>8, <1>10, <2>2
    <3> QED
      BY <1>1, <1>7, <3>1, <3>2
  <2> QED
    BY <1>1, <1>7, <1>8, <1>10, <2>1, <2>2
<1> QED
  BY <1>9, <1>10

LEMMA EndDiskIs ==
  ASSUME LogInv, NEW t \in Thread, EndDisk(t)
  PROVE  /\ TypeOK' /\ Only(t) /\ GoOn(t) /\ call[t].pc = "disk" /\ fileLatch' = NoOne
         /\ call'[t].pc \in {"idle", "try", "flush", "all"}
         /\ call[t].till \in Nat /\ frontSbsn < call[t].till /\ call[t].till < rearSbsn
         /\ frontSbsn' = call[t].till /\ frontLsn' = HeaderLsn(call[t].till)
         /\ HeaderLsn(call[t].till) \in 0 .. rearLsn
         /\ \A r \in buffer : r.lsn <= frontLsn' => r.last <= frontSbsn'
<1>1. TypeOK /\ BufferOK /\ FrontOK
  BY DEF LogInv
<1>2. call[t].pc = "disk" /\ GoOn(t) /\ fileLatch' = NoOne
      /\ frontSbsn' = call[t].till /\ frontLsn' = HeaderLsn(call[t].till)
  BY DEF EndDisk, At
<1>3. frontSbsn < call[t].till /\ call[t].till < rearSbsn
  BY <1>1, <1>2 DEF FrontOK
<1>4. call[t].till \in Nat
  <2>1. call[t].till \in Nat \cup {InvalidSbsn, Unbounded} /\ frontSbsn \in Nat \cup {-1}
    BY <1>1, CallIsTyped, TypeIs DEF CallType
  <2> QED
    BY <1>3, <2>1 DEF InvalidSbsn, Unbounded
<1>5. /\ HeaderLsn(call[t].till) \in 0 .. rearLsn
      /\ \A r \in buffer : r.lsn <= HeaderLsn(call[t].till) => r.last <= call[t].till
  BY <1>1, <1>3, <1>4, HeaderIs
<1>6. /\ Only(t) /\ call'[t] \in CallType(lsn) /\ call'[t].pc = call[t].then
      /\ call[t].then \in {"idle", "try", "flush", "all"}
  BY <1>1, <1>2, GoOnIs, CallIsTyped DEF CallType
<1>7. call' \in [Thread -> CallType(lsn)]
  BY <1>1, <1>6, SameCallType
<1>8. frontLsn' \in 0 .. lsn - 1 /\ frontSbsn' \in Nat
  <2>1. rearLsn \in 0 .. lsn - 1 /\ lsn \in Nat /\ frontSbsn' \in Nat
    BY <1>1, <1>2, <1>4, TypeIs
  <2>2. frontLsn' \in 0 .. rearLsn
    BY <1>2, <1>5
  <2> QED
    BY <2>1, <2>2
<1>9. TypeOK'
  BY <1>1, <1>2, <1>7, <1>8, TypeIs DEF EndDisk, TypeOK, CallType, logVars, pendVars, worldVars
<1> QED
  BY <1>2, <1>3, <1>4, <1>5, <1>6, <1>9

LEMMA EndDiskKeeps ==
  ASSUME LogInv, NEW t \in Thread, EndDisk(t)
  PROVE  /\ LogInv' /\ UNCHANGED <<buffer, disk, pend>>
         /\ frontSbsn' \in Nat /\ frontSbsn < frontSbsn'
<1>1. TypeOK /\ OwnersOK /\ BufferOK /\ FrontOK /\ PendingOK /\ \A u \in Thread : Settled(u)
  BY DEF LogInv
<1> DEFINE b == call[t].till
<1>2. /\ TypeOK' /\ Only(t) /\ call[t].pc = "disk" /\ fileLatch' = NoOne
      /\ call'[t].pc \in {"idle", "try", "flush", "all"}
      /\ b \in Nat /\ frontSbsn < b /\ b < rearSbsn /\ frontSbsn' = b
      /\ frontLsn' \in 0 .. rearLsn
      /\ \A r \in buffer : r.lsn <= frontLsn' => r.last <= frontSbsn'
  BY EndDiskIs
<1> HIDE DEF b
<1>3. UNCHANGED <<buffer, rearLsn, rearSbsn, disk, dirty, pend, pendLatch, awaited, cursor,
                  bufferLatch>>
  BY DEF EndDisk, logVars, pendVars, worldVars
<1>4. call'[t].pc \notin Latched \cup Fresh \cup {"publish", "disk"}
      /\ call[t].pc \notin Latched \cup Fresh \cup {"publish"}
  BY <1>2 DEF Latched, Fresh
<1>5. /\ rearSbsn \in Nat /\ frontSbsn \in Int /\ rearLsn \in Nat /\ Room \in Nat
      /\ \A r \in buffer : r.last \in Nat
  BY <1>1, TypeIs, ThreadFacts
<1>6. OwnersOK'
  <2>1. LatchStep(t) /\ FileStep(t)
    BY <1>2, <1>3, <1>4 DEF LatchStep, FileStep
  <2> QED
    BY <1>1, <1>2, <1>3, <1>4, <2>1, OwnersKept
<1>7. BufferOK'
  <2>1. \A r \in buffer : r.last - frontSbsn' < Room
    BY <1>1, <1>2, <1>5 DEF BufferOK
  <2> QED
    BY <1>1, <1>3, <2>1 DEF BufferOK
<1>8. FrontOK'
  <2>1. FrontBelowRear'
    <3>1. frontSbsn' < rearSbsn' /\ rearSbsn' - frontSbsn' <= Room + 1
      BY <1>1, <1>2, <1>3, <1>5 DEF FrontOK, FrontBelowRear
    <3> QED
      BY <3>1 DEF FrontBelowRear
  <2>2. \A u \in Thread : call'[u].pc # "disk"
    BY <1>1, <1>2, <1>6, ThreadFacts DEF OwnersOK
  <2>3. frontLsn' <= rearLsn'
    BY <1>2, <1>3
  <2> QED
    BY <1>2, <1>3, <2>1, <2>2, <2>3 DEF FrontOK
<1>9. /\ PendingOK' /\ Pending' = Pending
      /\ \A p \in Pend : \A l : NewerCopied(p, l)' <=> NewerCopied(p, l)
  BY <1>1, <1>2, <1>3, <1>4, PendingKept DEF PendingOK
<1>10. \A u \in Thread : Settled(u)'
  <2>1. Settled(t)'
    BY <1>4 DEF Settled, Latched
  <2> QED
    BY <1>1, <1>2, <1>3, <1>6, <1>9, <2>1, SettledKept
<1> QED
  BY <1>2, <1>3, <1>6, <1>7, <1>8, <1>9, <1>10 DEF LogInv

LEMMA InitLog ==
  Init => LogInv
<1> SUFFICES ASSUME Init PROVE LogInv
  OBVIOUS
<1>1. /\ lsn = 1 /\ buffer = {} /\ rearLsn = 0 /\ rearSbsn = 0 /\ frontLsn = 0 /\ frontSbsn = -1
      /\ bufferLatch = NoOne /\ fileLatch = NoOne /\ awaited = {} /\ disk = {} /\ dirty = {}
      /\ \A p \in Pend : pend[p] = << >> /\ pendLatch[p] = NoOne /\ cursor[p] = 0
      /\ \A t \in Thread : call[t] = Free
  BY DEF Init
<1>2. NoOne \notin Thread /\ Free.pc = "idle"
  BY ThreadFacts DEF Free
<1>3. TypeOK
  <2>1. Free \in CallType(1)
    BY FreeType
  <2>2. pend \in [Pend -> Seq(1 .. lsn - 1)]
    BY DEF Init
  <2>3. call \in [Thread -> CallType(lsn)]
    BY <1>1, <2>1 DEF Init
  <2> QED
    BY <1>1, <2>2, <2>3 DEF Init, TypeOK, CallType
<1>4. OwnersOK /\ \A t \in Thread : Settled(t)
  BY <1>1, <1>2 DEF OwnersOK, Settled, Latched
<1>5. BufferOK
  BY <1>1 DEF BufferOK
<1>6. FrontOK
  <2>1. FrontBelowRear
    BY <1>1, ThreadFacts DEF FrontBelowRear
  <2> QED
    BY <1>1, <1>2, <2>1 DEF FrontOK
<1>7. Published = {} /\ Pending = {}
  <2>1. \A p \in Pend : 1 .. Len(pend[p]) = {}
    BY <1>1
  <2> QED
    BY <1>1, <1>2, <2>1 DEF Published, Pending, At
<1>8. PendingOK
  <2>1. \A p \in Pend : Len(pend[p]) = 0 /\ 1 .. Len(pend[p]) = {}
    BY <1>1
  <2> QED
    BY <1>1, <1>2, <1>7, <2>1 DEF PendingOK, PendingIsNewer, Fresh
<1> QED
  BY <1>3, <1>4, <1>5, <1>6, <1>8 DEF LogInv

\* What a restart makes of the blocks that it finds: nothing after the log it goes on
\* with, and nothing before it is missed.
LEMMA RestartIs ==
  ASSUME LogInv, NEW b \in Int
  PROVE  /\ RestartLsn(b) \in Nat /\ RestartLsn(b) > 0 /\ RestartLsn(b) <= lsn
         /\ \A d \in disk \cup Whole(b) : d \in Nat /\ d > 0 /\ d < RestartLsn(b)
<1>1. TypeOK /\ BufferOK
  BY DEF LogInv
<1>2. /\ lsn \in Nat /\ lsn > 0 /\ \A d \in disk : d \in Nat /\ d > 0 /\ d < lsn
      /\ \A q \in buffer : /\ q.lsn \in Nat /\ q.lsn > 0 /\ q.lsn < lsn /\ q.first \in Nat
                           /\ q.last \in Nat /\ q.first <= q.last
  BY <1>1, TypeIs DEF BufferOK
<1>3. \A d \in Whole(b) : \E q \in buffer : q.last <= b /\ d = q.lsn
  BY DEF Whole
<1>4. \A d \in disk \cup Whole(b) : d \in Nat /\ d > 0 /\ d < lsn
  BY <1>2, <1>3
<1>5. CASE Partial(b) = {}
  <2> DEFINE T == {0} \cup disk \cup Whole(b)
  <2>1. T \in SUBSET Int /\ T # {} /\ \A x \in T : x \in Nat /\ x <= lsn - 1
    BY <1>2, <1>4
  <2>2. RestartLsn(b) = Max(T) + 1
    BY <1>5 DEF RestartLsn
  <2>3. disk \cup Whole(b) \subseteq T
    OBVIOUS
  <2> HIDE DEF T
  <2>4. Max(T) \in T /\ \A x \in T : x <= Max(T)
    <3>1. lsn - 1 \in Int
      BY <1>2
    <3> QED
      BY <2>1, <3>1, MaxOfBounded
  <2>5. Max(T) \in Nat /\ Max(T) <= lsn - 1
    BY <2>1, <2>4
  <2>6. \A d \in disk \cup Whole(b) : d <= Max(T)
    BY <2>3, <2>4
  <2> QED
    BY <1>2, <1>4, <2>2, <2>5, <2>6
<1>6. CASE Partial(b) # {}
  <2> DEFINE r == CHOOSE q \in Partial(b) : TRUE
  <2>1. r \in Partial(b) /\ RestartLsn(b) = IF Alone(r) THEN r.lsn + 1 ELSE r.lsn
    BY <1>6 DEF RestartLsn
  <2> HIDE DEF r
  <2>2. r \in buffer /\ b < r.last
    BY <2>1 DEF Partial
  <2>3. \A d \in disk : d < r.lsn
    BY <1>1, <2>2 DEF BufferOK
  <2>4. \A q \in buffer : q.last <= b => q.lsn < r.lsn
    <3> TAKE q \in buffer
    <3> HAVE q.last <= b
    <3>1. q # r
      BY <1>2, <2>2
    <3>2. q.lsn # r.lsn
      BY <1>1, <2>2, <3>1 DEF BufferOK
    <3>3. ~(r.lsn < q.lsn)
      <4> SUFFICES ASSUME r.lsn < q.lsn PROVE FALSE
        OBVIOUS
      <4>1. r.last <= q.first
        BY <1>1, <2>2 DEF BufferOK
      <4> QED
        BY <1>2, <2>2, <4>1
    <3> QED
      BY <1>2, <2>2, <3>2, <3>3
  <2>5. \A d \in disk \cup Whole(b) : d < r.lsn
    BY <1>3, <2>3, <2>4
  <2> QED
    BY <1>2, <1>4, <2>1, <2>2, <2>5
<1> QED
  BY <1>5, <1>6

LEMMA LastBlocksAre ==
  ASSUME LogInv, NEW b \in LastBlocks
  PROVE  b \in Int /\ frontSbsn <= b
<1> DEFINE T == {frontSbsn} \cup {call[t].till : t \in {u \in Thread : At(u, "disk")}}
<1>1. TypeOK /\ FrontOK
  BY DEF LogInv
<1>2. frontSbsn \in Int /\ rearSbsn \in Int /\ frontSbsn <= rearSbsn
  BY <1>1, TypeIs DEF FrontOK, FrontBelowRear
<1>3. \A x \in T : x \in Int /\ x <= rearSbsn
  <2> TAKE x \in T
  <2>1. CASE x = frontSbsn
    BY <1>2, <2>1
  <2>2. CASE x # frontSbsn
    <3>1. PICK t \in Thread : call[t].pc = "disk" /\ x = call[t].till
      BY <2>2 DEF At
    <3>2. call[t].till \in Nat \cup {InvalidSbsn, Unbounded}
      BY <1>1, CallIsTyped DEF CallType
    <3>3. call[t].till < rearSbsn
      BY <1>1, <3>1 DEF FrontOK
    <3> QED
      BY <1>2, <3>1, <3>2, <3>3 DEF InvalidSbsn, Unbounded
  <2> QED
    BY <2>1, <2>2
<1>4. T \in SUBSET Int /\ T # {}
  BY <1>3
<1>5. b \in frontSbsn .. Max(T)
  BY DEF LastBlocks
<1> HIDE DEF T
<1>6. Max(T) \in Int
  BY <1>2, <1>3, <1>4, MaxOfBounded
<1> QED
  BY <1>2, <1>5, <1>6

LEMMA CrashKeeps ==
  ASSUME LogInv, CrashAndRestart
  PROVE  /\ LogInv' /\ buffer' = {} /\ Published' = {} /\ frontSbsn' = -1
         /\ \E b \in LastBlocks : disk' = disk \cup Whole(b)
<1>1. PICK b \in LastBlocks :
        /\ disk' = disk \cup Whole(b) /\ lsn' = RestartLsn(b)
        /\ rearLsn' = RestartLsn(b) - 1 /\ frontLsn' = RestartLsn(b) - 1
  BY DEF CrashAndRestart
<1>2. /\ buffer' = {} /\ rearSbsn' = 0 /\ frontSbsn' = -1 /\ groupLsn' = 0
      /\ bufferLatch' = NoOne /\ fileLatch' = NoOne /\ flushWaiter' = NoOne
      /\ awaited' = {} /\ dirty' = {} /\ crashes' \in Nat
      /\ \A p \in Pend : pend'[p] = << >> /\ pendLatch'[p] = NoOne /\ cursor'[p] = 0
      /\ \A t \in Thread : call'[t] = Free
  BY TypeIs DEF CrashAndRestart, LogInv
<1>3. NoOne \notin Thread /\ Free.pc = "idle"
  BY ThreadFacts DEF Free
<1>4. /\ lsn' \in Nat /\ lsn' > 0
      /\ \A d \in disk' : d \in Nat /\ d > 0 /\ d < lsn' /\ d <= rearLsn'
  <2> DEFINE n == RestartLsn(b)
  <2>1. n \in Nat /\ n > 0 /\ \A d \in disk \cup Whole(b) : d \in Nat /\ d > 0 /\ d < n
    BY RestartIs, LastBlocksAre
  <2>2. lsn' = n /\ rearLsn' = n - 1
    BY <1>1
  <2> HIDE DEF n
  <2> QED
    BY <1>1, <2>1, <2>2
<1>5. TypeOK'
  <2>1. Free \in CallType(lsn')
    BY <1>4, FreeType
  <2>2. pend' \in [Pend -> Seq(1 .. lsn' - 1)] /\ cursor' \in [Pend -> Nat]
        /\ pendLatch' \in [Pend -> Thread \cup {NoOne}]
    BY DEF CrashAndRestart
  <2>3. call' \in [Thread -> CallType(lsn')]
    BY <2>1 DEF CrashAndRestart
  <2>4. rearLsn' \in 0 .. lsn' - 1 /\ frontLsn' \in 0 .. lsn' - 1 /\ groupLsn' \in 0 .. lsn' - 1
    BY <1>1, <1>2, <1>4
  <2>5. disk' \subseteq 1 .. lsn' - 1
    BY <1>4
  <2> QED
    BY <1>2, <1>4, <2>2, <2>3, <2>4, <2>5 DEF TypeOK, CallType
<1>6. OwnersOK' /\ \A t \in Thread : Settled(t)'
  BY <1>2, <1>3 DEF OwnersOK, Settled, Latched
<1>7. BufferOK'
  BY <1>2, <1>4 DEF BufferOK
<1>8. FrontOK'
  <2>1. frontSbsn' < rearSbsn' /\ rearSbsn' - frontSbsn' <= Room + 1
    BY <1>2, ThreadFacts
  <2>2. frontLsn' <= rearLsn'
    BY <1>1, <1>4
  <2> QED
    BY <1>2, <1>3, <2>1, <2>2 DEF FrontOK, FrontBelowRear
<1>9. Published' = {} /\ Pending' = {}
  <2>1. \A p \in Pend : 1 .. Len(pend'[p]) = {}
    BY <1>2
  <2>2. Published' = {}
    BY <2>1 DEF Published
  <2> QED
    BY <1>2, <1>3, <2>2 DEF Pending, At
<1>10. PendingOK'
  <2>1. \A p \in Pend : Len(pend'[p]) = 0 /\ 1 .. Len(pend'[p]) = {}
    BY <1>2
  <2> QED
    BY <1>2, <1>3, <1>9, <2>1 DEF PendingOK, PendingIsNewer, Fresh
<1> QED
  BY <1>1, <1>2, <1>5, <1>6, <1>7, <1>8, <1>9, <1>10 DEF LogInv

-----------------------------------------------------------------------------
(* The theorems. *)

\* How a step may move logs: not at all, or into a pending buffer, into the log buffer,
\* out of a pending buffer into the log buffer, or to disk; and what a crash leaves.
Stays     == UNCHANGED <<buffer, frontSbsn, disk, pend>>
Publishes ==
  /\ UNCHANGED <<buffer, frontSbsn, disk>>
  /\ \E l \in Nat : Published' = Published \cup {l} /\ l > rearLsn
Puts ==
  /\ UNCHANGED <<frontSbsn, disk, pend>>
  /\ \E r : buffer' = buffer \cup {r} /\ r.lsn > rearLsn /\ r.last >= rearSbsn
Applies ==
  /\ UNCHANGED <<frontSbsn, disk>>
  /\ \E r : /\ buffer' = buffer \cup {r} /\ r.lsn > rearLsn /\ r.last >= rearSbsn
            /\ Published = Published' \cup {r.lsn}
Hardens == UNCHANGED <<buffer, disk, pend>> /\ frontSbsn' \in Nat /\ frontSbsn < frontSbsn'
Crashes ==
  /\ buffer' = {} /\ Published' = {} /\ frontSbsn' = -1
  /\ \E b \in LastBlocks : disk' = disk \cup Whole(b)
Moves == Stays \/ Publishes \/ Puts \/ Applies \/ Hardens

LEMMA WriteMoves ==
  ASSUME LogInv, NEW t \in Trans, Write(t)
  PROVE  LogInv' /\ Moves
<1>1. CASE \E o \in {"log", "commit"} : TryBufferLatch(t, o)
  <2>1. Stays
    BY <1>1 DEF TryBufferLatch, Stays, logVars, frontVars, pendVars, worldVars
  <2> QED
    BY <1>1, <2>1, TryBufferLatchKeeps DEF Moves
<1>2. CASE AcquireBufferLatch(t)
  <2>1. Stays
    BY <1>2 DEF AcquireBufferLatch, Stays, logVars, frontVars, pendVars, worldVars
  <2> QED
    BY <1>2, <2>1, AcquireBufferLatchKeeps DEF Moves
<1>3. CASE BeginPendingLog(t)
  <2>1. Stays
    BY <1>3 DEF BeginPendingLog, Stays, frontVars, worldVars
  <2> QED
    BY <1>3, <2>1, BeginPendingLogKeeps DEF Moves
<1>4. CASE PublishPendingLog(t)
  <2>1. Publishes
    BY <1>4, PublishPendingLogKeeps DEF Publishes, frontVars
  <2> QED
    BY <1>4, <2>1, PublishPendingLogKeeps DEF Moves
<1>5. CASE TakeLsn(t)
  <2>1. Stays
    BY <1>5 DEF TakeLsn, Stays, frontVars, worldVars
  <2> QED
    BY <1>5, <2>1, TakeLsnKeeps DEF Moves
<1>6. CASE PutLog(t)
  <2>1. Stays \/ Puts
    BY <1>6, PutLogKeeps DEF Stays, Puts, frontVars
  <2> QED
    BY <1>6, <2>1, PutLogKeeps DEF Moves
<1> QED
  BY <1>1, <1>2, <1>3, <1>4, <1>5, <1>6 DEF Write

LEMMA ApplyMoves ==
  ASSUME LogInv, NEW t \in Thread, Apply(t)
  PROVE  LogInv' /\ Moves
<1>1. CASE WaitPendingLog(t)
  <2>1. Stays
    BY <1>1 DEF WaitPendingLog, Stays, logVars, frontVars, worldVars
  <2> QED
    BY <1>1, <2>1, WaitPendingLogKeeps DEF Moves
<1>2. CASE ApplyPendingLog(t)
  <2>1. Stays \/ Applies
    BY <1>2, ApplyPendingLogKeeps DEF Stays, Applies, frontVars
  <2> QED
    BY <1>2, <2>1, ApplyPendingLogKeeps DEF Moves
<1>3. CASE PendingLogsApplied(t)
  <2>1. Stays
    BY <1>3 DEF PendingLogsApplied, Stays, logVars, frontVars, worldVars
  <2> QED
    BY <1>3, <2>1, PendingLogsAppliedKeeps DEF Moves
<1> QED
  BY <1>1, <1>2, <1>3 DEF Apply

LEMMA FlushMoves ==
  ASSUME LogInv, NEW t \in Trans \cup PageWriters, Flush(t)
  PROVE  LogInv' /\ Moves
<1>1. t \in Thread
  BY ThreadFacts
<1>2. Stays
  BY DEF Flush, BeginFlush, JoinGroup, DriveGroup, FlushByTrans, WaitForRoom, EndWait, Stays,
         logVars, frontVars, pendVars, worldVars
<1> QED
  BY <1>1, <1>2, BeginFlushKeeps, JoinGroupKeeps, DriveGroupKeeps, FlushByTransKeeps,
     WaitForRoomKeeps, EndWaitKeeps
  DEF Flush, Moves

LEMMA DiskMoves ==
  ASSUME LogInv, NEW t \in Thread, Disk(t)
  PROVE  LogInv' /\ Moves
<1>1. CASE CloseBlock(t)
  <2>1. Stays
    BY <1>1 DEF CloseBlock, Stays, frontVars, pendVars, worldVars
  <2> QED
    BY <1>1, <2>1, CloseBlockKeeps DEF Moves
<1>2. CASE FlushBuffer(t)
  <2>1. Stays
    BY <1>2 DEF FlushBuffer, Stays, logVars, frontVars, pendVars, worldVars
  <2> QED
    BY <1>2, <2>1, FlushBufferKeeps DEF Moves
<1>3. CASE EndDisk(t)
  <2>1. Hardens
    BY <1>3, EndDiskKeeps DEF Hardens
  <2> QED
    BY <1>3, <2>1, EndDiskKeeps DEF Moves
<1> QED
  BY <1>1, <1>2, <1>3 DEF Disk

LEMMA FlusherMoves ==
  ASSUME LogInv, FlushStreamLog \/ BeginFlushAll \/ FlushAllLogs \/ ReacquireForClose
  PROVE  LogInv' /\ Moves
<1>1. Stays
  BY DEF FlushStreamLog, BeginFlushAll, FlushAllLogs, ReacquireForClose, Stays, logVars,
         frontVars, pendVars, worldVars
<1> QED
  BY <1>1, FlushStreamLogKeeps, BeginFlushAllKeeps, FlushAllLogsKeeps, ReacquireForCloseKeeps
  DEF Moves

LEMMA StutterMoves ==
  ASSUME LogInv, UNCHANGED vars
  PROVE  LogInv' /\ Moves
<1> USE DEF vars, logVars, frontVars, pendVars, worldVars
<1>1. TypeOK' /\ OwnersOK' /\ BufferOK' /\ FrontOK'
  BY DEF LogInv, TypeOK, OwnersOK, BufferOK, FrontOK, FrontBelowRear
<1>2. Published' = Published /\ Pending' = Pending
  BY DEF Published, Pending, At
<1>3. PendingOK'
  BY <1>2 DEF LogInv, PendingOK, PendingIsNewer
<1>4. \A t \in Thread : Settled(t)'
  BY <1>2 DEF LogInv, Settled, NewerCopied, EndLsn, Writing
<1> QED
  BY <1>1, <1>3, <1>4 DEF LogInv, Moves, Stays

\* LogInv is inductive, and every step that is no crash moves logs in one of the five ways.
LEMMA LogStep ==
  ASSUME LogInv, [Next]_vars
  PROVE  LogInv' /\ (Moves \/ (CrashAndRestart /\ Crashes))
<1>1. CASE \E t \in Trans : Write(t)
  BY <1>1, WriteMoves
<1>2. CASE \E t \in PageWriters : CollectPages(t)
  <2>1. Stays
    BY <1>2 DEF CollectPages, Stays, logVars, frontVars, pendVars
  <2> QED
    BY <1>2, <2>1, CollectPagesKeeps DEF Moves
<1>3. CASE \E t \in Trans \cup PageWriters : Flush(t)
  BY <1>3, FlushMoves
<1>4. CASE \E t \in Thread : Apply(t) \/ Disk(t)
  BY <1>4, ApplyMoves, DiskMoves
<1>5. CASE FlushStreamLog \/ BeginFlushAll \/ FlushAllLogs \/ ReacquireForClose
  BY <1>5, FlusherMoves
<1>6. CASE CrashAndRestart
  BY <1>6, CrashKeeps DEF Crashes
<1>7. CASE UNCHANGED vars
  BY <1>7, StutterMoves
<1> QED
  BY <1>1, <1>2, <1>3, <1>4, <1>5, <1>6, <1>7 DEF Next

\* Whatever the threads, the flusher and the crashes do, what the latches protect is as
\* LogInv says: which thread owns what, where the logs of the buffer lie, how far the disk
\* is, and what is still pending.  Every other theorem here rests on it.
THEOREM LogInvAlways == Spec => []LogInv
<1>1. Init => LogInv
  BY InitLog
<1>2. LogInv /\ [Next]_vars => LogInv'
  BY LogStep
<1> QED
  BY <1>1, <1>2, PTL DEF Spec

\* Every variable of the log buffer keeps its type: LSNs stay below mLsn, the cursor and
\* the pending buffers hold LSNs that were given out, and so on.
THEOREM LogTypes == Spec => []TypeOK
<1>1. LogInv => TypeOK
  BY DEF LogInv
<1> QED
  BY <1>1, LogInvAlways, PTL

\* Whatever waits in a pending buffer, or is being copied into one, is newer than every
\* log of the log buffer, and each pending buffer is in LSN order: smrReadPendingLog may
\* merge the buffers by looking at their heads.
THEOREM PendingStaysNewer == Spec => []PendingIsNewer
<1>1. LogInv => PendingIsNewer
  BY DEF LogInv, PendingOK
<1> QED
  BY <1>1, LogInvAlways, PTL

\* The rear block, which is still written to, never reaches the disk, and the rear never
\* comes round to the front: the STL_DASSERTs of smrLogBuffer.c:2194 and :1386 hold.
THEOREM FrontStaysBelowRear == Spec => []FrontBelowRear
<1>1. LogInv => FrontBelowRear
  BY DEF LogInv, FrontOK
<1> QED
  BY <1>1, LogInvAlways, PTL

\* mFrontLsn, by which a commit returns, stands for every log up to it: none of them is in
\* a block not yet written, and none is pending, though LSNs are taken under other latches.
THEOREM FrontLsnStaysDurable == Spec => []FrontLsnIsDurable
<1>1. LogInv => FrontLsnIsDurable
  <2> SUFFICES ASSUME LogInv PROVE FrontLsnIsDurable
    OBVIOUS
  <2>1. rearLsn \in Nat /\ frontLsn \in Nat /\ frontLsn <= rearLsn
    BY TypeIs DEF LogInv, FrontOK
  <2>2. \A l \in Pending : l \in Nat /\ l > rearLsn
    BY PendingLsns DEF LogInv, PendingOK, PendingIsNewer
  <2> QED
    BY <2>1, <2>2 DEF LogInv, FrontOK, FrontLsnIsDurable
<1> QED
  BY <1>1, LogInvAlways, PTL

\* Logs enter the log buffer in the order of their LSN (KNL_ASSERT, smrLogBuffer.c:1470).
THEOREM LogsEnterInOrder == Spec => LsnOrder
<1>1. LogInv /\ [Next]_vars => [\A r \in buffer' \ buffer : r.lsn > rearLsn]_vars
  BY LogStep DEF Moves, Stays, Publishes, Puts, Applies, Hardens, Crashes
<1> QED
  BY <1>1, LogInvAlways, PTL DEF Spec, LsnOrder

-----------------------------------------------------------------------------
(* LogBuffer implements RedoLog. *)

LEMMA LoggedIs ==
  /\ \A l : l \in Logged <=> \/ l \in disk
                             \/ \E q \in buffer : l = q.lsn
                             \/ l \in Published
  /\ \A b, l : l \in Whole(b) <=> \E q \in buffer : q.last <= b /\ l = q.lsn
BY DEF Logged, Whole

LEMMA DurableIsLogged ==
  ASSUME LogInv, NEW l \in Durable
  PROVE  l \in Logged /\ l <= rearLsn /\ l \in Nat /\ rearLsn \in Nat
<1>1. TypeOK /\ BufferOK
  BY DEF LogInv
<1>2. CASE l \in disk
  BY <1>1, <1>2, LoggedIs, TypeIs DEF BufferOK
<1>3. CASE l \in Whole(frontSbsn)
  BY <1>1, <1>3, LoggedIs, TypeIs DEF BufferOK
<1> QED
  BY <1>2, <1>3 DEF Durable

\* What the blocks up to b hold, with what was on disk before, comes before all the rest.
LEMMA DiskIsPrefix ==
  ASSUME LogInv, NEW b \in Int, NEW a \in disk \cup Whole(b), NEW c \in Logged,
         c \notin disk \cup Whole(b)
  PROVE  a < c
<1>1. TypeOK /\ BufferOK
  BY DEF LogInv
<1>2. /\ rearLsn \in Nat
      /\ \A q \in buffer : /\ q.lsn \in Nat /\ q.first \in Nat /\ q.last \in Nat
                           /\ q.first <= q.last /\ q.lsn <= rearLsn
  BY <1>1, TypeIs DEF BufferOK
<1>3. a \in Nat /\ a <= rearLsn
  BY <1>1, <1>2, LoggedIs, TypeIs DEF BufferOK
<1>4. CASE c \in Published
  BY <1>1, <1>2, <1>3, <1>4, PublishedLsns DEF LogInv, PendingOK, PendingIsNewer
<1>5. CASE \E r \in buffer : c = r.lsn
  <2>1. PICK r \in buffer : c = r.lsn
    BY <1>5
  <2>2. ~(r.last <= b)
    BY <2>1, LoggedIs
  <2>3. CASE a \in disk
    BY <1>1, <2>1, <2>3 DEF BufferOK
  <2>4. CASE a \in Whole(b)
    <3>1. PICK q \in buffer : q.last <= b /\ a = q.lsn
      BY <2>4, LoggedIs
    <3>2. q # r
      BY <2>2, <3>1
    <3>3. q.lsn # r.lsn
      BY <1>1, <3>2 DEF BufferOK
    <3>4. ~(r.lsn < q.lsn)
      <4> SUFFICES ASSUME r.lsn < q.lsn PROVE FALSE
        OBVIOUS
      <4>1. r.last <= q.first
        BY <1>1 DEF BufferOK
      <4> QED
        BY <1>2, <2>2, <3>1, <4>1
    <3> QED
      BY <1>2, <2>1, <3>1, <3>3, <3>4
  <2> QED
    BY <2>3, <2>4
<1> QED
  BY <1>4, <1>5, LoggedIs

\* A log that comes into the buffer lies behind the front.
LEMMA AddedIsNotDurable ==
  ASSUME LogInv, LogInv', NEW r, buffer' = buffer \cup {r}, r.last >= rearSbsn,
         UNCHANGED <<frontSbsn, disk>>
  PROVE  Durable' = Durable
<1>1. r \in buffer' /\ TypeOK' /\ TypeOK /\ FrontOK
  BY DEF LogInv
<1>2. r.last \in Nat /\ frontSbsn \in Int /\ rearSbsn \in Nat /\ frontSbsn < rearSbsn
  <2>1. buffer' \subseteq [lsn : 1 .. lsn' - 1, first : Nat, last : Nat]
    BY <1>1 DEF TypeOK
  <2> QED
    BY <1>1, <2>1, TypeIs DEF FrontOK, FrontBelowRear
<1>3. ~(r.last <= frontSbsn)
  BY <1>2
<1>4. Whole(frontSbsn)' = Whole(frontSbsn)
  BY <1>3 DEF Whole
<1> QED
  BY <1>4 DEF Durable

LEMMA RedoStep ==
  ASSUME LogInv, LogInv', Moves \/ Crashes
  PROVE  [Redo!Next]_<<Logged, Durable>>
<1>1. CASE Stays
  <2>1. Published' = Published
    BY <1>1 DEF Published, Stays
  <2>2. Logged' = Logged /\ Durable' = Durable
    BY <1>1, <2>1 DEF Stays, Logged, Durable, Whole
  <2> QED
    BY <2>2
<1>2. CASE Publishes
  <2>1. Durable' = Durable
    BY <1>2 DEF Publishes, Durable, Whole
  <2>2. PICK l \in Nat : Published' = Published \cup {l} /\ l > rearLsn
    BY <1>2 DEF Publishes
  <2>3. Logged' = Logged \cup {l}
    BY <1>2, <2>2 DEF Publishes, Logged
  <2>4. \A s \in Durable, k \in Logged' \ Logged : s < k
    BY <2>2, <2>3, DurableIsLogged
  <2>5. Redo!Add
    BY <2>1, <2>3, <2>4 DEF Redo!Add
  <2> QED
    BY <2>5 DEF Redo!Next
<1>3. CASE Puts
  <2>1. PICK r : buffer' = buffer \cup {r} /\ r.lsn > rearLsn /\ r.last >= rearSbsn
    BY <1>3 DEF Puts
  <2>2. Durable' = Durable
    BY <1>3, <2>1, AddedIsNotDurable DEF Puts
  <2>3. Published' = Published
    BY <1>3 DEF Puts, Published
  <2>4. Logged' = Logged \cup {r.lsn}
    BY <1>3, <2>1, <2>3 DEF Puts, Logged
  <2>5. r.lsn \in Nat
    <3>1. r \in buffer' /\ buffer' \subseteq [lsn : 1 .. lsn' - 1, first : Nat, last : Nat]
      BY <2>1 DEF LogInv, TypeOK
    <3>2. lsn' \in Nat
      BY DEF LogInv, TypeOK
    <3> QED
      BY <3>1, <3>2
  <2>6. \A s \in Durable, k \in Logged' \ Logged : s < k
    BY <2>1, <2>4, <2>5, DurableIsLogged
  <2>7. Redo!Add
    BY <2>2, <2>4, <2>6 DEF Redo!Add
  <2> QED
    BY <2>7 DEF Redo!Next
<1>4. CASE Applies
  <2>1. PICK r : /\ buffer' = buffer \cup {r} /\ r.last >= rearSbsn
                 /\ Published = Published' \cup {r.lsn}
    BY <1>4 DEF Applies
  <2>2. Durable' = Durable
    BY <1>4, <2>1, AddedIsNotDurable DEF Applies
  <2>3. Logged' = Logged
    BY <1>4, <2>1 DEF Applies, Logged
  <2> QED
    BY <2>2, <2>3
<1>5. CASE Hardens
  <2>1. Logged' = Logged
    <3>1. Published' = Published
      BY <1>5 DEF Hardens, Published
    <3> QED
      BY <1>5, <3>1 DEF Hardens, Logged
  <2>2. Durable' = disk \cup Whole(frontSbsn')
    BY <1>5 DEF Hardens, Durable, Whole
  <2>3. \A q \in buffer : q.last <= frontSbsn => q.last <= frontSbsn'
    <3>1. frontSbsn \in Int /\ frontSbsn' \in Nat /\ \A q \in buffer : q.last \in Nat
      BY <1>5, TypeIs DEF LogInv, Hardens
    <3> QED
      BY <1>5, <3>1 DEF Hardens
  <2>4. Durable \subseteq Durable' /\ Durable' \subseteq Logged
    BY <2>2, <2>3, LoggedIs DEF Durable
  <2>5. \A a \in Durable', c \in Logged \ Durable' : a < c
    BY <1>5, <2>2, DiskIsPrefix DEF Hardens
  <2>6. Redo!Harden
    BY <2>1, <2>4, <2>5 DEF Redo!Harden, Redo!Prefix
  <2> QED
    BY <2>6 DEF Redo!Next
<1>6. CASE Crashes
  <2>1. PICK b \in LastBlocks : disk' = disk \cup Whole(b)
    BY <1>6 DEF Crashes
  <2>2. b \in Int /\ frontSbsn <= b
    BY LastBlocksAre
  <2>3. Logged' = disk \cup Whole(b) /\ Durable' = disk \cup Whole(b)
    BY <1>6, <2>1 DEF Crashes, Logged, Durable, Whole
  <2>4. \A q \in buffer : q.last <= frontSbsn => q.last <= b
    <3>1. frontSbsn \in Int /\ \A q \in buffer : q.last \in Nat
      BY TypeIs DEF LogInv
    <3> QED
      BY <2>2, <3>1
  <2>5. Durable \subseteq Logged' /\ Logged' \subseteq Logged
    BY <2>3, <2>4, LoggedIs DEF Durable
  <2>6. \A a \in Logged', c \in Logged \ Logged' : a < c
    BY <2>2, <2>3, DiskIsPrefix
  <2>7. Redo!Recover
    BY <2>3, <2>5, <2>6 DEF Redo!Recover, Redo!Prefix
  <2> QED
    BY <2>7 DEF Redo!Next
<1> QED
  BY <1>1, <1>2, <1>3, <1>4, <1>5, <1>6 DEF Moves

\* With the pending and the buffered logs as one log, every step of the log buffer is one
\* of RedoLog: the stable part is a prefix, a write to disk skips no log, and a restart
\* finds all logs before the last one it finds.
THEOREM LogImplementsRedoLog == Spec => ImplementsRedoLog
<1>1. Init => Redo!Init
  <2> SUFFICES ASSUME Init PROVE Logged = {} /\ Durable = {}
    BY DEF Redo!Init
  <2>1. buffer = {} /\ disk = {} /\ \A p \in Pend : 1 .. Len(pend[p]) = {}
    BY DEF Init
  <2>2. Published = {}
    BY <2>1 DEF Published
  <2> QED
    BY <2>1, <2>2 DEF Logged, Durable, Whole
<1>2. LogInv /\ LogInv' /\ [Next]_vars => [Redo!Next]_<<Logged, Durable>>
  BY LogStep, RedoStep
<1> QED
  BY <1>1, <1>2, LogInvAlways, PTL DEF Spec, ImplementsRedoLog, Redo!Spec

-----------------------------------------------------------------------------
(* A flush that returns is on disk. *)

\* Where smrFlushLog is, and where it waits or writes; there, a thread may also be on
\* behalf of a full buffer, and "then" says where it goes on.
FlushCall == {"flush", "join", "queued", "group", "flushWait", "flushApply", "close"}
Leaving   == {"io", "self", "disk", "room", "wait"}

\* Log l has a place in the buffer or is on disk, and all of it lies in blocks up to b.
Placed      == disk \cup {r.lsn : r \in buffer}
EndsBy(l, b) == \A r \in buffer : r.lsn = l => r.last <= b
Sited(l, b)  == b <= rearSbsn /\ l \in Placed /\ EndsBy(l, b)

\* The same after a step, of a log and a block before it.
EndsNext(l, b)  == \A r \in buffer' : r.lsn = l => r.last <= b
SitedNext(l, b) == b <= rearSbsn' /\ l \in Placed' /\ EndsNext(l, b)

\* What is known of a dirty page: its recovery LSN is that of a log, and its SBSN is
\* that of the block in which that log ends, when the log has one; without pending
\* buffers it always has.
DirtyOK ==
  /\ IsFiniteSet(dirty)
  /\ \A d \in dirty : /\ d.lsn \in Logged
                      /\ d.sbsn # InvalidSbsn => Sited(d.lsn, d.sbsn)
                      /\ PendCount = 0 => d.sbsn # InvalidSbsn

\* What smrFlushLog knows of the log that it is called for: the hint, the block up to
\* which to write, the place of the log once all that is pending has been applied, and
\* the block that is waited for or written.
Plain(t) ==
  /\ call[t].pc \notin Leaving => ~call[t].skip /\ call[t].then = "idle"
  /\ call[t].pc = "room" => call[t].then # "idle"
KnowsLog(t) ==
  call[t].pc \in FlushCall \cup Leaving /\ call[t].then # "try" =>
    /\ call[t].my \in Logged /\ call[t].my <= call[t].goal
    /\ call[t].hint # InvalidSbsn =>
         Sited(call[t].my, call[t].hint) /\ (call[t].op = "commit" => call[t].hint < rearSbsn)
KnowsEnd(t) ==
  call[t].pc \in {"flushWait", "flushApply", "close"} /\ call[t].till # InvalidSbsn =>
    call[t].till \in Nat /\ call[t].till <= rearSbsn /\ EndsBy(call[t].my, call[t].till)
KnowsPlace(t) == call[t].pc = "close" => call[t].my \in Placed
KnowsTarget(t) ==
  call[t].pc \in Leaving /\ call[t].then = "idle" =>
    IF call[t].skip
    THEN call[t].pc = "disk" \/ call[t].till = Unbounded
    ELSE /\ call[t].till # Unbounded /\ call[t].till < rearSbsn
         /\ Sited(call[t].my, call[t].till)
Knows(t) == KnowsLog(t) /\ KnowsEnd(t) /\ KnowsPlace(t) /\ KnowsTarget(t)

\* A page writer that asks for several pages at once passes their newest LSN with their
\* highest SBSN.  When the log of that LSN is still pending, the SBSN is that of another
\* log, and what is known of the hint is not true of it.  A commit has one log.
Known(t) == call[t].op = "commit" \/ MaxBatch = 1 \/ PendCount = 0

FlushInv ==
  DirtyOK /\ \A t \in Trans \cup PageWriters : Plain(t) /\ (Known(t) => Knows(t))

\* What every step keeps of the logs, but for a crash.
Grows ==
  /\ Logged \subseteq Logged' /\ Placed \subseteq Placed' /\ rearSbsn <= rearSbsn'
  /\ \A l \in Placed : \A b : EndsBy(l, b) => EndsNext(l, b)

LEMMA RearGrows ==
  ASSUME LogInv, [Next]_vars
  PROVE  CrashAndRestart \/ rearSbsn <= rearSbsn'
<1>1. TypeOK /\ rearSbsn \in Nat /\ rearLsn \in Nat
  BY TypeIs DEF LogInv
<1>2. ASSUME NEW t \in Trans, PutLog(t) PROVE rearSbsn <= rearSbsn'
  <2>1. t \in Thread /\ call[t].my > 0 /\ call[t].my \in 1 .. lsn - 1
    <3>1. t \in Thread /\ call[t].pc = "put"
      BY <1>2, ThreadFacts DEF PutLog, At
    <3>2. call[t].my > rearLsn
      BY <3>1 DEF LogInv, PendingOK, Fresh
    <3> QED
      BY <1>1, <3>1, <3>2, LsnsAreInts
  <2>2. \E r \in Places(call[t].my) : rearSbsn' \in {rearSbsn, r.last, r.last + 1}
    BY <1>1, <1>2, <2>1, PutLogIs
  <2> QED
    BY <1>1, <2>1, <2>2, PlacesAre
<1>3. ASSUME NEW t \in Thread, ApplyPendingLog(t) PROVE rearSbsn <= rearSbsn'
  <2>1. PICK p \in Pend : cursor[p] > 0 /\ \E r \in Places(pend[p][1]) : rearSbsn' \in {rearSbsn, r.last}
    BY <1>1, <1>3, ApplyPendingLogIs, CursorIsOK
  <2>2. pend[p][1] \in 1 .. lsn - 1
    BY <1>1, <2>1, HeadIs, CursorIsOK
  <2> QED
    BY <1>1, <2>1, <2>2, PlacesAre
<1>4. ASSUME NEW t \in Thread, CloseBlock(t) PROVE rearSbsn <= rearSbsn'
  BY <1>1, <1>4, CloseBlockIs, SwitchedRearIs
<1>5. \/ rearSbsn' = rearSbsn \/ CrashAndRestart
      \/ \E t \in Trans : PutLog(t)
      \/ \E t \in Thread : ApplyPendingLog(t) \/ CloseBlock(t)
  BY DEF Next, Write, Flush, Apply, Disk, TryBufferLatch, AcquireBufferLatch, BeginPendingLog,
         PublishPendingLog, TakeLsn, WaitPendingLog, PendingLogsApplied, CollectPages, BeginFlush,
         JoinGroup, DriveGroup, FlushByTrans, FlushBuffer, EndDisk, WaitForRoom, EndWait, FlushStreamLog,
         BeginFlushAll, FlushAllLogs, ReacquireForClose, vars, logVars
<1> QED
  BY <1>1, <1>2, <1>3, <1>4, <1>5

LEMMA PlacedLsns ==
  ASSUME LogInv, NEW l \in Placed
  PROVE  l \in Nat /\ l <= rearLsn /\ rearLsn \in Nat /\ l \in Logged
<1>1. TypeOK /\ BufferOK
  BY DEF LogInv
<1> QED
  BY <1>1, TypeIs, LoggedIs DEF BufferOK, Placed

LEMMA MovesGrow ==
  ASSUME LogInv, LogInv', Moves, rearSbsn <= rearSbsn'
  PROVE  Grows
<1>1. CASE UNCHANGED <<buffer, disk>> /\ Published \subseteq Published'
  BY <1>1, LoggedIs DEF Grows, Logged, Placed, EndsBy, EndsNext
<1>2. ASSUME NEW r, buffer' = buffer \cup {r}, r.lsn > rearLsn, UNCHANGED disk,
             Published \subseteq Published' \cup {r.lsn}
      PROVE  Grows
  <2>1. Logged \subseteq Logged' /\ Placed \subseteq Placed'
    BY <1>2, LoggedIs DEF Logged, Placed
  <2>2. r.lsn \in Nat
    <3>1. r \in buffer' /\ buffer' \subseteq [lsn : 1 .. lsn' - 1, first : Nat, last : Nat]
      BY <1>2 DEF LogInv, TypeOK
    <3>2. lsn' \in Nat
      BY DEF LogInv, TypeOK
    <3> QED
      BY <3>1, <3>2
  <2>3. \A l \in Placed : l # r.lsn
    BY <1>2, <2>2, PlacedLsns
  <2> QED
    BY <1>2, <2>1, <2>3 DEF Grows, EndsBy, EndsNext
<1>3. CASE Stays
  BY <1>1, <1>3 DEF Stays, Published
<1>4. CASE Publishes
  BY <1>1, <1>4 DEF Publishes
<1>5. CASE Puts
  <2>1. Published' = Published
    BY <1>5 DEF Puts, Published
  <2> QED
    BY <1>2, <1>5, <2>1 DEF Puts
<1>6. CASE Applies
  BY <1>2, <1>6 DEF Applies
<1>7. CASE Hardens
  BY <1>1, <1>7 DEF Hardens, Published
<1> QED
  BY <1>3, <1>4, <1>5, <1>6, <1>7 DEF Moves

LEMMA SitedGrows ==
  ASSUME Grows, rearSbsn \in Int, rearSbsn' \in Int, NEW l, NEW b \in Int, Sited(l, b)
  PROVE  SitedNext(l, b) /\ l \in Placed
BY DEF Grows, Sited, SitedNext

LEMMA CallNumbers ==
  ASSUME TypeOK, NEW t \in Thread
  PROVE  /\ call[t].hint \in Int /\ call[t].till \in Int /\ rearSbsn \in Int /\ frontSbsn \in Int
         /\ call[t].my \in Nat /\ call[t].goal \in Nat /\ call[t].op \in {"log", "commit", "page"}
         /\ call[t].then \in {"idle", "try", "flush", "all"} /\ call[t].skip \in BOOLEAN
         /\ call[t].hint \in Nat \cup {InvalidSbsn}
         /\ call[t].till \in Nat \cup {InvalidSbsn, Unbounded}
<1>1. call[t] \in CallType(lsn)
  BY CallIsTyped
<1>2. call[t].hint \in Nat \cup {InvalidSbsn} /\ call[t].till \in Nat \cup {InvalidSbsn, Unbounded}
      /\ call[t].op \in {"log", "commit", "page"} /\ call[t].skip \in BOOLEAN
      /\ call[t].then \in {"idle", "try", "flush", "all"}
  BY <1>1 DEF CallType
<1>3. call[t].hint \in Int /\ call[t].till \in Int
  BY <1>2 DEF InvalidSbsn, Unbounded
<1> QED
  BY <1>2, <1>3, LsnsAreInts, TypeIs

\* The threads that do nothing in a step go on knowing what they know.
LEMMA OthersKnow ==
  ASSUME LogInv, LogInv', FlushInv, Grows, NEW t \in Thread, Only(t),
         UNCHANGED buffer \/ call[t].pc \in Latched,
         NEW u \in Trans \cup PageWriters, u # t
  PROVE  Plain(u)' /\ (Known(u)' => Knows(u)')
<1>1. u \in Thread /\ TypeOK /\ OwnersOK /\ call'[u] = call[u] /\ Plain(u) /\ (Known(u) => Knows(u))
  BY ThreadFacts, OthersKept DEF LogInv, FlushInv
<1>2. /\ call[u].hint \in Int /\ call[u].till \in Int /\ rearSbsn \in Int /\ rearSbsn' \in Int
      /\ rearSbsn <= rearSbsn' /\ call[u].till \in Nat \cup {InvalidSbsn, Unbounded}
  <2>1. rearSbsn' \in Int
    BY DEF LogInv, TypeOK
  <2> QED
    BY <1>1, <2>1, CallNumbers DEF Grows
<1>3. Plain(u)' /\ (Known(u)' <=> Known(u))
  BY <1>1 DEF Plain, Known
<1> SUFFICES ASSUME Knows(u) PROVE Knows(u)'
  BY <1>1, <1>3
<1>4. KnowsLog(u)'
  BY <1>1, <1>2, SitedGrows DEF Knows, KnowsLog, Grows, Sited, SitedNext, EndsBy, EndsNext
<1>5. KnowsEnd(u)'
  <2> SUFFICES ASSUME call[u].pc \in {"flushWait", "flushApply", "close"}, call[u].till # InvalidSbsn
               PROVE  /\ call[u].till \in Nat /\ call[u].till <= rearSbsn'
                      /\ EndsNext(call[u].my, call[u].till)
    BY <1>1 DEF KnowsEnd, EndsBy, EndsNext
  <2>1. UNCHANGED buffer
    BY <1>1, OneHolder DEF Latched
  <2>2. call[u].till \in Nat /\ call[u].till <= rearSbsn /\ EndsBy(call[u].my, call[u].till)
    BY DEF Knows, KnowsEnd
  <2> QED
    BY <1>1, <1>2, <2>1, <2>2 DEF EndsBy, EndsNext
<1>6. KnowsPlace(u)'
  BY <1>1 DEF Knows, KnowsPlace, Grows
<1>7. KnowsTarget(u)'
  BY <1>1, <1>2, SitedGrows DEF Knows, KnowsTarget, Sited, SitedNext, EndsBy, EndsNext
<1> QED
  BY <1>4, <1>5, <1>6, <1>7 DEF Knows

LEMMA DirtyKept ==
  ASSUME LogInv, LogInv', FlushInv, Grows, dirty' \subseteq dirty
  PROVE  DirtyOK'
<1>1. rearSbsn \in Int /\ rearSbsn' \in Int /\ \A d \in dirty : d.sbsn \in Int
  <2>1. rearSbsn \in Int /\ \A d \in dirty : d.sbsn \in Nat \cup {InvalidSbsn}
    BY TypeIs DEF LogInv
  <2>2. rearSbsn' \in Int
    BY DEF LogInv, TypeOK
  <2> QED
    BY <2>1, <2>2 DEF InvalidSbsn
<1>2. IsFiniteSet(dirty')
  BY FS_Subset DEF FlushInv, DirtyOK
<1>3. \A d \in dirty' : /\ d.lsn \in Logged'
                        /\ d.sbsn # InvalidSbsn => SitedNext(d.lsn, d.sbsn)
                        /\ PendCount = 0 => d.sbsn # InvalidSbsn
  BY <1>1, SitedGrows DEF FlushInv, DirtyOK, Grows
<1> QED
  BY <1>2, <1>3 DEF DirtyOK, Sited, SitedNext, EndsBy, EndsNext

\* A step of t keeps FlushInv when it keeps it for t.
LEMMA FlushKept ==
  ASSUME LogInv, LogInv', FlushInv, Grows, NEW t \in Thread, Only(t),
         UNCHANGED buffer \/ call[t].pc \in Latched, DirtyOK',
         t \in Trans \cup PageWriters => Plain(t)' /\ (Known(t)' => Knows(t)')
  PROVE  FlushInv'
<1>1. \A u \in Trans \cup PageWriters : Plain(u)' /\ (Known(u)' => Knows(u)')
  BY OthersKnow
<1> QED
  BY <1>1 DEF FlushInv

\* The same for a step that adds no dirty page.
LEMMA CleanStep ==
  ASSUME LogInv, LogInv', FlushInv, Grows, NEW t \in Thread, Only(t),
         UNCHANGED buffer \/ call[t].pc \in Latched, dirty' \subseteq dirty,
         t \in Trans \cup PageWriters => Plain(t)' /\ (Known(t)' => Knows(t)')
  PROVE  FlushInv'
BY DirtyKept, FlushKept

\* Outside of smrFlushLog there is nothing to know.
LEMMA KnowsNothing ==
  ASSUME NEW t, call'[t].pc \notin FlushCall \cup Leaving, ~call'[t].skip, call'[t].then = "idle"
  PROVE  Plain(t)' /\ Knows(t)'
BY DEF Plain, Knows, KnowsLog, KnowsEnd, KnowsPlace, KnowsTarget, FlushCall, Leaving

LEMMA PlainIs ==
  ASSUME FlushInv, NEW t \in Trans \cup PageWriters, call[t].pc \notin Leaving
  PROVE  ~call[t].skip /\ call[t].then = "idle"
BY DEF FlushInv, Plain

LEMMA LogKept ==
  ASSUME LogInv, LogInv', FlushInv, Grows, NEW t \in Trans \cup PageWriters, Known(t),
         call[t].pc \in FlushCall \cup Leaving, call[t].then # "try",
         call'[t].op = call[t].op, call'[t].my = call[t].my, call'[t].hint = call[t].hint,
         call'[t].goal \in Int, call'[t].goal >= call[t].goal
  PROVE  KnowsLog(t)'
<1>1. KnowsLog(t)
  BY DEF FlushInv, Knows
<1>2. /\ call[t].hint \in Int /\ call[t].my \in Int /\ call[t].goal \in Int
      /\ rearSbsn \in Int /\ rearSbsn' \in Int /\ rearSbsn <= rearSbsn'
  <2>1. rearSbsn' \in Int
    BY DEF LogInv, TypeOK
  <2> QED
    BY <2>1, CallNumbers, ThreadFacts DEF LogInv, Grows
<1>3. call[t].my \in Logged' /\ call[t].my <= call'[t].goal
  BY <1>1, <1>2 DEF KnowsLog, Grows
<1>4. ASSUME call[t].hint # InvalidSbsn
      PROVE  SitedNext(call[t].my, call[t].hint) /\ (call[t].op = "commit" => call[t].hint < rearSbsn')
  <2>1. Sited(call[t].my, call[t].hint) /\ (call[t].op = "commit" => call[t].hint < rearSbsn)
    BY <1>1, <1>4 DEF KnowsLog
  <2> QED
    BY <1>2, <2>1, SitedGrows
<1> QED
  BY <1>3, <1>4 DEF KnowsLog, Sited, SitedNext, EndsBy, EndsNext

\* In a buffer that is as it should be, a log lies where its record says.
LEMMA SitedWhere ==
  ASSUME LogInv', NEW r \in buffer'
  PROVE  SitedNext(r.lsn, r.last) /\ r.lsn \in Logged'
<1>1. /\ r.last <= rearSbsn'
      /\ \A q \in buffer' : q.lsn = r.lsn => q = r
  BY DEF LogInv, BufferOK
<1>2. r.last \in Int
  BY DEF LogInv, TypeOK
<1>3. EndsNext(r.lsn, r.last)
  BY <1>1, <1>2 DEF EndsBy, EndsNext
<1>4. r.lsn \in Placed' /\ r.lsn \in Logged'
  BY DEF Placed, Logged
<1> QED
  BY <1>1, <1>3, <1>4 DEF Sited, SitedNext

LEMMA DirtyAdded ==
  ASSUME LogInv, LogInv', FlushInv, Grows, NEW d, dirty' \in {dirty, dirty \cup {d}},
         d.lsn \in Logged', d.sbsn # InvalidSbsn => SitedNext(d.lsn, d.sbsn),
         PendCount = 0 => d.sbsn # InvalidSbsn
  PROVE  DirtyOK'
<1>1. rearSbsn \in Int /\ rearSbsn' \in Int /\ \A e \in dirty : e.sbsn \in Int
  <2>1. rearSbsn \in Int /\ \A e \in dirty : e.sbsn \in Nat \cup {InvalidSbsn}
    BY TypeIs DEF LogInv
  <2>2. rearSbsn' \in Int
    BY DEF LogInv, TypeOK
  <2> QED
    BY <2>1, <2>2 DEF InvalidSbsn
<1>2. IsFiniteSet(dirty')
  BY FS_AddElement DEF FlushInv, DirtyOK
<1>3. \A e \in dirty : /\ e.lsn \in Logged'
                       /\ e.sbsn # InvalidSbsn => SitedNext(e.lsn, e.sbsn)
                       /\ PendCount = 0 => e.sbsn # InvalidSbsn
  BY <1>1, SitedGrows DEF FlushInv, DirtyOK, Grows
<1>4. \A e \in dirty' : e \in dirty \/ e = d
  OBVIOUS
<1> QED
  BY <1>2, <1>3, <1>4 DEF DirtyOK, Sited, SitedNext, EndsBy, EndsNext

LEMMA FreshKnows ==
  ASSUME LogInv, LogInv', FlushInv, Grows, NEW t \in Trans,
         \/ \E o \in {"log", "commit"} : TryBufferLatch(t, o)
         \/ AcquireBufferLatch(t) \/ BeginPendingLog(t) \/ TakeLsn(t)
  PROVE  FlushInv'
<1>1. TypeOK /\ t \in Thread /\ t \in Trans \cup PageWriters
  BY ThreadFacts DEF LogInv
<1>2. UNCHANGED buffer /\ dirty' = dirty
  BY DEF TryBufferLatch, AcquireBufferLatch, BeginPendingLog, TakeLsn, logVars, worldVars
<1>3. /\ Only(t) /\ call'[t].pc \notin FlushCall \cup Leaving
      /\ ~call'[t].skip /\ call'[t].then = "idle"
  <2>1. CASE \E o \in {"log", "commit"} : TryBufferLatch(t, o)
    BY <1>1, <2>1, TryBufferLatchIs DEF FlushCall, Leaving
  <2>2. CASE AcquireBufferLatch(t)
    BY <1>1, <2>2, AcquireBufferLatchIs, PlainIs DEF FlushCall, Leaving, KeepsWay
  <2>3. CASE BeginPendingLog(t)
    BY <1>1, <2>3, BeginPendingLogIs, PlainIs DEF FlushCall, Leaving, KeepsWay
  <2>4. CASE TakeLsn(t)
    BY <1>1, <2>4, TakeLsnIs, PlainIs DEF FlushCall, Leaving, KeepsWay
  <2> QED
    BY <2>1, <2>2, <2>3, <2>4
<1> QED
  BY <1>1, <1>2, <1>3, KnowsNothing, CleanStep

\* A write that is over: the log is pending, or lies in block b.
LEMMA WrittenKnows ==
  ASSUME LogInv, LogInv', FlushInv, Grows, NEW t \in Trans, NEW b \in Nat \cup {InvalidSbsn},
         Written(t, b), call[t].pc \notin Leaving, UNCHANGED buffer \/ call[t].pc \in Latched,
         call[t].my \in Logged',
         b # InvalidSbsn =>
           SitedNext(call[t].my, b) /\ (call[t].op = "commit" => b < rearSbsn'),
         PendCount = 0 => b # InvalidSbsn
  PROVE  FlushInv'
<1>1. TypeOK /\ t \in Thread /\ t \in Trans \cup PageWriters /\ ~call[t].skip /\ call[t].then = "idle"
  BY ThreadFacts, PlainIs DEF LogInv
<1>2. CASE call[t].op = "commit"
  <2>1. /\ Only(t) /\ call'[t].pc = "flush" /\ call'[t].hint = b /\ call'[t].my = call[t].my
        /\ call'[t].goal = call[t].my /\ call'[t].op = "commit"
        /\ ~call'[t].skip /\ call'[t].then = "idle" /\ dirty' = dirty
    BY <1>1, <1>2, WrittenIs DEF KeepsWay
  <2>2. KnowsLog(t)'
    <3>1. call[t].my <= call[t].my
      BY <1>1, CallNumbers
    <3> QED
      BY <1>2, <2>1, <3>1 DEF KnowsLog, Sited, SitedNext, EndsBy, EndsNext
  <2>3. Plain(t)' /\ Knows(t)'
    BY <2>1, <2>2 DEF Plain, Knows, KnowsEnd, KnowsPlace, KnowsTarget, Leaving
  <2> QED
    BY <1>1, <2>1, <2>3, CleanStep
<1>3. CASE call[t].op # "commit"
  <2>1. /\ Only(t) /\ call'[t] = Free
        /\ dirty' \in {dirty, dirty \cup {[lsn |-> call[t].my, sbsn |-> b]}}
    BY <1>1, <1>3, WrittenIs
  <2>2. DirtyOK'
    <3>1. PICK d : d = [lsn |-> call[t].my, sbsn |-> b]
      OBVIOUS
    <3>2. d.lsn = call[t].my /\ d.sbsn = b
      BY <3>1
    <3> QED
      BY <2>1, <3>1, <3>2, DirtyAdded
  <2>3. Plain(t)' /\ Knows(t)'
    BY <2>1, KnowsNothing DEF Free, FlushCall, Leaving
  <2> QED
    BY <1>1, <2>1, <2>2, <2>3, FlushKept
<1> QED
  BY <1>2, <1>3

LEMMA PublishKnows ==
  ASSUME LogInv, LogInv', FlushInv, Grows, NEW t \in Trans, PublishPendingLog(t)
  PROVE  FlushInv'
<1>1. TypeOK /\ t \in Thread /\ call[t].pc = "publish" /\ Written(t, InvalidSbsn)
  BY ThreadFacts DEF LogInv, PublishPendingLog, At
<1>2. UNCHANGED buffer /\ call[t].my \in Published'
  BY PublishPendingLogKeeps
<1>3. call[t].my \in Logged'
  BY <1>2 DEF Logged
<1>4. PendCount # 0
  <2>1. Pend # {}
    BY DEF PublishPendingLog
  <2> QED
    BY <2>1 DEF Pend
<1> QED
  BY <1>1, <1>2, <1>3, <1>4, WrittenKnows DEF Leaving

LEMMA PutKnows ==
  ASSUME LogInv, LogInv', FlushInv, Grows, NEW t \in Trans, PutLog(t)
  PROVE  FlushInv'
<1>1. TypeOK /\ t \in Thread /\ t \in Trans \cup PageWriters /\ call[t].pc = "put"
  BY ThreadFacts DEF LogInv, PutLog, At
<1>2. call[t].my > 0 /\ call[t].my \in 1 .. lsn - 1
  <2>1. call[t].my > rearLsn
    BY <1>1 DEF LogInv, PendingOK, Fresh
  <2> QED
    BY <1>1, <2>1, LsnsAreInts
<1>3. Only(t)
  BY <1>1, <1>2, PutLogIs
<1>4. PICK r \in Places(call[t].my) :
        \/ /\ buffer' = buffer \cup {r}
           /\ rearSbsn' = IF call[t].op = "commit" THEN r.last + 1 ELSE r.last
           /\ Written(t, r.last)
        \/ /\ UNCHANGED <<buffer, worldVars>>
           /\ call'[t].pc = "room" /\ call'[t].then = "try"
  BY <1>1, <1>2, PutLogIs
<1>5. CASE /\ buffer' = buffer \cup {r}
           /\ rearSbsn' = IF call[t].op = "commit" THEN r.last + 1 ELSE r.last
           /\ Written(t, r.last)
  <2>1. r.lsn = call[t].my /\ r.last \in Nat /\ r \in buffer'
    BY <1>1, <1>2, <1>5, PlacesAre
  <2>2. SitedNext(call[t].my, r.last) /\ call[t].my \in Logged'
    BY <2>1, SitedWhere
  <2>3. call[t].op = "commit" => r.last < rearSbsn'
    BY <1>5, <2>1
  <2>4. call[t].pc \notin Leaving /\ call[t].pc \in Latched
    BY <1>1 DEF Leaving, Latched
  <2>5. r.last # InvalidSbsn
    BY <2>1 DEF InvalidSbsn
  <2> QED
    BY <1>5, <2>1, <2>2, <2>3, <2>4, <2>5, WrittenKnows
<1>6. CASE /\ UNCHANGED <<buffer, worldVars>>
           /\ call'[t].pc = "room" /\ call'[t].then = "try"
  <2>1. dirty' = dirty
    BY <1>6 DEF worldVars
  <2>2. Plain(t)' /\ Knows(t)'
    BY <1>6 DEF Plain, Knows, KnowsLog, KnowsEnd, KnowsPlace, KnowsTarget, Leaving
  <2> QED
    BY <1>1, <1>3, <1>6, <2>1, <2>2, CleanStep
<1> QED
  BY <1>4, <1>5, <1>6

LEMMA WaitPendingKnows ==
  ASSUME LogInv, LogInv', FlushInv, Grows, NEW t \in Thread, WaitPendingLog(t)
  PROVE  FlushInv'
<1>1. TypeOK /\ call[t].pc \in {"writeWait", "flushWait"} /\ UNCHANGED <<buffer, rearSbsn>>
      /\ dirty' = dirty
  BY DEF LogInv, WaitPendingLog, logVars, worldVars
<1>2. CASE UNCHANGED call
  <2>1. Only(t)
    BY <1>1, <1>2, TypeIs DEF Only
  <2>2. ASSUME t \in Trans \cup PageWriters PROVE Plain(t)' /\ (Known(t)' => Knows(t)')
    <3>1. ~call[t].skip /\ call[t].then = "idle" /\ call[t].pc \notin Leaving
      BY <1>1, <2>2, PlainIs DEF Leaving
    <3>2. Plain(t)'
      BY <1>1, <1>2, <3>1 DEF Plain
    <3>3. ASSUME Known(t)' PROVE Knows(t)'
      <4>1. Known(t) /\ Knows(t)
        BY <1>2, <2>2, <3>3 DEF Known, FlushInv
      <4>2. KnowsEnd(t)'
        BY <1>1, <1>2, <4>1 DEF Knows, KnowsEnd, EndsBy, EndsNext
      <4>3. KnowsPlace(t)' /\ KnowsTarget(t)'
        BY <1>1, <1>2, <3>1 DEF KnowsPlace, KnowsTarget
      <4>4. CASE call[t].pc = "flushWait"
        <5>1. call'[t].goal \in Int /\ call'[t].goal >= call[t].goal
          BY <1>1, <1>2, CallNumbers
        <5>2. KnowsLog(t)'
          BY <1>2, <2>2, <3>1, <4>1, <4>4, <5>1, LogKept DEF FlushCall
        <5> QED
          BY <4>2, <4>3, <5>2 DEF Knows
      <4>5. CASE call[t].pc = "writeWait"
        <5>1. KnowsLog(t)'
          BY <1>2, <4>5 DEF KnowsLog, FlushCall, Leaving
        <5> QED
          BY <4>2, <4>3, <5>1 DEF Knows
      <4> QED
        BY <1>1, <4>4, <4>5
    <3> QED
      BY <3>2, <3>3
  <2> QED
    BY <1>1, <2>1, <2>2, CleanStep
<1>3. CASE /\ Only(t) /\ KeepsLog(t) /\ KeepsWay(t) /\ call'[t].till = call[t].till
           /\ call'[t].pc = IF Writing(t) THEN "writeApply" ELSE "flushApply"
  <2>2. ASSUME t \in Trans \cup PageWriters PROVE Plain(t)' /\ (Known(t)' => Knows(t)')
    <3>1. ~call'[t].skip /\ call'[t].then = "idle" /\ call[t].then = "idle"
      BY <1>1, <1>3, <2>2, PlainIs DEF Leaving, KeepsWay
    <3>2. CASE Writing(t)
      <4>1. call'[t].pc \notin FlushCall \cup Leaving
        BY <1>3, <3>2 DEF FlushCall, Leaving
      <4> QED
        BY <3>1, <4>1, KnowsNothing
    <3>3. CASE ~Writing(t)
      <4>1. call[t].pc = "flushWait" /\ call'[t].pc = "flushApply"
        BY <1>1, <1>3, <3>3 DEF Writing
      <4>2. Plain(t)'
        BY <3>1, <4>1 DEF Plain
      <4>3. ASSUME Known(t)' PROVE Knows(t)'
        <5>1. Known(t) /\ Knows(t)
          BY <1>3, <2>2, <4>3 DEF Known, FlushInv, KeepsLog
        <5>2. call'[t].goal \in Int /\ call'[t].goal >= call[t].goal
          BY <1>1, <1>3, CallNumbers DEF KeepsLog
        <5>3. KnowsLog(t)'
          BY <1>3, <2>2, <3>1, <4>1, <5>1, <5>2, LogKept DEF FlushCall, KeepsLog
        <5>4. KnowsEnd(t)'
          BY <1>1, <1>3, <4>1, <5>1 DEF Knows, KnowsEnd, EndsBy, EndsNext, KeepsLog
        <5>5. KnowsPlace(t)' /\ KnowsTarget(t)'
          BY <4>1 DEF KnowsPlace, KnowsTarget, Leaving
        <5> QED
          BY <5>3, <5>4, <5>5 DEF Knows
      <4> QED
        BY <4>2, <4>3
    <3> QED
      BY <3>2, <3>3
  <2> QED
    BY <1>1, <1>3, <2>2, CleanStep
<1> QED
  BY <1>1, <1>2, <1>3, WaitPendingLogIs

LEMMA ApplyKnows ==
  ASSUME LogInv, LogInv', FlushInv, Grows, NEW t \in Thread, ApplyPendingLog(t)
  PROVE  FlushInv'
<1>1. /\ TypeOK /\ Only(t) /\ KeepsLog(t) /\ call'[t].skip = call[t].skip
      /\ call[t].pc \in {"writeApply", "flushApply"} /\ dirty' = dirty
  BY ApplyPendingLogIs, CursorIsOK DEF LogInv, ApplyPendingLog, worldVars
<1>2. \/ \E r \in buffer' : /\ rearSbsn' = r.last /\ call'[t].pc = call[t].pc
                            /\ call'[t].then = call[t].then
                            /\ call'[t].till = IF Writing(t) THEN call[t].till ELSE r.last
      \/ t = Flusher
      \/ /\ call'[t].pc = "room"
         /\ call'[t].then = IF Writing(t) THEN "try" ELSE "flush"
  <2>1. PICK p \in Pend : \E r \in Places(pend[p][1]) :
          \/ /\ buffer' = buffer \cup {r} /\ rearSbsn' = r.last
             /\ call'[t].pc = call[t].pc /\ call'[t].then = call[t].then
             /\ call'[t].till = IF Writing(t) THEN call[t].till ELSE r.last
          \/ IF t = Flusher THEN call'[t].pc = "reclose"
             ELSE /\ call'[t].pc = "room"
                  /\ call'[t].then = IF Writing(t) THEN "try" ELSE "flush"
    BY <1>1, ApplyPendingLogIs, CursorIsOK
  <2> QED
    BY <2>1
<1>3. ASSUME t \in Trans \cup PageWriters PROVE Plain(t)' /\ (Known(t)' => Knows(t)')
  <2>1. /\ t # Flusher /\ ~call[t].skip /\ call[t].then = "idle" /\ ~call'[t].skip
        /\ (Known(t)' => Known(t) /\ Knows(t))
    BY <1>1, <1>3, PlainIs, ConstantsAssumption DEF Leaving, Known, FlushInv, KeepsLog
  <2>2. call'[t].goal \in Int /\ call'[t].goal >= call[t].goal
    BY <1>1, CallNumbers DEF KeepsLog
  <2>3. CASE \E r \in buffer' : /\ rearSbsn' = r.last /\ call'[t].pc = call[t].pc
                                /\ call'[t].then = call[t].then
                                /\ call'[t].till = IF Writing(t) THEN call[t].till ELSE r.last
    <3>1. CASE Writing(t)
      <4>1. call'[t].pc \notin FlushCall \cup Leaving
        BY <2>3, <3>1 DEF FlushCall, Leaving, Writing
      <4> QED
        BY <2>1, <2>3, <4>1, KnowsNothing
    <3>2. CASE ~Writing(t)
      <4>1. call[t].pc = "flushApply" /\ call'[t].pc = "flushApply" /\ call'[t].till = rearSbsn'
        BY <1>1, <2>3, <3>2 DEF Writing
      <4>2. Plain(t)'
        BY <2>1, <2>3, <4>1 DEF Plain
      <4>3. rearSbsn' \in Nat /\ \A q \in buffer' : q.last <= rearSbsn'
        BY DEF LogInv, TypeOK, BufferOK
      <4>4. KnowsEnd(t)'
        BY <4>1, <4>3 DEF KnowsEnd, EndsBy, EndsNext
      <4>5. KnowsPlace(t)' /\ KnowsTarget(t)'
        BY <4>1 DEF KnowsPlace, KnowsTarget, Leaving
      <4>6. Known(t)' => KnowsLog(t)'
        BY <1>1, <1>3, <2>1, <2>2, <4>1, LogKept DEF FlushCall, KeepsLog
      <4> QED
        BY <4>2, <4>4, <4>5, <4>6 DEF Knows
    <3> QED
      BY <3>1, <3>2
  <2>4. CASE /\ call'[t].pc = "room"
             /\ call'[t].then = IF Writing(t) THEN "try" ELSE "flush"
    <3>1. Plain(t)' /\ KnowsEnd(t)' /\ KnowsPlace(t)' /\ KnowsTarget(t)'
      BY <2>4 DEF Plain, KnowsEnd, KnowsPlace, KnowsTarget, Leaving
    <3>2. CASE Writing(t)
      <4>1. KnowsLog(t)'
        BY <2>4, <3>2 DEF KnowsLog
      <4> QED
        BY <3>1, <4>1 DEF Knows
    <3>3. CASE ~Writing(t)
      <4>1. call[t].pc = "flushApply"
        BY <1>1, <3>3 DEF Writing
      <4>2. Known(t)' => KnowsLog(t)'
        BY <1>1, <1>3, <2>1, <2>2, <4>1, LogKept DEF FlushCall, KeepsLog
      <4> QED
        BY <3>1, <4>2 DEF Knows
    <3> QED
      BY <3>2, <3>3
  <2> QED
    BY <1>2, <2>1, <2>3, <2>4
<1>4. call[t].pc \in Latched
  BY <1>1 DEF Latched
<1> QED
  BY <1>1, <1>3, <1>4, CleanStep

\* When all that is pending has been applied, the log that is to be flushed has its place.
LEMMA AppliedKnows ==
  ASSUME LogInv, LogInv', FlushInv, Grows, NEW t \in Thread, PendingLogsApplied(t)
  PROVE  FlushInv'
<1>1. /\ TypeOK /\ Only(t) /\ KeepsLog(t) /\ KeepsWay(t) /\ call'[t].till = call[t].till
      /\ call[t].pc \in {"writeApply", "flushApply"} /\ Readable(t) = {}
      /\ call'[t].pc = IF Writing(t) THEN "put" ELSE "close"
      /\ UNCHANGED <<buffer, rearSbsn>> /\ dirty' = dirty /\ disk' = disk
  BY PendingLogsAppliedIs DEF LogInv, PendingLogsApplied, logVars, worldVars
<1>2. ASSUME t \in Trans \cup PageWriters PROVE Plain(t)' /\ (Known(t)' => Knows(t)')
  <2>1. ~call'[t].skip /\ call'[t].then = "idle" /\ call[t].then = "idle"
    BY <1>1, <1>2, PlainIs DEF Leaving, KeepsWay
  <2>2. CASE Writing(t)
    <3>1. call'[t].pc \notin FlushCall \cup Leaving
      BY <1>1, <2>2 DEF FlushCall, Leaving
    <3> QED
      BY <2>1, <3>1, KnowsNothing
  <2>3. CASE ~Writing(t)
    <3>1. call[t].pc = "flushApply" /\ call'[t].pc = "close"
      BY <1>1, <2>3 DEF Writing
    <3>2. Plain(t)'
      BY <2>1, <3>1 DEF Plain
    <3>3. ASSUME Known(t)' PROVE Knows(t)'
      <4>1. Known(t) /\ Knows(t)
        BY <1>1, <1>2, <3>3 DEF Known, FlushInv, KeepsLog
      <4>2. call'[t].goal \in Int /\ call'[t].goal >= call[t].goal
        BY <1>1, CallNumbers DEF KeepsLog
      <4>3. KnowsLog(t)'
        BY <1>1, <1>2, <2>1, <3>1, <4>1, <4>2, LogKept DEF FlushCall, KeepsLog
      <4>4. KnowsEnd(t)'
        BY <1>1, <3>1, <4>1 DEF Knows, KnowsEnd, EndsBy, EndsNext, KeepsLog
      <4>5. call[t].my \in Placed
        <5>1. call[t].my \in Logged /\ call[t].my <= call[t].goal
          BY <2>1, <3>1, <4>1 DEF Knows, KnowsLog, FlushCall
        <5>2. \A l \in Pending : l > call[t].goal
          BY <1>1, <2>3, NothingReadable DEF EndLsn
        <5>3. call[t].my \in Nat /\ call[t].goal \in Nat
          BY <1>1, CallNumbers
        <5>4. call[t].my \notin Published
          BY <1>1, <5>1, <5>2, <5>3, PublishedLsns
        <5> QED
          BY <5>1, <5>4 DEF Logged, Placed
      <4>6. KnowsPlace(t)' /\ KnowsTarget(t)'
        BY <1>1, <3>1, <4>5 DEF KnowsPlace, KnowsTarget, Leaving, Placed, KeepsLog
      <4> QED
        BY <4>3, <4>4, <4>6 DEF Knows
    <3> QED
      BY <3>2, <3>3
  <2> QED
    BY <2>2, <2>3
<1> QED
  BY <1>1, <1>2, CleanStep

LEMMA OnePage ==
  ASSUME NEW B, IsFiniteSet(B), Cardinality(B) <= 1, NEW d \in B, NEW e \in B
  PROVE  d = e
<1> SUFFICES ASSUME d # e PROVE FALSE
  OBVIOUS
<1>1. IsFiniteSet(B \ {d}) /\ Cardinality(B \ {d}) = Cardinality(B) - 1
  BY FS_RemoveElement
<1>2. Cardinality(B) \in Nat /\ Cardinality(B \ {d}) \in Nat
  BY <1>1, FS_CardinalityType
<1>3. Cardinality(B \ {d}) = 0
  BY <1>1, <1>2
<1>4. B \ {d} = {}
  BY <1>1, <1>3, FS_EmptySet
<1> QED
  BY <1>4

\* A page writer that asks for one page passes what is known of that page; without pending
\* buffers, the highest SBSN is not below that of the newest log.
LEMMA CollectKnows ==
  ASSUME LogInv, LogInv', FlushInv, Grows, NEW t \in PageWriters, CollectPages(t)
  PROVE  FlushInv'
<1>1. TypeOK /\ BufferOK /\ t \in Thread /\ t \in Trans \cup PageWriters
  BY ThreadFacts DEF LogInv
<1>2. /\ Only(t) /\ call'[t].pc = "flush" /\ call'[t].op = "page"
      /\ ~call'[t].skip /\ call'[t].then = "idle"
      /\ UNCHANGED <<buffer, rearSbsn, disk, pend>>
  BY <1>1, CollectPagesIs DEF CollectPages, logVars, pendVars
<1>3. PICK B \in SUBSET dirty :
        /\ B # {} /\ Cardinality(B) <= MaxBatch /\ dirty' = dirty \ B
        /\ call'[t].my = Newest(B) /\ call'[t].goal = Newest(B) /\ call'[t].hint = Highest(B)
  BY <1>1, CollectPagesIs
<1>4. Plain(t)'
  BY <1>2 DEF Plain
<1>5. ASSUME Known(t)' PROVE Knows(t)'
  <2>1. MaxBatch = 1 \/ PendCount = 0
    BY <1>2, <1>5 DEF Known
  <2>2. PICK d \in B : d.lsn = Newest(B)
    BY <1>1, <1>3, PagesAre
  <2>3. PICK e \in B : e.sbsn = Highest(B)
    BY <1>1, <1>3, PagesAre
  <2>4. d = e \/ PendCount = 0
    <3>1. IsFiniteSet(B)
      BY FS_Subset DEF FlushInv, DirtyOK
    <3> QED
      BY <1>3, <2>1, <3>1, OnePage
  <2>5. /\ d \in dirty /\ e \in dirty /\ rearSbsn \in Int /\ d.sbsn \in Int /\ e.sbsn \in Int
        /\ \A r \in buffer : r.last \in Int
    BY <1>1, TypeIs DEF InvalidSbsn
  <2>6. d.lsn \in Logged /\ (e.sbsn # InvalidSbsn => Sited(d.lsn, e.sbsn))
    <3>1. d.lsn \in Logged /\ d.sbsn <= e.sbsn
      BY <1>1, <1>3, <2>3, <2>5, PagesAre DEF FlushInv, DirtyOK
    <3>2. CASE d = e
      BY <2>5, <3>1, <3>2 DEF FlushInv, DirtyOK
    <3>3. CASE PendCount = 0
      <4>1. Sited(d.lsn, d.sbsn) /\ e.sbsn <= rearSbsn
        BY <2>5, <3>3 DEF FlushInv, DirtyOK, Sited
      <4> QED
        BY <2>5, <3>1, <4>1 DEF Sited, SitedNext, EndsBy, EndsNext
    <3> QED
      BY <2>4, <3>2, <3>3
  <2>7. d.lsn \in Logged' /\ (e.sbsn # InvalidSbsn => SitedNext(d.lsn, e.sbsn))
    <3>1. rearSbsn' \in Int
      BY <1>2, <2>5
    <3> QED
      BY <2>5, <2>6, <3>1, SitedGrows DEF Grows
  <2>8. Newest(B) <= Newest(B)
    BY <1>1, PagesAre, TypeIs
  <2>9. KnowsLog(t)'
    BY <1>2, <1>3, <2>2, <2>3, <2>7, <2>8 DEF KnowsLog, Sited, SitedNext, EndsBy, EndsNext
  <2> QED
    BY <1>2, <2>9 DEF Knows, KnowsEnd, KnowsPlace, KnowsTarget, Leaving
<1>6. dirty' \subseteq dirty
  BY <1>3
<1> QED
  BY <1>1, <1>2, <1>4, <1>5, <1>6, CleanStep

LEMMA BeginFlushKnows ==
  ASSUME LogInv, LogInv', FlushInv, Grows, NEW t \in Trans \cup PageWriters, BeginFlush(t)
  PROVE  FlushInv'
<1>1. /\ TypeOK /\ t \in Thread /\ Only(t) /\ call[t].pc = "flush" /\ dirty' = dirty
      /\ UNCHANGED <<buffer, rearSbsn>>
  BY ThreadFacts, BeginFlushIs DEF LogInv, BeginFlush, logVars, worldVars
<1>2. ~call[t].skip /\ call[t].then = "idle"
  BY <1>1, PlainIs DEF Leaving
<1>3. CASE call'[t] = Free
  <2>1. Plain(t)' /\ Knows(t)'
    BY <1>3, KnowsNothing DEF Free, FlushCall, Leaving
  <2> QED
    BY <1>1, <2>1, CleanStep
<1>4. ASSUME KeepsLog(t), KeepsWay(t), call'[t].pc \in {"io", "join"},
             call'[t].pc = "io" => /\ call[t].op = "commit" /\ call[t].hint # InvalidSbsn
                                   /\ call'[t].till = call[t].hint
      PROVE  FlushInv'
  <2>1. Plain(t)'
    BY <1>2, <1>4 DEF Plain, KeepsWay
  <2>2. ASSUME Known(t)' PROVE Knows(t)'
    <3>1. Known(t) /\ Knows(t)
      BY <1>4, <2>2 DEF Known, FlushInv, KeepsLog
    <3>2. call'[t].goal \in Int /\ call'[t].goal >= call[t].goal
      BY <1>1, <1>4, CallNumbers DEF KeepsLog
    <3>3. KnowsLog(t)'
      BY <1>1, <1>2, <1>4, <3>1, <3>2, LogKept DEF FlushCall, KeepsLog
    <3>4. KnowsEnd(t)' /\ KnowsPlace(t)'
      BY <1>4 DEF KnowsEnd, KnowsPlace
    <3>5. KnowsTarget(t)'
      <4> SUFFICES ASSUME call'[t].pc = "io" PROVE KnowsTarget(t)'
        BY <1>4 DEF KnowsTarget, Leaving
      <4>1. /\ call[t].op = "commit" /\ call[t].hint # InvalidSbsn
            /\ call'[t].till = call[t].hint
        BY <1>4
      <4>2. Sited(call[t].my, call[t].hint) /\ call[t].hint < rearSbsn
        BY <1>1, <1>2, <3>1, <4>1 DEF Knows, KnowsLog, FlushCall
      <4>3. SitedNext(call[t].my, call[t].hint)
        <5>1. call[t].hint \in Int /\ rearSbsn \in Int /\ rearSbsn' \in Int
          BY <1>1, CallNumbers
        <5> QED
          BY <4>2, <5>1, SitedGrows
      <4>4. call[t].hint # Unbounded
        BY <1>1, CallNumbers DEF Unbounded, InvalidSbsn
      <4> QED
        BY <1>1, <1>2, <1>4, <4>1, <4>2, <4>3, <4>4 DEF KnowsTarget, Sited, SitedNext, EndsBy, EndsNext, KeepsLog, KeepsWay
    <3> QED
      BY <3>3, <3>4, <3>5 DEF Knows
  <2> QED
    BY <1>1, <2>1, <2>2, CleanStep
<1> QED
  BY <1>1, <1>3, <1>4, BeginFlushIs

LEMMA JoinKnows ==
  ASSUME LogInv, LogInv', FlushInv, Grows, NEW t \in Trans \cup PageWriters, JoinGroup(t)
  PROVE  FlushInv'
<1>1. /\ TypeOK /\ t \in Thread /\ Only(t) /\ call[t].pc \in {"join", "queued"} /\ dirty' = dirty
      /\ UNCHANGED <<buffer, rearSbsn>>
      /\ call'[t].op = call[t].op /\ call'[t].my = call[t].my /\ call'[t].hint = call[t].hint
      /\ call'[t].then = call[t].then
  BY ThreadFacts, JoinGroupIs DEF LogInv, JoinGroup, logVars, worldVars
<1>2. \/ call'[t].pc \in {"group", "queued"} /\ call'[t].skip = call[t].skip
      \/ call'[t].pc = "io" /\ call'[t].skip /\ call'[t].till = Unbounded
  BY <1>1, JoinGroupIs
<1>3. ~call[t].skip /\ call[t].then = "idle"
  BY <1>1, PlainIs DEF Leaving
<1>4. Plain(t)'
  BY <1>1, <1>2, <1>3 DEF Plain, Leaving
<1>5. ASSUME Known(t)' PROVE Knows(t)'
  <2>1. Known(t)
    BY <1>1, <1>5 DEF Known
  <2>2. call'[t].goal \in Int /\ call'[t].goal >= call[t].goal
    <3>1. call[t].goal \in Nat
      BY <1>1, CallNumbers
    <3>2. call'[t].goal \in Int
      <4>1. call' \in [Thread -> CallType(lsn')] /\ lsn' \in Nat
        BY DEF LogInv, TypeOK, CallType
      <4>2. call'[t] \in CallType(lsn')
        BY <1>1, <4>1
      <4> QED
        BY <4>1, <4>2 DEF CallType
    <3> QED
      BY <1>1, <3>1, <3>2, JoinGroupIs
  <2>3. KnowsLog(t)'
    BY <1>1, <1>3, <2>1, <2>2, LogKept DEF FlushCall
  <2>4. KnowsEnd(t)' /\ KnowsPlace(t)'
    BY <1>2 DEF KnowsEnd, KnowsPlace
  <2>5. KnowsTarget(t)'
    BY <1>2 DEF KnowsTarget, Leaving
  <2> QED
    BY <2>3, <2>4, <2>5 DEF Knows
<1> QED
  BY <1>1, <1>4, <1>5, CleanStep

LEMMA DriveKnows ==
  ASSUME LogInv, LogInv', FlushInv, Grows, NEW t \in Trans \cup PageWriters, DriveGroup(t)
  PROVE  FlushInv'
<1>1. /\ TypeOK /\ t \in Thread /\ Only(t) /\ call[t].pc = "group" /\ dirty' = dirty
      /\ UNCHANGED <<buffer, rearSbsn>>
  BY ThreadFacts, DriveGroupIs DEF LogInv, DriveGroup, logVars, worldVars
<1>2. ~call[t].skip /\ call[t].then = "idle"
  BY <1>1, PlainIs DEF Leaving
<1>3. CASE call'[t] = Free
  <2>1. Plain(t)' /\ Knows(t)'
    BY <1>3, KnowsNothing DEF Free, FlushCall, Leaving
  <2> QED
    BY <1>1, <2>1, CleanStep
<1>4. CASE /\ call'[t].pc = "flushWait" /\ call'[t].till = call[t].hint
           /\ KeepsLog(t) /\ KeepsWay(t)
  <2>1. Plain(t)'
    BY <1>2, <1>4 DEF Plain, KeepsWay
  <2>2. ASSUME Known(t)' PROVE Knows(t)'
    <3>1. Known(t) /\ Knows(t)
      BY <1>4, <2>2 DEF Known, FlushInv, KeepsLog
    <3>2. call'[t].goal \in Int /\ call'[t].goal >= call[t].goal
      BY <1>1, <1>4, CallNumbers DEF KeepsLog
    <3>3. KnowsLog(t)'
      BY <1>1, <1>2, <1>4, <3>1, <3>2, LogKept DEF FlushCall, KeepsLog
    <3>4. KnowsPlace(t)' /\ KnowsTarget(t)'
      BY <1>4 DEF KnowsPlace, KnowsTarget, Leaving
    <3>5. KnowsEnd(t)'
      <4> SUFFICES ASSUME call[t].hint # InvalidSbsn
                   PROVE  /\ call[t].hint \in Nat /\ call[t].hint <= rearSbsn'
                          /\ EndsNext(call[t].my, call[t].hint)
        BY <1>4 DEF KnowsEnd, EndsBy, EndsNext, KeepsLog
      <4>1. Sited(call[t].my, call[t].hint)
        BY <1>1, <1>2, <3>1 DEF Knows, KnowsLog, FlushCall
      <4>2. call[t].hint \in Nat
        BY <1>1, CallNumbers
      <4> QED
        BY <1>1, <4>1, <4>2 DEF Sited, SitedNext, EndsBy, EndsNext
    <3> QED
      BY <3>3, <3>4, <3>5 DEF Knows
  <2> QED
    BY <1>1, <2>1, <2>2, CleanStep
<1> QED
  BY <1>1, <1>3, <1>4, DriveGroupIs

\* After the rear block is switched, all that is in the buffer lies below it.
LEMMA SwitchedIsSited ==
  ASSUME LogInv, NEW r \in buffer
  PROVE  r.last <= SwitchedRear - 1
<1>1. TypeOK /\ r.last \in Nat /\ r.last <= rearSbsn /\ rearSbsn \in Nat
  BY TypeIs DEF LogInv, BufferOK
<1>2. CASE RearUsed
  BY <1>1, <1>2 DEF SwitchedRear
<1>3. CASE ~RearUsed
  <2>1. r.last # rearSbsn
    BY <1>3 DEF RearUsed
  <2> QED
    BY <1>1, <1>3, <2>1 DEF SwitchedRear
<1> QED
  BY <1>2, <1>3

LEMMA CloseKnows ==
  ASSUME LogInv, LogInv', FlushInv, Grows, NEW t \in Thread, CloseBlock(t)
  PROVE  FlushInv'
<1>1. /\ TypeOK /\ Only(t) /\ call[t].pc = "close" /\ dirty' = dirty /\ disk' = disk
      /\ UNCHANGED buffer
      /\ call'[t].pc = IF t = Flusher THEN "self" ELSE "io"
      /\ KeepsLog(t) /\ KeepsWay(t)
      /\ IF call[t].till \in {rearSbsn, InvalidSbsn}
         THEN rearSbsn' = SwitchedRear /\ call'[t].till = SwitchedRear - 1
         ELSE UNCHANGED rearSbsn /\ call'[t].till = call[t].till
  BY CloseBlockIs DEF LogInv, CloseBlock, worldVars
<1>2. ASSUME t \in Trans \cup PageWriters PROVE Plain(t)' /\ (Known(t)' => Knows(t)')
  <2>1. /\ call'[t].pc = "io" /\ call[t].then = "idle" /\ ~call'[t].skip /\ call'[t].then = "idle"
    BY <1>1, <1>2, PlainIs, ConstantsAssumption DEF Leaving, KeepsWay
  <2>2. Plain(t)'
    BY <2>1 DEF Plain
  <2>3. ASSUME Known(t)' PROVE Knows(t)'
    <3>1. Known(t) /\ Knows(t)
      BY <1>1, <1>2, <2>3 DEF Known, FlushInv, KeepsLog
    <3>2. call'[t].goal \in Int /\ call'[t].goal >= call[t].goal
      BY <1>1, CallNumbers DEF KeepsLog
    <3>3. KnowsLog(t)'
      BY <1>1, <1>2, <2>1, <3>1, <3>2, LogKept DEF FlushCall, KeepsLog
    <3>4. KnowsEnd(t)' /\ KnowsPlace(t)'
      BY <2>1 DEF KnowsEnd, KnowsPlace
    <3>5. /\ call'[t].till # Unbounded /\ call'[t].till < rearSbsn'
          /\ EndsNext(call[t].my, call'[t].till)
      <4>1. CASE call[t].till \in {rearSbsn, InvalidSbsn}
        <5>1. SwitchedRear \in Nat
          BY <1>1, SwitchedRearIs
        <5>2. \A r \in buffer : r.last <= SwitchedRear - 1
          BY SwitchedIsSited
        <5> QED
          BY <1>1, <4>1, <5>1, <5>2 DEF EndsBy, EndsNext, Unbounded
      <4>2. CASE call[t].till \notin {rearSbsn, InvalidSbsn}
        <5>1. call[t].till \in Nat /\ call[t].till <= rearSbsn /\ EndsBy(call[t].my, call[t].till)
          BY <1>1, <3>1, <4>2 DEF Knows, KnowsEnd
        <5>2. rearSbsn \in Int
          BY <1>1, CallNumbers
        <5> QED
          BY <1>1, <4>2, <5>1, <5>2 DEF EndsBy, EndsNext, Unbounded
      <4> QED
        BY <4>1, <4>2
    <3>6. call[t].my \in Placed'
      BY <1>1, <3>1 DEF Knows, KnowsPlace, Placed
    <3>7. call'[t].till <= rearSbsn'
      <4>1. call' \in [Thread -> CallType(lsn')] /\ rearSbsn' \in Int
        BY DEF LogInv, TypeOK, CallType
      <4>2. call'[t].till \in Nat \cup {InvalidSbsn, Unbounded}
        BY <4>1 DEF CallType
      <4> QED
        BY <3>5, <4>1, <4>2 DEF InvalidSbsn, Unbounded
    <3>8. KnowsTarget(t)'
      BY <1>1, <2>1, <3>5, <3>6, <3>7 DEF KnowsTarget, Sited, SitedNext, EndsBy, EndsNext, KeepsLog
    <3> QED
      BY <3>3, <3>4, <3>8 DEF Knows
  <2> QED
    BY <2>2, <2>3
<1> QED
  BY <1>1, <1>2, CleanStep

LEMMA GoOnKnows ==
  ASSUME LogInv, LogInv', FlushInv, Grows, NEW t \in Thread, call[t].pc \in Leaving, GoOn(t),
         UNCHANGED buffer, dirty' = dirty
  PROVE  FlushInv'
<1>1. /\ TypeOK /\ Only(t) /\ call'[t].pc = call[t].then /\ call'[t].then = "idle"
      /\ ~call'[t].skip /\ (call[t].then = "flush" => KeepsLog(t))
      /\ call[t].then \in {"idle", "try", "flush", "all"}
  BY GoOnIs, CallNumbers DEF LogInv
<1>2. ASSUME t \in Trans \cup PageWriters PROVE Plain(t)' /\ (Known(t)' => Knows(t)')
  <2>1. CASE call[t].then # "flush"
    <3>1. call'[t].pc \notin FlushCall \cup Leaving
      BY <1>1, <2>1 DEF FlushCall, Leaving
    <3> QED
      BY <1>1, <3>1, KnowsNothing
  <2>2. CASE call[t].then = "flush"
    <3>1. Plain(t)' /\ KnowsEnd(t)' /\ KnowsPlace(t)' /\ KnowsTarget(t)'
      BY <1>1, <2>2 DEF Plain, KnowsEnd, KnowsPlace, KnowsTarget, Leaving
    <3>2. Known(t)' => Known(t)
      BY <1>1, <2>2 DEF Known, KeepsLog
    <3>3. call'[t].goal \in Int /\ call'[t].goal >= call[t].goal
      BY <1>1, <2>2, CallNumbers DEF KeepsLog
    <3>4. Known(t)' => KnowsLog(t)'
      BY <1>1, <1>2, <2>2, <3>2, <3>3, LogKept DEF KeepsLog
    <3> QED
      BY <3>1, <3>4 DEF Knows
  <2> QED
    BY <2>1, <2>2
<1> QED
  BY <1>1, <1>2, CleanStep

\* A block below the rear one is written as far as was asked.
LEMMA BelowIs ==
  ASSUME NEW target \in Int, rearSbsn \in Int, target # Unbounded, target < rearSbsn
  PROVE  Below(target) = target
BY DEF Below, Reaches

\* What is known of the block to be reached is kept where a thread leaves it to others,
\* and where it begins to write.
LEMMA LeavingKnows ==
  ASSUME LogInv, LogInv', FlushInv, Grows, NEW t \in Thread, call[t].pc \in Leaving, Only(t),
         KeepsLog(t), KeepsWay(t), UNCHANGED <<buffer, rearSbsn>>, dirty' = dirty,
         \/ /\ call'[t].pc \in Leaving \ {"room"} /\ call'[t].till = call[t].till
            /\ call[t].pc # "disk"
         \/ call'[t].pc = "disk" /\ call'[t].till = Below(call[t].till)
  PROVE  FlushInv'
<1>1. TypeOK /\ call'[t].pc \in Leaving /\ call[t].till \in Int /\ rearSbsn \in Int
  BY CallNumbers DEF LogInv, Leaving
<1>2. ASSUME t \in Trans \cup PageWriters PROVE Plain(t)' /\ (Known(t)' => Knows(t)')
  <2>1. Plain(t)'
    BY <1>1 DEF Plain
  <2>2. ASSUME Known(t)' PROVE Knows(t)'
    <3>1. Known(t) /\ Knows(t)
      BY <1>2, <2>2 DEF Known, FlushInv, KeepsLog
    <3>2. call'[t].goal \in Int /\ call'[t].goal >= call[t].goal
      BY <1>1, CallNumbers DEF KeepsLog
    <3>3. KnowsLog(t)'
      <4>1. CASE call[t].then = "try"
        BY <4>1 DEF KnowsLog, KeepsWay
      <4>2. CASE call[t].then # "try"
        BY <1>1, <1>2, <3>1, <3>2, <4>2, LogKept DEF KeepsLog
      <4> QED
        BY <4>1, <4>2
    <3>4. KnowsEnd(t)' /\ KnowsPlace(t)'
      BY <1>1 DEF KnowsEnd, KnowsPlace, Leaving
    <3>5. KnowsTarget(t)'
      <4>1. CASE call[t].skip
        BY <1>1, <3>1, <4>1 DEF Knows, KnowsTarget, KeepsWay
      <4>2. CASE ~call[t].skip
        <5> SUFFICES ASSUME call[t].then = "idle"
                     PROVE  /\ call'[t].till # Unbounded /\ call'[t].till < rearSbsn'
                            /\ SitedNext(call[t].my, call'[t].till)
          BY <4>2 DEF KnowsTarget, Sited, SitedNext, EndsBy, EndsNext, KeepsWay, KeepsLog
        <5>1. /\ call[t].till # Unbounded /\ call[t].till < rearSbsn
              /\ Sited(call[t].my, call[t].till)
          BY <3>1, <4>2 DEF Knows, KnowsTarget
        <5>2. call'[t].till = call[t].till
          BY <1>1, <5>1, BelowIs
        <5>3. SitedNext(call[t].my, call[t].till)
          BY <1>1, <5>1, SitedGrows
        <5> QED
          BY <5>1, <5>2, <5>3
      <4> QED
        BY <4>1, <4>2
    <3> QED
      BY <3>3, <3>4, <3>5 DEF Knows
  <2> QED
    BY <2>1, <2>2
<1> QED
  BY <1>1, <1>2, CleanStep

LEMMA ByTransKnows ==
  ASSUME LogInv, LogInv', FlushInv, Grows, NEW t \in Trans \cup PageWriters, FlushByTrans(t)
  PROVE  FlushInv'
<1>1. /\ TypeOK /\ t \in Thread /\ call[t].pc = "io" /\ dirty' = dirty /\ call[t].pc \in Leaving
      /\ UNCHANGED <<buffer, rearSbsn>>
  BY ThreadFacts, FlushByTransIs DEF LogInv, FlushByTrans, logVars, worldVars, Leaving
<1>2. CASE StartDisk(t)
  BY <1>1, <1>2, StartDiskIs, GoOnKnows, LeavingKnows
<1>3. CASE /\ Only(t) /\ call'[t].pc \in {"wait", "self"} /\ KeepsLog(t) /\ KeepsWay(t)
           /\ call'[t].till = call[t].till
  BY <1>1, <1>3, LeavingKnows DEF Leaving
<1> QED
  BY <1>1, <1>2, <1>3, FlushByTransIs

\* What is to be awaited for room says nothing of the log that is to be flushed.
LEMMA RoomKnows ==
  ASSUME LogInv, LogInv', FlushInv, Grows, NEW t \in Trans \cup PageWriters, WaitForRoom(t)
  PROVE  FlushInv'
<1>1. /\ TypeOK /\ t \in Thread /\ Only(t) /\ call[t].pc = "room" /\ KeepsLog(t) /\ KeepsWay(t)
      /\ call'[t].pc \in {"wait", "self"} /\ dirty' = dirty /\ UNCHANGED buffer
  BY ThreadFacts, WaitForRoomIs DEF LogInv, WaitForRoom, logVars, worldVars
<1>2. call[t].then # "idle" /\ call'[t].then # "idle"
  BY <1>1 DEF FlushInv, Plain, KeepsWay
<1>3. Plain(t)' /\ KnowsEnd(t)' /\ KnowsPlace(t)' /\ KnowsTarget(t)'
  BY <1>1, <1>2 DEF Plain, KnowsEnd, KnowsPlace, KnowsTarget, Leaving
<1>4. ASSUME Known(t)' PROVE KnowsLog(t)'
  <2>1. Known(t)
    BY <1>1, <1>4 DEF Known, KeepsLog
  <2>2. call'[t].goal \in Int /\ call'[t].goal >= call[t].goal
    BY <1>1, CallNumbers DEF KeepsLog
  <2>3. CASE call[t].then = "try"
    BY <1>1, <2>3 DEF KnowsLog, KeepsWay
  <2>4. CASE call[t].then # "try"
    BY <1>1, <2>1, <2>2, <2>4, LogKept DEF KeepsLog, Leaving
  <2> QED
    BY <2>3, <2>4
<1> QED
  BY <1>1, <1>3, <1>4, CleanStep DEF Knows

LEMMA DiskKnows ==
  ASSUME LogInv, LogInv', FlushInv, Grows, NEW t \in Thread,
         FlushBuffer(t) \/ EndDisk(t) \/ EndWait(t)
  PROVE  FlushInv'
<1>1. /\ TypeOK /\ dirty' = dirty /\ call[t].pc \in Leaving /\ UNCHANGED <<buffer, rearSbsn>>
      /\ GoOn(t) \/ StartDisk(t)
  BY DEF LogInv, FlushBuffer, EndDisk, EndWait, At, logVars, worldVars, Leaving
<1> QED
  BY <1>1, StartDiskIs, GoOnKnows, LeavingKnows

LEMMA FlusherKnows ==
  ASSUME LogInv, LogInv', FlushInv, Grows,
         FlushStreamLog \/ BeginFlushAll \/ FlushAllLogs \/ ReacquireForClose
  PROVE  FlushInv'
<1>1. TypeOK /\ Flusher \in Thread /\ Flusher \notin Trans \cup PageWriters
  BY ThreadFacts, ConstantsAssumption DEF LogInv
<1>2. UNCHANGED buffer /\ dirty' = dirty
  BY DEF FlushStreamLog, BeginFlushAll, FlushAllLogs, ReacquireForClose, logVars, worldVars
<1>3. Only(Flusher)
  BY <1>1, FlushStreamLogIs, BeginFlushAllIs, FlushAllLogsIs, ReacquireForCloseIs
<1> QED
  BY <1>1, <1>2, <1>3, CleanStep

LEMMA StepGrows ==
  ASSUME LogInv, [Next]_vars, ~CrashAndRestart
  PROVE  LogInv' /\ Grows
BY LogStep, RearGrows, MovesGrow

\* FlushInv is inductive, given LogInv.
LEMMA FlushStep ==
  ASSUME LogInv, FlushInv, [Next]_vars
  PROVE  FlushInv'
<1>1. CASE CrashAndRestart
  <2>1. dirty' = {} /\ \A t \in Thread : call'[t] = Free
    BY <1>1 DEF CrashAndRestart
  <2>2. IsFiniteSet(dirty')
    BY <2>1, FS_EmptySet
  <2>3. \A t \in Trans \cup PageWriters : Plain(t)' /\ Knows(t)'
    BY <2>1, ThreadFacts, KnowsNothing DEF Free, FlushCall, Leaving
  <2> QED
    BY <2>1, <2>2, <2>3 DEF FlushInv, DirtyOK
<1>2. CASE ~CrashAndRestart
  <2>1. LogInv' /\ Grows
    BY <1>2, StepGrows
  <2>2. ASSUME NEW t \in Trans, Write(t) PROVE FlushInv'
    BY <2>1, <2>2, FreshKnows, PublishKnows, PutKnows DEF Write
  <2>3. ASSUME NEW t \in PageWriters, CollectPages(t) PROVE FlushInv'
    BY <2>1, <2>3, CollectKnows
  <2>4. ASSUME NEW t \in Trans \cup PageWriters, Flush(t) PROVE FlushInv'
    BY <2>1, <2>4, ThreadFacts, BeginFlushKnows, JoinKnows, DriveKnows, ByTransKnows, RoomKnows,
       DiskKnows
    DEF Flush
  <2>5. ASSUME NEW t \in Thread, Apply(t) \/ Disk(t) PROVE FlushInv'
    BY <2>1, <2>5, WaitPendingKnows, ApplyKnows, AppliedKnows, CloseKnows, DiskKnows
    DEF Apply, Disk
  <2>6. CASE UNCHANGED vars
    <3>1. UNCHANGED <<call, dirty, buffer, disk, pend, rearSbsn>>
      BY <2>6 DEF vars, logVars, pendVars, worldVars
    <3>2. Published' = Published
      BY <3>1 DEF Published
    <3>3. DirtyOK'
      BY <3>1, <3>2 DEF FlushInv, DirtyOK, Logged, Sited, SitedNext, Placed, EndsBy, EndsNext
    <3>4. \A t \in Trans \cup PageWriters : Plain(t)' /\ (Known(t)' => Knows(t)')
      BY <3>1, <3>2 DEF FlushInv, Plain, Known, Knows, KnowsLog, KnowsEnd, KnowsPlace,
                        KnowsTarget, Logged, Sited, SitedNext, Placed, EndsBy, EndsNext
    <3> QED
      BY <3>3, <3>4 DEF FlushInv
  <2> QED
    BY <1>2, <2>1, <2>2, <2>3, <2>4, <2>5, <2>6, FlusherKnows DEF Next
<1> QED
  BY <1>1, <1>2

LEMMA InitFlush ==
  Init => FlushInv
<1> SUFFICES ASSUME Init PROVE FlushInv
  OBVIOUS
<1>1. dirty = {} /\ \A t \in Thread : call[t] = Free
  BY DEF Init
<1>2. DirtyOK
  BY <1>1, FS_EmptySet DEF DirtyOK
<1>3. \A t \in Trans \cup PageWriters : Plain(t) /\ Knows(t)
  BY <1>1, ThreadFacts DEF Plain, Knows, KnowsLog, KnowsEnd, KnowsPlace, KnowsTarget, FlushCall,
                           Leaving, Free
<1> QED
  BY <1>2, <1>3 DEF FlushInv

\* What the front has passed, by LSN or by block, is durable.
LEMMA DurableByLsn ==
  ASSUME LogInv', NEW l \in Logged', l <= frontLsn'
  PROVE  l \in Durable'
<1>1. /\ frontLsn' <= rearLsn' /\ frontLsn' \in Int /\ rearLsn' \in Int
      /\ \A r \in buffer' : r.lsn <= frontLsn' => r.last <= frontSbsn'
      /\ \A k \in Pending' : k > rearLsn'
  <2>1. frontLsn' \in Int /\ rearLsn' \in Int
    BY DEF LogInv, TypeOK
  <2> QED
    BY <2>1 DEF LogInv, FrontOK, PendingOK, PendingIsNewer
<1>2. CASE l \in disk'
  BY <1>2 DEF Durable
<1>3. CASE \E r \in buffer' : l = r.lsn
  <2>1. l \in Whole(frontSbsn)'
    BY <1>1, <1>3 DEF Whole
  <2> QED
    BY <2>1 DEF Durable
<1>4. CASE l \in Published'
  <2>1. l \in Pending' /\ pend' \in [Pend -> Seq(1 .. lsn' - 1)] /\ lsn' \in Nat
    BY <1>4 DEF Pending, LogInv, TypeOK
  <2>2. l \in Int
    <3> DEFINE S == 1 .. lsn' - 1
    <3>1. pend' \in [Pend -> Seq(S)] /\ \A i \in S : i \in Int
      BY <2>1
    <3> HIDE DEF S
    <3>2. PICK p \in Pend : \E i \in 1 .. Len(pend'[p]) : l = pend'[p][i]
      BY <1>4 DEF Published
    <3>3. pend'[p] \in Seq(S)
      BY <3>1
    <3> QED
      BY <3>1, <3>2, <3>3
  <2> QED
    BY <1>1, <2>1, <2>2
<1> QED
  BY <1>2, <1>3, <1>4 DEF Logged

LEMMA DurableByPlace ==
  ASSUME LogInv', NEW l, NEW b \in Int, l \in Placed', EndsNext(l, b), b <= frontSbsn'
  PROVE  l \in Durable'
<1>1. frontSbsn' \in Int /\ \A r \in buffer' : r.last \in Int
  BY DEF LogInv, TypeOK
<1>2. CASE l \in disk'
  BY <1>2 DEF Durable
<1>3. CASE \E r \in buffer' : l = r.lsn
  <2>1. l \in Whole(frontSbsn)'
    BY <1>1, <1>3 DEF Whole, EndsBy, EndsNext
  <2> QED
    BY <2>1 DEF Durable
<1> QED
  BY <1>2, <1>3 DEF Placed

\* The steps of a thread change no other thread's call.
LEMMA OnlyActor ==
  ASSUME TypeOK, NEW t \in Thread, NEW u \in Thread, t # u,
         Write(u) \/ CollectPages(u) \/ Flush(u) \/ Apply(u) \/ Disk(u)
  PROVE  call'[t] = call[t]
<1>1. call \in [Thread -> CallType(lsn)]
  BY TypeIs
<1>2. ASSUME NEW c, Become(u, c) PROVE call'[t] = call[t]
  BY <1>1, <1>2 DEF Become
<1>3. ASSUME NEW s, Goto(u, s) PROVE call'[t] = call[t]
  BY <1>2, <1>3 DEF Goto
<1>4. ASSUME GoOn(u) \/ StartDisk(u) PROVE call'[t] = call[t]
  <2>1. \E c : Become(u, c)
    BY <1>4 DEF GoOn, StartDisk
  <2> QED
    BY <1>2, <2>1
<1>5. ASSUME NEW b, Written(u, b) PROVE call'[t] = call[t]
  <2>1. \E c : Become(u, c)
    BY <1>5 DEF Written
  <2> QED
    BY <1>2, <2>1
<1>6. ASSUME NEW s, LeaveForRoom(u, s) PROVE call'[t] = call[t]
  <2>1. \E c : Become(u, c)
    BY <1>6 DEF LeaveForRoom
  <2> QED
    BY <1>2, <2>1
<1>7. CASE Write(u)
  BY <1>2, <1>3, <1>5, <1>6, <1>7
  DEF Write, TryBufferLatch, AcquireBufferLatch, BeginPendingLog, PublishPendingLog, TakeLsn, PutLog
<1>8. CASE CollectPages(u)
  BY <1>2, <1>8 DEF CollectPages
<1>9. CASE Flush(u)
  BY <1>2, <1>3, <1>4, <1>9 DEF Flush, BeginFlush, JoinGroup, DriveGroup, FlushByTrans, WaitForRoom,
                                  EndWait
<1>10. CASE Apply(u)
  BY <1>2, <1>3, <1>6, <1>10 DEF Apply, WaitPendingLog, ApplyPendingLog, PendingLogsApplied
<1>11. CASE Disk(u)
  BY <1>2, <1>3, <1>4, <1>11 DEF Disk, CloseBlock, FlushBuffer, EndDisk
<1> QED
  BY <1>7, <1>8, <1>9, <1>10, <1>11

LEMMA ReturnSteps ==
  ASSUME LogInv, [Next]_vars, NEW t \in Trans \cup PageWriters, Returns(t)
  PROVE  /\ ~CrashAndRestart
         /\ \/ BeginFlush(t) \/ DriveGroup(t) \/ FlushByTrans(t) \/ EndWait(t)
            \/ FlushBuffer(t) \/ EndDisk(t)
<1>1. TypeOK /\ t \in Thread /\ crashes \in Nat /\ t # Flusher
  BY ThreadFacts, ConstantsAssumption, TypeIs DEF LogInv
<1>2. /\ call[t].pc \in {"flush", "group", "io", "self", "disk", "wait"}
      /\ call'[t] # call[t] /\ crashes' = crashes
  BY DEF Returns
<1>3. ~CrashAndRestart
  BY <1>1, <1>2 DEF CrashAndRestart
<1>4. ~UNCHANGED vars
  BY <1>2 DEF vars
<1>5. ~(FlushStreamLog \/ BeginFlushAll \/ FlushAllLogs \/ ReacquireForClose)
  <2> SUFFICES ASSUME FlushStreamLog \/ BeginFlushAll \/ FlushAllLogs \/ ReacquireForClose
               PROVE  FALSE
    OBVIOUS
  <2>1. Only(Flusher) /\ Flusher \in Thread
    BY <1>1, ThreadFacts, FlushStreamLogIs, BeginFlushAllIs, FlushAllLogsIs, ReacquireForCloseIs
  <2> QED
    BY <1>1, <1>2, <2>1, OthersKept
<1>6. \A u \in Thread : Write(u) \/ CollectPages(u) \/ Flush(u) \/ Apply(u) \/ Disk(u) => u = t
  BY <1>1, <1>2, OnlyActor
<1>7. Write(t) \/ CollectPages(t) \/ Flush(t) \/ Apply(t) \/ Disk(t)
  BY <1>3, <1>4, <1>5, <1>6, ThreadFacts DEF Next
<1>8. ~Write(t) /\ ~CollectPages(t) /\ ~Apply(t)
  <2>1. ~Write(t)
    BY <1>2 DEF Write, TryBufferLatch, AcquireBufferLatch, BeginPendingLog, PublishPendingLog,
                TakeLsn, PutLog, At
  <2>2. ~CollectPages(t)
    BY <1>2 DEF CollectPages, At
  <2>3. ~Apply(t)
    BY <1>2 DEF Apply, WaitPendingLog, ApplyPendingLog, PendingLogsApplied
  <2> QED
    BY <2>1, <2>2, <2>3
<1>9. ~JoinGroup(t) /\ ~CloseBlock(t) /\ ~WaitForRoom(t)
  BY <1>2 DEF JoinGroup, CloseBlock, WaitForRoom, At
<1> QED
  BY <1>3, <1>7, <1>8, <1>9 DEF Flush, Disk

\* Why a flush that returns is on disk: mFrontLsn has passed the goal, which is not older
\* than the log; or the front has passed the block in which the log ends.
LEMMA ReturnIsDurable ==
  ASSUME LogInv, FlushInv, [Next]_vars, NEW t \in Trans \cup PageWriters, Returns(t), Known(t),
         ~WroteItself(t)
  PROVE  call[t].my \in Durable'
<1>1. /\ TypeOK /\ t \in Thread /\ Knows(t) /\ LogInv' /\ Grows
      /\ BeginFlush(t) \/ DriveGroup(t) \/ FlushByTrans(t) \/ EndWait(t) \/ FlushBuffer(t) \/ EndDisk(t)
  BY ReturnSteps, StepGrows, ThreadFacts DEF FlushInv, LogInv
<1>2. /\ call[t].my \in Nat /\ call[t].goal \in Nat /\ call[t].till \in Int
      /\ rearSbsn \in Int /\ rearSbsn' \in Int /\ frontSbsn \in Int /\ frontLsn \in Nat
  <2>1. rearSbsn' \in Int
    BY <1>1 DEF LogInv, TypeOK
  <2> QED
    BY <1>1, <2>1, CallNumbers, TypeIs
<1>3. /\ call[t].pc \in {"flush", "group", "io", "self", "disk", "wait"} /\ call'[t].pc = "idle"
      /\ call[t].skip => call[t].pc = "wait"
  BY DEF Returns, WroteItself, At
<1>4. ASSUME call[t].then # "try", frontLsn >= call[t].goal, frontLsn' = frontLsn
      PROVE  call[t].my \in Durable'
  <2>1. call[t].my \in Logged /\ call[t].my <= call[t].goal
    BY <1>1, <1>3, <1>4 DEF Knows, KnowsLog, FlushCall, Leaving
  <2>2. call[t].my \in Logged' /\ call[t].my <= frontLsn'
    BY <1>1, <1>2, <1>4, <2>1 DEF Grows
  <2> QED
    BY <1>1, <2>2, DurableByLsn
<1>5. ASSUME call[t].pc \in Leaving, call[t].then = "idle", ~call[t].skip, call[t].till <= frontSbsn'
      PROVE  call[t].my \in Durable'
  <2>1. Sited(call[t].my, call[t].till)
    BY <1>1, <1>5 DEF Knows, KnowsTarget
  <2>2. SitedNext(call[t].my, call[t].till)
    BY <1>1, <1>2, <2>1, SitedGrows
  <2> QED
    BY <1>1, <1>2, <1>5, <2>2, DurableByPlace DEF Sited, SitedNext
<1>6. CASE BeginFlush(t) \/ DriveGroup(t)
  <2>1. call[t].pc \in {"flush", "group"} /\ frontLsn' = frontLsn
    BY <1>6 DEF BeginFlush, DriveGroup, At, frontVars
  <2>2. call[t].then = "idle"
    BY <2>1, PlainIs DEF Leaving
  <2>3. frontLsn >= call[t].goal
    BY <1>1, <1>3, <1>6, BeginFlushIs, DriveGroupIs
  <2> QED
    BY <1>4, <2>1, <2>2, <2>3
<1>7. ASSUME StartDisk(t), call[t].pc \in {"io", "self"}, frontSbsn' = frontSbsn
      PROVE  call[t].my \in Durable'
  <2>1. Below(call[t].till) <= frontSbsn /\ GoOn(t)
    BY <1>1, <1>3, <1>7, StartDiskIs
  <2>2. call[t].then = "idle" /\ ~call[t].skip /\ call[t].pc \in Leaving
    BY <1>1, <1>3, <1>7, <2>1, GoOnIs DEF Leaving
  <2>3. call[t].till # Unbounded /\ call[t].till < rearSbsn
    BY <1>1, <2>2 DEF Knows, KnowsTarget
  <2>4. Below(call[t].till) = call[t].till
    BY <1>2, <2>3, BelowIs
  <2> QED
    BY <1>5, <1>7, <2>1, <2>2, <2>4
<1>8. CASE FlushByTrans(t)
  <2>1. call[t].pc = "io" /\ frontSbsn' = frontSbsn /\ StartDisk(t)
    BY <1>1, <1>3, <1>8, FlushByTransIs DEF FlushByTrans, frontVars
  <2> QED
    BY <1>7, <2>1
<1>9. CASE FlushBuffer(t)
  <2>1. call[t].pc = "self" /\ frontSbsn' = frontSbsn
    BY <1>1, <1>9, FlushBufferIs DEF FlushBuffer, frontVars
  <2>2. CASE Reaches(frontSbsn, call[t].till) /\ GoOn(t)
    <3>1. call[t].then = "idle" /\ ~call[t].skip /\ call[t].pc \in Leaving
      BY <1>1, <1>3, <2>1, <2>2, GoOnIs DEF Leaving
    <3> QED
      BY <1>2, <1>5, <2>1, <2>2, <3>1 DEF Reaches
  <2> QED
    BY <1>1, <1>7, <1>9, <2>1, <2>2, FlushBufferIs
<1>10. CASE EndDisk(t)
  <2>1. call[t].pc = "disk" /\ GoOn(t) /\ frontSbsn' = call[t].till
    BY <1>1, <1>10, EndDiskIs
  <2>2. call[t].then = "idle" /\ ~call[t].skip /\ call[t].pc \in Leaving
    BY <1>1, <1>3, <2>1, GoOnIs DEF Leaving
  <2> QED
    BY <1>2, <1>5, <2>1, <2>2
<1>11. CASE EndWait(t)
  <2>1. call[t].pc = "wait" /\ GoOn(t) /\ frontSbsn' = frontSbsn /\ frontLsn' = frontLsn
    BY <1>1, <1>11, EndWaitIs DEF EndWait, frontVars
  <2>2. call[t].then = "idle" /\ call[t].pc \in Leaving
    BY <1>1, <1>3, <2>1, GoOnIs DEF Leaving
  <2>3. CASE frontLsn >= call[t].goal
    BY <1>4, <2>1, <2>2, <2>3
  <2>4. CASE Reaches(frontSbsn, call[t].till)
    <3>1. call[t].till # Unbounded /\ call[t].till <= frontSbsn
      BY <1>2, <2>4 DEF Reaches
    <3>2. ~call[t].skip
      BY <1>1, <2>1, <2>2, <3>1 DEF Knows, KnowsTarget
    <3> QED
      BY <1>5, <2>1, <2>2, <3>1, <3>2
  <2> QED
    BY <1>1, <1>11, <2>3, <2>4, EndWaitIs
<1> QED
  BY <1>1, <1>6, <1>8, <1>9, <1>10, <1>11

LEMMA FlushInvAlways == Spec => [](LogInv /\ FlushInv)
<1>1. Init => LogInv /\ FlushInv
  BY InitLog, InitFlush
<1>2. LogInv /\ FlushInv /\ [Next]_vars => LogInv' /\ FlushInv'
  BY LogStep, FlushStep
<1> QED
  BY <1>1, <1>2, PTL DEF Spec

\* A commit that returns from smrFlushLog, and did not write to disk itself as the member
\* of a group, has its log on disk.
CommitIsDurable ==
  [][\A t \in Trans \cup PageWriters :
       Returns(t) /\ call[t].op = "commit" /\ ~WroteItself(t) => call[t].my \in Durable']_vars

\* However logs are given out, applied, written by whom and grouped, a commit that reports
\* success has its log on disk (with the exception that EveryFlushIsDurable is about).
THEOREM CommitsAreDurable == Spec => CommitIsDurable
<1>1. LogInv /\ FlushInv /\ [Next]_vars =>
        [\A t \in Trans \cup PageWriters :
           Returns(t) /\ call[t].op = "commit" /\ ~WroteItself(t) => call[t].my \in Durable']_vars
  BY ReturnIsDurable DEF Known
<1> QED
  BY <1>1, FlushInvAlways, PTL DEF Spec, CommitIsDurable

\* The same of page writers, too, when each writes one page at a time or when there are no
\* pending buffers.  With more pages and pending buffers smrFlushLog may be told the LSN of
\* one page and the SBSN of another, and it is not so.
THEOREM FlushesAreDurable ==
  ASSUME MaxBatch = 1 \/ PendCount = 0
  PROVE  Spec => FlushIsDurable
<1>1. LogInv /\ FlushInv /\ [Next]_vars =>
        [\A t \in Trans \cup PageWriters :
           Returns(t) /\ ~WroteItself(t) => call[t].my \in Durable']_vars
  BY ReturnIsDurable DEF Known
<1> QED
  BY <1>1, FlushInvAlways, PTL DEF Spec, FlushIsDurable
=============================================================================
