------------------------------ MODULE PlanCache ------------------------------
(***************************************************************************)
(* The cache of SQL plans (knlPlanCache.c, knpc).  An SQL text with its    *)
(* plans is kept in a flange of a clock; sessions find it through a hash   *)
(* and count themselves in and out; whoever needs room ages a clock and    *)
(* frees what nobody uses.  A hash bucket belongs to one SQL here.  What   *)
(* runs under the latch of a bucket or the spin lock of a flange is one    *)
(* action, with one exception (Insert and Join); the latch of a clock is   *)
(* held over many actions by the session that ages it.                     *)
(***************************************************************************)
EXTENDS Integers, Sequences, FiniteSets, SequencesExt

CONSTANTS
  Session,
  Sql,
  NoSql,          \* no text, mSqlString is NULL
  Plan,           \* what mCompareFunc tells apart
  Clock,
  ClockOf,        \* the clock of each session
  BlockSize,      \* KNPC_MAX_FLANGE_COUNT
  MaxBlocks,      \* bound on the blocks of a clock
  MaxFlangeCount, \* MAXIMUM_FLANGE_COUNT
  PlanSlots,      \* KNPC_MAX_PLAN_COUNT
  AgingThreshold, \* KNPC_CLOCK_AGING_THRESHOLD
  DeadAge,        \* KNPC_DEAD_AGE
  RefLimit        \* 2^64: mRefCount is unsigned

ASSUME PlanCacheAssumption ==
  /\ IsFiniteSet(Session) /\ NoSql \notin Sql
  /\ ClockOf \in [Session -> Clock]
  /\ BlockSize \in Nat \ {0} /\ MaxBlocks \in Nat \ {0} /\ MaxFlangeCount \in Nat
  /\ PlanSlots \in Nat \ {0} /\ AgingThreshold \in Nat /\ DeadAge \in Nat
  /\ RefLimit \in Nat /\ Cardinality(Session) < RefLimit

VARIABLES
  flange,  \* the flanges
  linked,  \* flanges in the overflow list of a hash bucket
  ring,    \* mBlockList of each clock
  count,   \* mFlangeCount
  free,    \* mFreeHand: block, and the slot to go on with
  hand,    \* mAgingHand: block; its slot is always the first
  pc,      \* what a session is doing
  stmt,    \* the SQL of its statement; NoSql for a scan of the fixed table of plans
  handle,  \* the flange it works with
  found,   \* the flange knlCacheSql has found in the hash
  fixed,   \* mSqlFixList: what is fixed, for whoever cleans up after the session
  text,    \* the text knpcAllocFlange has allocated and not given to a flange yet
  tries,   \* sRetryCount
  ager     \* locals of knpcAgingClock

cacheVars == <<flange, linked>>
clockVars == <<ring, count, free, hand>>
callVars  == <<stmt, handle, found, fixed, text, tries, ager>>
vars == <<cacheVars, clockVars, pc, callVars>>

Flange   == Clock \X (1 .. MaxBlocks) \X (1 .. BlockSize)
NoFlange == << >>

\* findable: mSqlLength is the length of the text
EmptyFlange == [sql |-> NoSql, ref |-> 0, plans |-> {}, age |-> 0, dropped |-> FALSE, findable |-> FALSE]

NoAger == [clock |-> CHOOSE c \in Clock : TRUE, block |-> 1, slot |-> 1, start |-> 1,
           freed |-> 0, age |-> 0, limit |-> 0, for |-> "idle"]

Init ==
  /\ flange = [f \in Flange |-> EmptyFlange] /\ linked = {}
  /\ ring = [c \in Clock |-> <<1>>] /\ count = [c \in Clock |-> BlockSize]
  /\ free = [c \in Clock |-> [block |-> 1, slot |-> 1]] /\ hand = [c \in Clock |-> 1]
  /\ pc = [s \in Session |-> "idle"]
  /\ stmt = [s \in Session |-> NoSql]
  /\ handle = [s \in Session |-> NoFlange]
  /\ found = [s \in Session |-> NoFlange]
  /\ fixed = [s \in Session |-> NoFlange]
  /\ text = [s \in Session |-> "none"]
  /\ tries = [s \in Session |-> 0]
  /\ ager = [s \in Session |-> NoAger]

Goto(s, p) == pc' = [pc EXCEPT ![s] = p]

\* The statement ends, or goes on without the cache.
Done(s) ==
  /\ Goto(s, "idle")
  /\ stmt' = [stmt EXCEPT ![s] = NoSql] /\ handle' = [handle EXCEPT ![s] = NoFlange]
  /\ text' = [text EXCEPT ![s] = "none"] /\ tries' = [tries EXCEPT ![s] = 0]

Decrement(n) == IF n = 0 THEN RefLimit - 1 ELSE n - 1

\* The bucket latch of an SQL is held only between Insert and Join.
Unlatched(q) == \A s \in Session : ~(pc[s] = "join" /\ stmt[s] = q)

ClockLatched(c) == \E s \in Session : pc[s] = "age" /\ ager[s].clock = c

-----------------------------------------------------------------------------
(* knlFixSql, knlUnfixSql, knlDiscardSql, and the scan of the flanges *)

Match(f, q) == flange[f].sql = q /\ flange[f].findable /\ ~flange[f].dropped

Found(q) == {f \in linked : Match(f, q)}

FixSql(s, q) ==
  /\ pc[s] = "idle" /\ Unlatched(q)
  /\ stmt' = [stmt EXCEPT ![s] = q]
  /\ \/ \E f \in Found(q) :
          /\ flange' = [flange EXCEPT ![f].ref = @ + 1, ![f].age = 0]
          /\ handle' = [handle EXCEPT ![s] = f]
          /\ Goto(s, "fixing")
     \/ Found(q) = {} /\ Goto(s, "compile") /\ UNCHANGED <<flange, handle>>
  /\ UNCHANGED <<linked, clockVars, found, fixed, text, tries, ager>>

\* A flange with plans, dropped or not.
FlangeFetchNext(s) ==
  /\ pc[s] = "idle"
  /\ \E f \in Flange :
       /\ flange[f].sql # NoSql /\ flange[f].plans # {}
       /\ flange' = [flange EXCEPT ![f].ref = @ + 1]
       /\ handle' = [handle EXCEPT ![s] = f]
  /\ Goto(s, "fixing")
  /\ UNCHANGED <<linked, clockVars, stmt, found, fixed, text, tries, ager>>

\* Without memory to note the handle, it is given back.
AddFixedSql(s) ==
  /\ pc[s] = "fixing"
  /\ \/ fixed' = [fixed EXCEPT ![s] = handle[s]] /\ Goto(s, "fixed")
     \/ Goto(s, "giveBack") /\ UNCHANGED fixed
  /\ UNCHANGED <<cacheVars, clockVars, stmt, handle, found, text, tries, ager>>

\* The plans of the flange are not valid any more.
DiscardSql(s) ==
  /\ pc[s] = "fixed" /\ stmt[s] # NoSql /\ Unlatched(flange[handle[s]].sql)
  /\ flange' = [flange EXCEPT ![handle[s]].dropped = TRUE]
  /\ linked' = linked \ {handle[s]}
  /\ Goto(s, "giveBack")
  /\ UNCHANGED <<clockVars, callVars>>

UnfixSql(s) ==
  /\ pc[s] \in {"fixed", "giveBack"}
  /\ flange' = [flange EXCEPT ![handle[s]].ref = Decrement(@)]
  /\ Goto(s, "unfixed")
  /\ UNCHANGED <<linked, clockVars, callVars>>

\* Without a plan that fits, the statement is compiled, and not looked up again.
RemoveFixedSql(s) ==
  /\ pc[s] = "unfixed"
  /\ fixed' = [fixed EXCEPT ![s] = NoFlange]
  /\ \/ Done(s)
     \/ /\ stmt[s] # NoSql
        /\ Goto(s, "compile") /\ handle' = [handle EXCEPT ![s] = NoFlange]
        /\ UNCHANGED <<stmt, text, tries>>
  /\ UNCHANGED <<cacheVars, clockVars, found, ager>>

-----------------------------------------------------------------------------
(* knpcAgingClock *)

After(c, b) ==
  LET i == CHOOSE i \in 1 .. Len(ring[c]) : ring[c][i] = b
  IN  ring[c][IF i = Len(ring[c]) THEN 1 ELSE i + 1]

\* for: where the session goes on; age: what a flange must have reached; limit: how many
\* flanges are enough.
BeginAging(s, c, for, age, limit) ==
  /\ ~ClockLatched(c)
  /\ ager' = [ager EXCEPT ![s] = [clock |-> c, block |-> hand[c], slot |-> 1, start |-> hand[c],
                                   freed |-> 0, age |-> age, limit |-> limit, for |-> for]]
  /\ Goto(s, "age")

Unused(f) == flange[f].sql # NoSql /\ flange[f].plans # {} /\ flange[f].ref = 0

Advance(s, n) == ager' = [ager EXCEPT ![s].slot = @ + 1, ![s].freed = @ + n]

\* One flange; an empty one counts as freed.
AgeFlange(s) ==
  LET f == <<ager[s].clock, ager[s].block, ager[s].slot>>
      dead == flange[f].dropped \/ flange[f].age >= ager[s].age
  IN
  /\ pc[s] = "age" /\ ager[s].slot <= BlockSize
  /\ \/ /\ Unused(f) /\ dead /\ Unlatched(flange[f].sql)
        /\ linked' = linked \ {f}
        /\ flange' = [flange EXCEPT ![f] = EmptyFlange]
        /\ Advance(s, 1)
     \/ /\ Unused(f) /\ ~dead /\ Unlatched(flange[f].sql)
        /\ \/ flange' = [flange EXCEPT ![f].age = @ + 1]
           \/ UNCHANGED flange    \* it was used less than AGING_PLAN_INTERVAL ago
        /\ Advance(s, 0) /\ UNCHANGED linked
     \/ /\ ~Unused(f) /\ UNCHANGED cacheVars
        /\ Advance(s, IF flange[f].sql = NoSql /\ flange[f].plans = {} /\ flange[f].ref = 0 THEN 1 ELSE 0)
  /\ UNCHANGED <<clockVars, pc, stmt, handle, found, fixed, text, tries>>

\* The whole ring has been seen, or enough has been freed.
EndOfRound(s) ==
  After(ager[s].clock, ager[s].block) = ager[s].start \/ ager[s].freed > ager[s].limit

NextBlock(s) ==
  LET b == After(ager[s].clock, ager[s].block) IN
  /\ pc[s] = "age" /\ ager[s].slot > BlockSize
  /\ \/ /\ ~EndOfRound(s)
        /\ ager' = [ager EXCEPT ![s].block = b, ![s].slot = 1]
     \/ /\ EndOfRound(s) /\ ager[s].freed = 0 /\ ager[s].age > 0
        /\ ager' = [ager EXCEPT ![s].block = b, ![s].slot = 1, ![s].age = @ - 1]
  /\ UNCHANGED <<cacheVars, clockVars, pc, stmt, handle, found, fixed, text, tries>>

\* Who needs a flange tries twice; when nothing has been freed, the text is freed here, and
\* once more in GiveUp.  Who needs memory goes on, or does without the cache.
EndAging(s) ==
  LET c == ager[s].clock IN
  /\ pc[s] = "age" /\ ager[s].slot > BlockSize
  /\ EndOfRound(s) /\ (ager[s].freed > 0 \/ ager[s].age <= 0)
  /\ hand' = [hand EXCEPT ![c] = After(c, ager[s].block)]
  /\ ager' = [ager EXCEPT ![s] = NoAger]
  /\ \/ /\ ager[s].for = "find" /\ ager[s].freed > 0
        /\ tries' = [tries EXCEPT ![s] = @ + 1]
        /\ Goto(s, IF tries[s] = 0 THEN "find" ELSE "giveUp")
        /\ UNCHANGED <<stmt, handle, text>>
     \/ /\ ager[s].for = "find" /\ ager[s].freed = 0
        /\ text' = [text EXCEPT ![s] = "freed"]
        /\ Goto(s, "giveUp")
        /\ UNCHANGED <<stmt, handle, tries>>
     \/ ager[s].for = "compile" /\ Goto(s, "compile") /\ UNCHANGED <<stmt, handle, text, tries>>
     \/ ager[s].for \in {"compile", "idle"} /\ Done(s)
  /\ UNCHANGED <<cacheVars, ring, count, free, found, fixed>>

\* knlAllocRegionMem or the text finds no memory
AgeForMemory(s) ==
  /\ pc[s] = "compile"
  /\ BeginAging(s, ClockOf[s], "compile", DeadAge, AgingThreshold)
  /\ UNCHANGED <<cacheVars, clockVars, stmt, handle, found, fixed, text, tries>>

\* knlCleanupPlans, one clock
CleanupPlans(s) ==
  /\ pc[s] = "idle"
  /\ \E c \in Clock : BeginAging(s, c, "idle", 0, BlockSize * MaxBlocks)
  /\ UNCHANGED <<cacheVars, clockVars, stmt, handle, found, fixed, text, tries>>

-----------------------------------------------------------------------------
(* knpcAllocFlange *)

\* The statement has a plan to cache, or one that is not cached.
Compile(s) ==
  /\ pc[s] = "compile"
  /\ \/ /\ Goto(s, "find") /\ text' = [text EXCEPT ![s] = "held"]
        /\ UNCHANGED <<stmt, handle, tries>>
     \/ Done(s)
  /\ UNCHANGED <<cacheVars, clockVars, found, fixed, ager>>

\* From the free hand on, up to the block of the aging hand: pairs of how many blocks
\* away and which slot, with the flanges there.
Position(c, b) == CHOOSE i \in 1 .. Len(ring[c]) : ring[c][i] = b
Distance(c)    == (Position(c, hand[c]) - Position(c, free[c].block) - 1) % Len(ring[c])
BlockAt(c, d)  == ring[c][((Position(c, free[c].block) - 1 + d) % Len(ring[c])) + 1]
FlangeAt(c, p) == <<c, BlockAt(c, p[1]), p[2]>>

Empties(c) ==
  {p \in (0 .. Distance(c)) \X (1 .. BlockSize) :
    (p[1] = 0 => p[2] >= free[c].slot) /\ flange[FlangeAt(c, p)].sql = NoSql}

IsFirst(p, P) == p \in P /\ \A q \in P : p[1] < q[1] \/ (p[1] = q[1] /\ p[2] <= q[2])

\* (mutant) a new flange is not yet counted as used.
FindEmptyUncounted(s) ==
  LET c == ClockOf[s] IN
  /\ pc[s] = "find" /\ ~ClockLatched(c)
  /\ \/ \E p \in Empties(c) :
          /\ IsFirst(p, Empties(c))
          /\ flange' = [flange EXCEPT ![FlangeAt(c, p)] =
               [EmptyFlange EXCEPT !.sql = stmt[s], !.findable = TRUE]]
          /\ free' = [free EXCEPT ![c] = [block |-> BlockAt(c, p[1]), slot |-> p[2] + 1]]
          /\ handle' = [handle EXCEPT ![s] = FlangeAt(c, p)]
          /\ text' = [text EXCEPT ![s] = "none"]
          /\ Goto(s, "insert")
     \/ /\ Empties(c) = {}
        /\ free' = [free EXCEPT ![c] = [block |-> BlockAt(c, Distance(c)), slot |-> BlockSize + 1]]
        /\ Goto(s, "extend") /\ UNCHANGED <<flange, handle, text>>
  /\ UNCHANGED <<linked, ring, count, hand, stmt, found, fixed, tries, ager>>

FindEmpty(s) ==
  LET c == ClockOf[s] IN
  /\ pc[s] = "find" /\ ~ClockLatched(c)
  /\ \/ \E p \in Empties(c) :
          /\ IsFirst(p, Empties(c))
          /\ flange' = [flange EXCEPT ![FlangeAt(c, p)] =
               [EmptyFlange EXCEPT !.sql = stmt[s], !.ref = 1, !.findable = TRUE]]
          /\ free' = [free EXCEPT ![c] = [block |-> BlockAt(c, p[1]), slot |-> p[2] + 1]]
          /\ handle' = [handle EXCEPT ![s] = FlangeAt(c, p)]
          /\ text' = [text EXCEPT ![s] = "none"]
          /\ Goto(s, "insert")
     \/ /\ Empties(c) = {}
        /\ free' = [free EXCEPT ![c] = [block |-> BlockAt(c, Distance(c)), slot |-> BlockSize + 1]]
        /\ Goto(s, "extend") /\ UNCHANGED <<flange, handle, text>>
  /\ UNCHANGED <<linked, ring, count, hand, stmt, found, fixed, tries, ager>>

\* knpcExtendClock looks at the number of flanges without the latch, and may find no memory.
ExtendClock(s) ==
  LET c == ClockOf[s] IN
  /\ pc[s] = "extend"
  /\ \/ MaxFlangeCount > count[c] + BlockSize /\ Goto(s, "link") /\ UNCHANGED ager
     \/ BeginAging(s, c, "find", DeadAge, AgingThreshold)
  /\ UNCHANGED <<cacheVars, clockVars, stmt, handle, found, fixed, text, tries>>

LinkBlock(s) ==
  LET c == ClockOf[s] IN
  /\ pc[s] = "link" /\ ~ClockLatched(c) /\ Len(ring[c]) < MaxBlocks
  /\ ring' = [ring EXCEPT ![c] = InsertAt(@, Position(c, free[c].block) + 1, Len(@) + 1)]
  /\ count' = [count EXCEPT ![c] = @ + BlockSize]
  /\ tries' = [tries EXCEPT ![s] = @ + 1]
  /\ Goto(s, IF tries[s] = 0 THEN "find" ELSE "giveUp")
  /\ UNCHANGED <<cacheVars, free, hand, stmt, handle, found, fixed, text, ager>>

GiveUp(s) ==
  /\ pc[s] = "giveUp"
  /\ text' = [text EXCEPT ![s] = IF @ = "held" THEN "freed" ELSE "freed again"]
  /\ Goto(s, "without")
  /\ UNCHANGED <<cacheVars, clockVars, stmt, handle, found, fixed, tries, ager>>

GoOnWithout(s) ==
  /\ pc[s] = "without" /\ Done(s)
  /\ UNCHANGED <<cacheVars, clockVars, found, fixed, ager>>

-----------------------------------------------------------------------------
(* knlCacheSql *)

\* (mutant) nobody looks whether the SQL has been cached meanwhile.
InsertUnseen(s) ==
  /\ pc[s] = "insert" /\ Unlatched(stmt[s])
  /\ \E p \in Plan : flange' = [flange EXCEPT ![handle[s]].plans = {p}]
  /\ linked' = linked \cup {handle[s]}
  /\ Goto(s, "fixing")
  /\ UNCHANGED <<clockVars, callVars>>

\* (mutant) the new flange is not freed when it is not needed.
InsertAndForget(s) ==
  /\ pc[s] = "insert" /\ Unlatched(stmt[s])
  /\ \/ /\ Found(stmt[s]) = {}
        /\ \E p \in Plan : flange' = [flange EXCEPT ![handle[s]].plans = {p}]
        /\ linked' = linked \cup {handle[s]}
        /\ Goto(s, "fixing") /\ UNCHANGED found
     \/ /\ \E f \in Found(stmt[s]) : found' = [found EXCEPT ![s] = f]
        /\ flange' = [flange EXCEPT ![handle[s]].ref = 0]
        /\ Goto(s, "join") /\ UNCHANGED linked
  /\ UNCHANGED <<clockVars, stmt, handle, fixed, text, tries, ager>>

\* When the SQL is cached already, the new flange is freed, under the latch of the bucket
\* and not under that of the clock.
Insert(s) ==
  /\ pc[s] = "insert" /\ Unlatched(stmt[s])
  /\ \/ /\ Found(stmt[s]) = {}
        /\ \E p \in Plan : flange' = [flange EXCEPT ![handle[s]].plans = {p}]
        /\ linked' = linked \cup {handle[s]}
        /\ Goto(s, "fixing") /\ UNCHANGED found
     \/ /\ \E f \in Found(stmt[s]) : found' = [found EXCEPT ![s] = f]
        /\ flange' = [flange EXCEPT ![handle[s]] = EmptyFlange]
        /\ Goto(s, "join") /\ UNCHANGED linked
  /\ UNCHANGED <<clockVars, stmt, handle, fixed, text, tries, ager>>

\* (mutant) who joins a flange does not count.
JoinUncounted(s) ==
  LET f == found[s] IN
  /\ pc[s] = "join"
  /\ \E p \in Plan :
       IF p \notin flange[f].plans /\ Cardinality(flange[f].plans) < PlanSlots
       THEN /\ flange' = [flange EXCEPT ![handle[s]].findable = FALSE,
                                        ![f].plans = @ \cup {p}, ![f].age = 0]
            /\ handle' = [handle EXCEPT ![s] = f]
            /\ Goto(s, "fixing") /\ UNCHANGED <<stmt, text, tries>>
       ELSE flange' = [flange EXCEPT ![handle[s]].findable = FALSE] /\ Done(s)
  /\ found' = [found EXCEPT ![s] = NoFlange]
  /\ UNCHANGED <<linked, clockVars, fixed, ager>>

\* The last store of knpcResetFlange is mSqlLength, after mSqlString, which makes the flange
\* empty for others.  Then the plan is added to the flange found, if it is another one and
\* there is a slot for it.
Join(s) ==
  LET f == found[s] IN
  /\ pc[s] = "join"
  /\ \E p \in Plan :
       IF p \notin flange[f].plans /\ Cardinality(flange[f].plans) < PlanSlots
       THEN /\ flange' = [flange EXCEPT ![handle[s]].findable = FALSE,
                                        ![f].plans = @ \cup {p}, ![f].ref = @ + 1, ![f].age = 0]
            /\ handle' = [handle EXCEPT ![s] = f]
            /\ Goto(s, "fixing") /\ UNCHANGED <<stmt, text, tries>>
       ELSE flange' = [flange EXCEPT ![handle[s]].findable = FALSE] /\ Done(s)
  /\ found' = [found EXCEPT ![s] = NoFlange]
  /\ UNCHANGED <<linked, clockVars, fixed, ager>>

-----------------------------------------------------------------------------
(* The process of a session is killed.  With an exclusive latch that would be fatal for *)
(* the server; else gmaster cleans up: knlCleanupSessionEnv.                            *)

Die(s) ==
  /\ pc[s] \notin {"idle", "age", "join", "dead"}
  /\ Goto(s, "dead")
  /\ UNCHANGED <<cacheVars, clockVars, callVars>>

Cleanup(s) ==
  /\ pc[s] = "dead"
  /\ IF fixed[s] = NoFlange THEN UNCHANGED flange
     ELSE flange' = [flange EXCEPT ![fixed[s]].ref = Decrement(@)]
  /\ fixed' = [fixed EXCEPT ![s] = NoFlange]
  /\ Done(s)
  /\ UNCHANGED <<linked, clockVars, found, ager>>

-----------------------------------------------------------------------------
Alloc(s) == Compile(s) \/ FindEmpty(s) \/ ExtendClock(s) \/ LinkBlock(s) \/ GiveUp(s) \/ GoOnWithout(s)
Age(s)   == AgeForMemory(s) \/ CleanupPlans(s) \/ AgeFlange(s) \/ NextBlock(s) \/ EndAging(s)
Fix(s)   == FlangeFetchNext(s) \/ AddFixedSql(s) \/ DiscardSql(s) \/ UnfixSql(s) \/ RemoveFixedSql(s)

Next ==
  \E s \in Session :
    \/ \E q \in Sql : FixSql(s, q)
    \/ Fix(s) \/ Age(s) \/ Alloc(s) \/ Insert(s) \/ Join(s)

Spec == Init /\ [][Next]_vars

CrashNext == Next \/ \E s \in Session : Die(s) \/ Cleanup(s)

CrashSpec == Init /\ [][CrashNext]_vars

-----------------------------------------------------------------------------
(* Properties *)

\* Who is counted in the reference count of a flange.
Using    == {"insert", "fixing", "fixed", "giveBack"}
Users(f) == {s \in Session : handle[s] = f /\ pc[s] \in Using}

CacheTypes ==
  /\ flange \in [Flange -> [sql : Sql \cup {NoSql}, ref : 0 .. RefLimit - 1, plans : SUBSET Plan,
                            age : Nat, dropped : BOOLEAN, findable : BOOLEAN]]
  /\ linked \in SUBSET Flange

\* The hands, and the block a session ages, are in the ring.
ClockTypes ==
  /\ ring \in [Clock -> Seq(1 .. MaxBlocks)] /\ count \in [Clock -> Nat]
  /\ free \in [Clock -> [block : 1 .. MaxBlocks, slot : 1 .. BlockSize + 1]]
  /\ hand \in [Clock -> 1 .. MaxBlocks]
  /\ ager \in [Session -> [clock : Clock, block : 1 .. MaxBlocks, slot : 1 .. BlockSize + 1, start : 1 .. MaxBlocks,
                           freed : Nat, age : Nat, limit : Nat, for : {"idle", "compile", "find"}]]
  /\ \A c \in Clock : {free[c].block, hand[c]} \subseteq ToSet(ring[c])
  /\ \A s \in Session : pc[s] = "age" => ager[s].block \in ToSet(ring[ager[s].clock])

CallTypes ==
  /\ pc \in [Session -> {"idle", "fixing", "fixed", "giveBack", "unfixed", "compile", "find", "extend",
                         "link", "age", "giveUp", "without", "insert", "join", "dead"}]
  /\ stmt \in [Session -> Sql \cup {NoSql}]
  /\ handle \in [Session -> Flange \cup {NoFlange}] /\ found \in [Session -> Flange \cup {NoFlange}]
  /\ fixed \in [Session -> Flange \cup {NoFlange}]
  /\ text \in [Session -> {"none", "held", "freed", "freed again"}]
  /\ tries \in [Session -> Nat]

\* TypeOK: each variable has its type; who looks for a flange has a statement, and who is
\* idle has none.
TypeOK ==
  /\ CacheTypes /\ ClockTypes /\ CallTypes
  /\ \A s \in Session : pc[s] = "idle" => stmt[s] = NoSql
  /\ \A s \in Session :
       pc[s] \in {"compile", "find", "extend", "link", "insert"} \/ (pc[s] = "age" /\ ager[s].for # "idle") =>
         stmt[s] \in Sql

\* RefCountExact: the reference count of a flange is the number of sessions that use it,
\* whatever they do meanwhile: fix, scan, cache the same SQL at once, discard, age.
RefCountExact == \A f \in Flange : flange[f].ref = Cardinality(Users(f))

\* HandlesAreValid: the flange a session has fixed is not freed under its hands: it holds
\* the SQL the session asked for, and a plan for it.
HandlesAreValid ==
  \A s \in Session : pc[s] \in {"fixing", "fixed", "giveBack"} =>
    /\ flange[handle[s]].plans # {} /\ flange[handle[s]].sql # NoSql
    /\ stmt[s] # NoSql => flange[handle[s]].sql = stmt[s]

\* OneFlangePerSql: an SQL two sessions compile at once is cached once, and what is in the
\* hash is not dropped.  Flanges with a wrong length are the exception (see CachedOnce).
OneFlangePerSql ==
  /\ \A f \in linked : ~flange[f].dropped
  /\ \A f, g \in linked : flange[f].sql = flange[g].sql /\ flange[f].findable /\ flange[g].findable => f = g

\* A flange of knlCacheSql that is not in the hash yet: nobody else has it.
NewFlange(s) ==
  LET f == flange[handle[s]] IN
  handle[s] \notin linked /\ f.sql = stmt[s] /\ f.plans = {} /\ f.ref = 1

FlangesSound ==
  /\ \A f \in Flange : flange[f].sql = NoSql => flange[f].ref = 0
  /\ \A f \in Flange : flange[f].sql # NoSql => flange[f].ref > 0 \/ flange[f].plans # {}
  /\ \A f \in linked : flange[f].sql # NoSql /\ flange[f].plans # {}
  /\ \A s \in Session : pc[s] \in Using => handle[s] \in Flange
  /\ \A s \in Session : pc[s] = "insert" => NewFlange(s)

\* What knlCacheSql has found in the hash stays there, with its text, until Join.
FoundStays ==
  \A s \in Session : pc[s] = "join" => found[s] \in linked /\ flange[found[s]].sql = stmt[s]

\* PlanInv: no flange is lost, whatever happens to it: an empty one is not counted as used,
\* so that knpcAllocFlange may take it; any other is in use or has a plan, and then
\* knpcAgingClock may free it; what is in the hash has a text and a plan, what is not
\* in it yet belongs to one session; and a flange knlCacheSql has found stays in the hash,
\* with the text it was found for, until the plan has been added to it.
PlanInv == TypeOK /\ FlangesSound /\ FoundStays

-----------------------------------------------------------------------------
(* What comments and assertions say, and the code does not do *)

\* CachedOnce: "if it is cached already, the new one is deleted" (knlPlanCache.c:318).
CachedOnce == \A f, g \in linked : flange[f].sql = flange[g].sql => f = g

\* TextIsFreedOnce: memory that is freed was in use (STL_ASSERT at knmDynamic.c:963).
TextIsFreedOnce == \A s \in Session : text[s] # "freed again"

\* UnfixIsCounted: who gives a handle back is counted (STL_DASSERT at knlPlanCache.c:164).
UnfixIsCounted == \A s \in Session : pc[s] \in {"fixed", "giveBack"} => flange[handle[s]].ref > 0

\* CountIsLimited: MAXIMUM_FLANGE_COUNT is the "maximum flange count in a plan clock".
CountIsLimited == \A c \in Clock : count[c] <= MaxFlangeCount

\* AgingMakesRoom: knpcAllocFlange tries again after aging that was a success, to "get an
\* empty flange on the clock" (knpcFlange.c:169); with one session nobody takes it away.
AgingMakesRoom ==
  \A s \in Session : pc[s] = "find" /\ tries[s] = 1 /\ MaxFlangeCount <= count[ClockOf[s]] + BlockSize =>
    Empties(ClockOf[s]) # {}
=============================================================================
