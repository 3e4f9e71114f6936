------------------------------ MODULE SharedWait ------------------------------
(***************************************************************************)
(* Deadlocks through the request queues of shared sessions.                *)
(*                                                                         *)
(* A shared session has no server process of its own: its dispatcher puts  *)
(* a request into the queue of its request group, and a shared server of   *)
(* that group takes it, runs it and sends the answer.  A server whose      *)
(* session has to wait for another transaction waits with it, so the end   *)
(* of a transaction may stand in a queue behind the servers that wait for  *)
(* it.  The wait table therefore has a slot per group: a session that has  *)
(* asked for a server waits for its group, a group for the sessions its    *)
(* servers are stuck with.  No latch ties these edges to the queue: the    *)
(* dispatcher adds a session's edge before it queues the request, the      *)
(* server that takes the request removes the edge only when it has read it.*)
(*                                                                         *)
(* The statements of a session change rows; a row last changed by an open  *)
(* transaction is waited for in smklWaitTransLock, as in LockManager.      *)
(***************************************************************************)
EXTENDS Naturals, Sequences, FiniteSets, WaitGraph

CONSTANTS
  SessionCount,   \* sessions, each with the transaction slot of its number
  GroupOf,        \* the request group of a session's dispatcher
  Workers,        \* mGroupWorkerCount: the shared servers of each group
  Rows,           \* rows the sessions change
  NoOne,          \* stands for "no session"
  MaxRequests     \* bound: the changes a session asks for, ends of transactions not counted

Session == 0 .. (SessionCount - 1)
Group   == DOMAIN Workers
Slot    == 0 .. (SessionCount + Cardinality(Group) - 1)

ASSUME SharedWaitAssumption ==
  /\ SessionCount \in Nat \ {0}
  /\ IsFiniteSet(Group) /\ Group = 0 .. (Cardinality(Group) - 1)
  /\ Workers \in [Group -> Nat]
  /\ GroupOf \in [Session -> Group]
  /\ NoOne \notin Session
  /\ MaxRequests \in [Session -> Nat]

VARIABLES
  queue,     \* mRequestEvent of each group: the sessions with a request, in order
  stage,     \* where each session is
  job,       \* the row its request changes, or "end", as is that of an idle client
  open,      \* the sessions with a transaction
  target,    \* the session whose transaction it waits for, or NoOne
  gone,      \* that transaction has ended
  owner,     \* owner[r]: the open transaction that changed row r last
  requests,  \* changes a session has asked for, against MaxRequests
  edge       \* the wait table

clientVars == <<job, requests>>
waitVars   == <<target, gone>>
vars == <<queue, stage, job, open, target, gone, owner, requests, edge>>

Stage == {"client", "sending", "queued", "taken", "served", "grouped", "polling", "suspect"}

\* Stages in which a request has no server yet: its dispatcher is about to queue it,
\* or has.
Unserved == {"sending", "queued"}

\* Stages in which the edge of a request stands: a server that has taken the request
\* has not read it yet.
Asking == Unserved \cup {"taken"}

\* Stages in which a shared server is busy with the session.
Busy == {"taken", "served", "grouped", "polling", "suspect"}

\* Stages in which it waits for another transaction, or is about to.
Waiting == {"grouped", "polling", "suspect"}

\* The slot of a group, as smklAddEdgeIntoWaitGraph computes it.
GroupSlot(g) == SessionCount + g

Served(g) == {s \in Session : GroupOf[s] = g /\ stage[s] \in Busy}

Deadlocked(s) == CheckDeadlock(edge, Workers, s)

At(s, label) == stage' = [stage EXCEPT ![s] = label]

TypeOK ==
  /\ queue    \in [Group -> Seq(Session)]
  /\ stage    \in [Session -> Stage]
  /\ job      \in [Session -> Rows \cup {"end"}]
  /\ open     \in SUBSET Session
  /\ target   \in [Session -> Session \cup {NoOne}]
  /\ \A s \in Session : stage[s] \in Waiting => target[s] \in Session \ {s}
  /\ gone     \in [Session -> BOOLEAN]
  /\ owner    \in [Rows -> Session \cup {NoOne}]
  /\ requests \in [Session -> Nat]
  /\ edge     \in [Slot -> [Slot -> EdgeValue]]

Init ==
  /\ queue    = [g \in Group |-> << >>]
  /\ stage    = [s \in Session |-> "client"]
  /\ job      = [s \in Session |-> "end"]
  /\ open     = {}
  /\ target   = [s \in Session |-> NoOne]
  /\ gone     = [s \in Session |-> FALSE]
  /\ owner    = [r \in Rows |-> NoOne]
  /\ requests = [s \in Session |-> 0]
  /\ edge     = [a \in Slot |-> [b \in Slot |-> NoEdge]]

-----------------------------------------------------------------------------
(* The queues.                                                              *)

\* ztimProcessRequest: the dispatcher has a complete request of a client.  A session
\* without a transaction gets no edge.
AddRequestEdge(s, j) ==
  /\ stage[s] = "client"
  /\ j = "end" => s \in open
  /\ j \in Rows => requests[s] < MaxRequests[s]
  /\ edge' = IF s \in open THEN [edge EXCEPT ![s][GroupSlot(GroupOf[s])] = Waits] ELSE edge
  /\ At(s, "sending")
  /\ job'      = [job EXCEPT ![s] = j]
  /\ requests' = [requests EXCEPT ![s] = IF j \in Rows THEN @ + 1 ELSE @]
  /\ UNCHANGED <<queue, open, waitVars, owner>>

\* sclEnqueueRequest.
Enqueue(s) ==
  /\ stage[s] = "sending"
  /\ queue' = [queue EXCEPT ![GroupOf[s]] = Append(@, s)]
  /\ At(s, "queued")
  /\ UNCHANGED <<clientVars, open, waitVars, owner, edge>>

\* sclDequeueRequest: a free server of the group takes the oldest request.
Dequeue(g) ==
  /\ queue[g] # << >>
  /\ Cardinality(Served(g)) < Workers[g]
  /\ queue' = [queue EXCEPT ![g] = Tail(@)]
  /\ At(Head(queue[g]), "taken")
  /\ UNCHANGED <<clientVars, open, waitVars, owner, edge>>

\* A server that leaves the edge of the request it took.
LeaveRequestEdge(s) ==
  /\ stage[s] = "taken"
  /\ At(s, "served")
  /\ UNCHANGED <<queue, clientVars, open, waitVars, owner, edge>>

\* ztssProcessRequest: the server has read and parsed the request.
RemoveRequestEdge(s) ==
  /\ stage[s] = "taken"
  /\ edge' = IF s \in open THEN [edge EXCEPT ![s][GroupSlot(GroupOf[s])] = NoEdge] ELSE edge
  /\ At(s, "served")
  /\ UNCHANGED <<queue, clientVars, open, waitVars, owner>>

-----------------------------------------------------------------------------
(* A statement: it changes a row, or waits for the transaction that did.    *)

Change(s) ==
  /\ stage[s] = "served" /\ job[s] \in Rows
  /\ owner[job[s]] \in {s, NoOne}
  /\ owner' = [owner EXCEPT ![job[s]] = s]
  /\ open'  = open \cup {s}
  /\ At(s, "client")
  /\ job'   = [job EXCEPT ![s] = "end"]
  /\ UNCHANGED <<queue, requests, waitVars, edge>>

\* A wait for whoever has the row, be it nobody.
EnterForNobody(s) ==
  /\ stage[s] = "served" /\ job[s] \in Rows
  /\ owner[job[s]] # s
  /\ target' = [target EXCEPT ![s] = owner[job[s]]]
  /\ gone'   = [gone   EXCEPT ![s] = FALSE]
  /\ open'   = open \cup {s}
  /\ edge'   = [edge   EXCEPT ![GroupSlot(GroupOf[s])][s] = Waits]
  /\ At(s, "grouped")
  /\ UNCHANGED <<queue, clientVars, owner>>

\* A wait that does not tell the wait table that it takes a server.
EnterNoGroup(s) ==
  /\ stage[s] = "served" /\ job[s] \in Rows
  /\ owner[job[s]] \notin {s, NoOne}
  /\ target' = [target EXCEPT ![s] = owner[job[s]]]
  /\ gone'   = [gone   EXCEPT ![s] = FALSE]
  /\ open'   = open \cup {s}
  /\ At(s, "grouped")
  /\ UNCHANGED <<queue, clientVars, owner, edge>>

\* smklWaitTransLock records that a server of the group is stuck with s, and
\* then whom s waits for.
EnterGroup(s) ==
  /\ stage[s] = "served" /\ job[s] \in Rows
  /\ owner[job[s]] \notin {s, NoOne}
  /\ target' = [target EXCEPT ![s] = owner[job[s]]]
  /\ gone'   = [gone   EXCEPT ![s] = FALSE]
  /\ open'   = open \cup {s}
  /\ edge'   = [edge   EXCEPT ![GroupSlot(GroupOf[s])][s] = Waits]
  /\ At(s, "grouped")
  /\ UNCHANGED <<queue, clientVars, owner>>

EnterWait(s) ==
  /\ stage[s] = "grouped"
  /\ edge' = [edge EXCEPT ![s][target[s]] = Waits]
  /\ At(s, "polling")
  /\ UNCHANGED <<queue, clientVars, open, waitVars, owner>>

\* The edge to the target outlives the wait.
EdgesAfterWaitKeepTarget(table, s) == [table EXCEPT ![GroupSlot(GroupOf[s])][s] = NoEdge]

\* Neither edge outlives the wait.
EdgesAfterWait(table, s) ==
  [table EXCEPT ![s][target[s]] = NoEdge, ![GroupSlot(GroupOf[s])][s] = NoEdge]

\* Whom it waited for is a local of smklWaitTransLock.
Forget(s) ==
  /\ target' = [target EXCEPT ![s] = NoOne]
  /\ gone'   = [gone   EXCEPT ![s] = FALSE]

\* The transaction has ended: the statement looks at the row again.
Done(s) ==
  /\ stage[s] = "polling" /\ gone[s]
  /\ edge' = EdgesAfterWait(edge, s)
  /\ At(s, "served")
  /\ Forget(s)
  /\ UNCHANGED <<queue, clientVars, open, owner>>

Suspect(s) ==
  /\ stage[s] = "polling" /\ ~gone[s]
  /\ Deadlocked(s)
  /\ At(s, "suspect")
  /\ UNCHANGED <<queue, clientVars, open, waitVars, owner, edge>>

\* The second check, under the deadlock latch.  A victim whose target has ended
\* meanwhile goes on, any other one fails its statement.
Confirm(s) ==
  /\ stage[s] = "suspect"
  /\ \/ /\ Deadlocked(s)
        /\ edge' = EdgesAfterWait(ResolveDeadlock(edge, s), s)
        /\ At(s, IF gone[s] THEN "served" ELSE "client")
        /\ job' = [job EXCEPT ![s] = IF gone[s] THEN @ ELSE "end"]
        /\ Forget(s)
     \/ /\ ~Deadlocked(s)
        /\ At(s, "polling")
        /\ UNCHANGED <<edge, job, waitVars>>
  /\ UNCHANGED <<queue, requests, open, owner>>

\* smxlCommit or smxlRollback, with smklResetWaitSlot.
End(s) ==
  /\ stage[s] = "served" /\ job[s] = "end"
  /\ owner' = [r \in Rows |-> IF owner[r] = s THEN NoOne ELSE owner[r]]
  /\ open'  = open \ {s}
  /\ gone'  = [w \in Session |-> gone[w] \/ (stage[w] \in Busy /\ target[w] = s)]
  /\ edge'  = [a \in Slot |-> [edge[a] EXCEPT ![s] = NoEdge]]
  /\ At(s, "client")
  /\ UNCHANGED <<queue, clientVars, target>>

-----------------------------------------------------------------------------
Serve(s) ==
  \/ RemoveRequestEdge(s) \/ Change(s) \/ End(s)
  \/ EnterGroup(s) \/ EnterWait(s) \/ Done(s) \/ Suspect(s) \/ Confirm(s)

Next ==
  \/ \E s \in Session, j \in Rows \cup {"end"} : AddRequestEdge(s, j)
  \/ \E s \in Session : Enqueue(s)
  \/ \E g \in Group : Dequeue(g)
  \/ \E s \in Session : Serve(s)

Spec == Init /\ [][Next]_vars

\* Dispatchers and servers do what they can, and a client that cannot ask for more
\* ends its transaction.
FairSpec ==
  /\ Spec
  /\ \A g \in Group : WF_vars(Dequeue(g))
  /\ \A s \in Session :
       WF_vars(Enqueue(s)) /\ WF_vars(Serve(s)) /\ WF_vars(AddRequestEdge(s, "end"))

-----------------------------------------------------------------------------
\* The largest set of sessions in which nobody gets on before another one of the
\* set has: a waiting session whose target is in it, an unserved one whose group
\* has every server busy with sessions of it.
Stuck(s) ==
  \E A \in SUBSET Session :
    /\ s \in A
    /\ \A a \in A :
         \/ stage[a] \in {"polling", "suspect"} /\ ~gone[a] /\ target[a] \in A
         \/ /\ stage[a] \in Unserved
            /\ Cardinality(Served(GroupOf[a])) = Workers[GroupOf[a]]
            /\ Served(GroupOf[a]) \subseteq A

\* The group's row and column of the wait table say exactly who asks for one of its
\* servers and whom they are stuck with.  The edge of a request stands before the
\* request is in the queue and until the server that took it has read it, so no
\* session is queued without its edge; neither request nor wait leaves one behind.
GroupEdgesExact ==
  \A s \in Session :
    LET g == GroupSlot(GroupOf[s])
    IN  /\ HasEdge(edge, s, g) <=> stage[s] \in Asking /\ s \in open
        /\ HasEdge(edge, g, s) <=> stage[s] \in Waiting

\* A deadlock is always visible to one of the servers that are in it.
DeadlockIsVisible ==
  \A s \in Session :
    stage[s] = "polling" /\ Stuck(s) =>
      \E v \in Session : stage[v] \in {"polling", "suspect"} /\ Stuck(v) /\ Deadlocked(v)

\* A wait whose target has ended leaves an edge to a slot that may be another
\* transaction's by now (see VictimIsStuck of LockManager).
EdgeIsStale == \E w \in Session : stage[w] \in Waiting /\ gone[w]

\* Some servers of a group that has the edge of a request are stuck, and not all of
\* them: the search counts too few deadlocked ones, and its verdict is that of the
\* last one (smklWaitGraph.c:231), be it a deadlock.  One of the others may have just
\* taken that very request (ztss.c:489) and not removed its edge yet (86).
GroupIsHalfStuck ==
  \E s \in Session :
    LET g     == GroupOf[s]
        stuck == {w \in Served(g) : stage[w] \in Waiting}
    IN  HasEdge(edge, s, GroupSlot(g)) /\ stuck # {} /\ Cardinality(stuck) < Workers[g]

\* A statement fails with a deadlock only if its session is in one: whom it waits
\* for cannot move, and a group it waits for has every server stuck.
VictimIsStuck ==
  [][\A s \in Session :
       stage[s] = "suspect" /\ stage'[s] = "client" =>
         Stuck(s) \/ EdgeIsStale \/ GroupIsHalfStuck]_vars

\* No server is lost to a wait that never ends: when no more changes are asked for,
\* nobody waits in the end.
EveryWaitEnds == <>[](\A s \in Session : stage[s] \notin Waiting)

=============================================================================
