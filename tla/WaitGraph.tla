------------------------------ MODULE WaitGraph ------------------------------
(***************************************************************************)
(* The deadlock test of smklWaitGraph.c over the shared wait table.        *)
(*                                                                         *)
(* The wait table is a square matrix of bytes over slots 0..n-1: 0 is no   *)
(* edge, 1 is an edge, 2 is an edge that a confirmed deadlock has switched *)
(* off (SMKL_SET_DEADLOCK_EDGE).  Only the value 1 counts (SMKL_HAS_EDGE). *)
(* The first slots are transactions; one slot per request group of shared  *)
(* sessions follows them.  workers is the array mGroupWorkerCount: the     *)
(* number of shared servers of each group, indexed by group.  The search   *)
(* goes depth first in slot order and holds no latch of its own.           *)
(***************************************************************************)
EXTENDS Naturals, Sequences, FiniteSets

NoEdge       == 0
Waits        == 1
DeadlockEdge == 2

EdgeValue == {NoEdge, Waits, DeadlockEdge}

\* SMKL_HAS_EDGE
HasEdge(table, a, b) == table[a][b] = Waits

\* A visit that misses the asking slot at the head of the chain.
MetBlind(path, u) ==
  IF \E k \in DOMAIN path : path[k] = u THEN "EXIT" ELSE "DEEPER"

\* A visit that calls every cycle it meets a deadlock of the asking slot.
MetHasty(path, u) ==
  IF \E k \in DOMAIN path : path[k] = u THEN "TRUE" ELSE "DEEPER"

\* What smklCheckDeadlockInternal makes of a successor before descending into
\* it.  path is the chain of smklDeadlockLink records; its head is the asking
\* slot.  A cycle without the asking slot ends the whole search (EXIT).
Met(path, u) ==
  IF u = path[1] THEN "TRUE"
  ELSE IF \E k \in DOMAIN path : path[k] = u THEN "EXIT"
  ELSE "DEEPER"

\* The array element smklCheckRequestGroupDeadlockInternal reads for the group
\* at a slot of the wait table, which has n slots.
GroupWorkers(workers, n, slot) == workers[n - (slot + 1)]

Verdict == {"TRUE", "FALSE", "EXIT"}

\* A call of one of the two functions that search, in its loop over the slots: the
\* chain to the slot it is for, the next slot to look at, how many deadlocked
\* successors a group has counted, and the verdict of the last one descended into.
Frame(table) ==
  LET n == Cardinality(DOMAIN table)
  IN  [path : {p \in Seq(DOMAIN table) : p # << >>}, i : 0 .. n, dead : Nat, last : Verdict]

Enter(path) == [path |-> path, i |-> 0, dead |-> 0, last |-> "FALSE"]

\* smklCheckDeadlockInternal and, for the slot of a group,
\* smklCheckRequestGroupDeadlockInternal: one slot of their loop, where verdict has
\* the results of the rest.  A transaction takes the verdict of the first successor
\* that decides the search.  A group counts its deadlocked successors, stops at the
\* first one that is not, and is itself deadlocked when it counted as many as it has
\* workers.
Visit(table, workers, verdict, x) ==
  LET n     == Cardinality(DOMAIN table)
      here  == x.path[Len(x.path)]
      group == here >= n - Cardinality(DOMAIN workers)
      below == verdict[Enter(Append(x.path, x.i))]
      Pass(dead, last) == verdict[[x EXCEPT !.i = @ + 1, !.dead = dead, !.last = last]]
  IN  IF group /\ GroupWorkers(workers, n, here) = 0 THEN "FALSE"
      ELSE IF x.i = n
      THEN IF group /\ x.dead = GroupWorkers(workers, n, here) THEN "TRUE" ELSE x.last
      ELSE IF ~HasEdge(table, here, x.i) THEN Pass(x.dead, x.last)
      ELSE IF group
      THEN IF x.i = x.path[1] THEN Pass(x.dead + 1, x.last)
           ELSE IF below = "FALSE" THEN verdict[[x EXCEPT !.i = n, !.last = "FALSE"]]
           ELSE Pass(x.dead + 1, below)
      ELSE IF Met(x.path, x.i) # "DEEPER" THEN Met(x.path, x.i)
      ELSE IF below = "FALSE" THEN Pass(x.dead, "FALSE")
      ELSE below

\* The whole search, from every frame.
Search(table, workers) ==
  LET Scan[x \in Frame(table)] == Visit(table, workers, Scan, x)
  IN  Scan

\* smklCheckDeadlock
CheckDeadlock(table, workers, me) == Search(table, workers)[Enter(<<me>>)] = "TRUE"

\* A resolution that leaves the victim's edges waiting.
ResolveNothing(table, me) == table

\* smklResolveDeadlock: switch the victim's waiting edges off, so that nobody
\* else finds the same cycle.
ResolveDeadlock(table, me) ==
  [table EXCEPT ![me] =
     [u \in DOMAIN table |-> IF HasEdge(table, me, u) THEN DeadlockEdge ELSE table[me][u]]]

=============================================================================
