----------------------------- MODULE MCWaitGraph -----------------------------
(***************************************************************************)
(* Every wait table over a few transaction slots, and what becomes of it   *)
(* when the slots ask, in any order, whether they are deadlocked and each  *)
(* confirmed victim switches its edges off.  Request groups are left out   *)
(* here (MCSharedWait has them).                                           *)
(***************************************************************************)
EXTENDS WaitGraph

CONSTANT SlotCount   \* transaction slots of the table

ASSUME SlotAssumption == SlotCount \in Nat

Slot == 0 .. (SlotCount - 1)

NoGroups == [g \in {} |-> 0]

VARIABLE table

vars == <<table>>

Init == table \in {g \in [Slot -> [Slot -> {NoEdge, Waits}]] : \A s \in Slot : g[s][s] = NoEdge}

\* A slot finds itself deadlocked and becomes the victim.
Confirm(s) ==
  /\ CheckDeadlock(table, NoGroups, s)
  /\ table' = ResolveDeadlock(table, s)

Next == \E s \in Slot : Confirm(s)

Spec == Init /\ [][Next]_vars /\ \A s \in Slot : WF_vars(Confirm(s))

-----------------------------------------------------------------------------
Successors(A) == {u \in Slot : \E a \in A : HasEdge(table, a, u)}

\* The slots that a chain of edges leads to from s: they are in every set that has
\* the successors of s and of its own slots.
Reachable(s) ==
  {u \in Slot : \A A \in SUBSET Slot : Successors(A \cup {s}) \subseteq A => u \in A}

OnCycle(s) == s \in Reachable(s)

\* A slot that smklCheckDeadlock calls deadlocked is on a cycle of waiting
\* slots: the search never aborts a transaction for a cycle of others.
CheckIsSound ==
  \A s \in Slot : CheckDeadlock(table, NoGroups, s) => OnCycle(s)

\* Although the search gives up (EXIT) at the first cycle without the asking
\* slot, every table with a cycle has a slot whose own search finds one.
SomeoneDetects ==
  (\E s \in Slot : OnCycle(s)) => \E s \in Slot : CheckDeadlock(table, NoGroups, s)

\* When every deadlocked slot keeps asking, all cycles are gone in the end.
CyclesResolved == <>[](\A s \in Slot : ~OnCycle(s))

=============================================================================
