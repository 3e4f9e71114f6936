----------------------------- MODULE MCPlanCache -----------------------------
(***************************************************************************)
(* Instances of PlanCache: one clock for all sessions.  Sessions on one    *)
(* clock, texts and plans are interchangeable.                             *)
(***************************************************************************)
EXTENDS PlanCache, TLC

OneClock  == [s \in Session |-> 1]
Interchangeable == Permutations(Session) \cup Permutations(Sql) \cup Permutations(Plan)
=============================================================================
