----------------------------- MODULE MCSharedWait -----------------------------
(***************************************************************************)
(* An instance of SharedWait: which sessions share a request group and how *)
(* many shared servers each group has.                                     *)
(***************************************************************************)
EXTENDS SharedWait

LastInSecond   == [s \in Session |-> IF s = SessionCount - 1 THEN 1 ELSE 0]
TwoServersEach == [g \in {0, 1} |-> 2]
TwoAndOne      == [g \in {0, 1} |-> IF g = 0 THEN 2 ELSE 1]
TwiceLast      == [s \in Session |-> IF s = SessionCount - 1 THEN 2 ELSE 1]
TwiceEach      == [s \in Session |-> 2]

\* VictimIsStuck where a search that counted too few servers of a group may not call
\* the asking session deadlocked (smklWaitGraph.c:231).  MCSharedHalf.cfg shows that
\* it does.
NoFalseVictim ==
  [][\A s \in Session :
       stage[s] = "suspect" /\ stage'[s] = "client" => Stuck(s) \/ EdgeIsStale]_vars
=============================================================================
