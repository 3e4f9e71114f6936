------------------------------- MODULE MCLatch -------------------------------
(***************************************************************************)
(* Instances of Latch for TLC.                                             *)
(***************************************************************************)
EXTENDS Latch

CONSTANTS t1, t2, t3

MCThread    == {t1, t2, t3}
MCSharedEnv == {t1}
\* The thread with a shared environment calls twice: it may enter again.
MCMaxCalls  == [t \in MCThread |-> IF t = t1 THEN 2 ELSE 1]
=============================================================================
