---------------------------- MODULE MCLockManager ----------------------------
(***************************************************************************)
(* Instances of LockManager.  The configurations choose the items, the     *)
(* modes, who may time out, roll back or drop, and one of these bounds on  *)
(* the calls of a transaction; when a slot is freed its count starts anew, *)
(* so the number of transactions that use a slot is not bounded.           *)
(***************************************************************************)
EXTENDS LockManager

TwiceEach  == [t \in Trans |-> 2]
TwiceFirst == [t \in Trans |-> IF t = 0 THEN 2 ELSE 1]
=============================================================================
