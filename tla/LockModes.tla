------------------------------ MODULE LockModes ------------------------------
(***************************************************************************)
(* The lock modes of the storage manager's lock manager, their strength    *)
(* order, and the two matrices of smklManager.c that every grant decision  *)
(* reads: gLockConversionMatrix (the mode a holder ends with when it asks  *)
(* for a second one) and gLockCompatibleMatrix (which modes two            *)
(* transactions may hold at once).  Both are given entry by entry and as   *)
(* the rule that LockManagerProofs shows each entry to follow.             *)
(***************************************************************************)

LockMode == {"NONE", "IS", "IX", "S", "X", "SIX"}

\* The modes mIntentHoldArray can record: a slot's optimistic lock.
IntentMode == {"NONE", "IS", "IX"}

\* a is at least as strong as b.
Covers(a, b) ==
  \/ b = "NONE"
  \/ a = b
  \/ a = "X"
  \/ b = "IS"  /\ a # "NONE"
  \/ a = "SIX" /\ b # "X"

\* One row of a matrix of smklManager.c, its columns in the order of smlLockMode.
Row(none, is, ix, s, x, six) ==
  [NONE |-> none, IS |-> is, IX |-> ix, S |-> s, X |-> x, SIX |-> six]

gLockConversionMatrix ==
  [NONE |-> Row("NONE", "IS",  "IX",  "S",   "X", "SIX"),
   IS   |-> Row("IS",   "IS",  "IX",  "S",   "X", "SIX"),
   IX   |-> Row("IX",   "IX",  "IX",  "SIX", "X", "SIX"),
   S    |-> Row("S",    "S",   "SIX", "S",   "X", "SIX"),
   X    |-> Row("X",    "X",   "X",   "X",   "X", "X"),
   SIX  |-> Row("SIX",  "SIX", "SIX", "SIX", "X", "SIX")]

gLockCompatibleMatrix ==
  [NONE |-> Row(TRUE, TRUE,  TRUE,  TRUE,  TRUE,  TRUE),
   IS   |-> Row(TRUE, TRUE,  TRUE,  TRUE,  FALSE, TRUE),
   IX   |-> Row(TRUE, TRUE,  TRUE,  FALSE, FALSE, FALSE),
   S    |-> Row(TRUE, TRUE,  FALSE, TRUE,  FALSE, FALSE),
   X    |-> Row(TRUE, FALSE, FALSE, FALSE, FALSE, FALSE),
   SIX  |-> Row(TRUE, TRUE,  FALSE, FALSE, FALSE, FALSE)]

\* gLockConversionMatrix as a rule: the weakest mode that covers both.
Conversion(a, b) ==
  IF Covers(a, b) THEN a ELSE IF Covers(b, a) THEN b ELSE "SIX"

\* gLockCompatibleMatrix as a rule: may two transactions hold a and b together?
Compatible(a, b) ==
  \/ a = "NONE" \/ b = "NONE"
  \/ a = "IS" /\ b # "X"
  \/ b = "IS" /\ a # "X"
  \/ a = b /\ a \in {"IX", "S"}

\* What folding gLockConversionMatrix from SML_LOCK_NONE over the nodes of a
\* list yields, as the loops that recompute mGrantedMode do.  The order of
\* the nodes does not matter, so the list is the set of its modes.
Join(M) ==
  IF "X" \in M THEN "X"
  ELSE IF "SIX" \in M \/ {"S", "IX"} \subseteq M THEN "SIX"
  ELSE IF "S"  \in M THEN "S"
  ELSE IF "IX" \in M THEN "IX"
  ELSE IF "IS" \in M THEN "IS"
  ELSE "NONE"

=============================================================================
