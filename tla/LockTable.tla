------------------------------ MODULE LockTable ------------------------------
(***************************************************************************)
(* What a lock manager promises to its clients: a table of the mode each   *)
(* transaction has been granted on each item, in which no two entries of   *)
(* an item conflict.  A grant converts the entry; a release lowers it.     *)
(***************************************************************************)
EXTENDS LockModes

CONSTANTS Transactions, LockItems

VARIABLE granted

Init == granted = [i \in LockItems |-> [t \in Transactions |-> "NONE"]]

\* t gets mode m in addition to what it has, and nobody else minds.
Grant(t, i, m) ==
  /\ \A u \in Transactions \ {t} : Compatible(granted[i][u], m)
  /\ granted' = [granted EXCEPT ![i][t] = Conversion(@, m)]

\* t keeps only mode m of what it has.
Release(t, i, m) ==
  /\ Covers(granted[i][t], m)
  /\ granted' = [granted EXCEPT ![i][t] = m]

Next ==
  \E t \in Transactions, i \in LockItems, m \in LockMode : Grant(t, i, m) \/ Release(t, i, m)

Spec == Init /\ [][Next]_granted

=============================================================================
