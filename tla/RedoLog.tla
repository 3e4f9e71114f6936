------------------------------- MODULE RedoLog -------------------------------
(***************************************************************************)
(* What the redo log promises, without buffers, blocks and latches: the    *)
(* logs that are stable come before all others, no log is ever put before  *)
(* a stable one, and a restart finds the stable logs and perhaps some      *)
(* more, but never a log without those before it.                          *)
(***************************************************************************)
EXTENDS Integers

VARIABLES
  log,    \* LSNs of the complete logs
  stable  \* those that a crash cannot take away

\* No log of the rest is older than one of s.
Prefix(s) == \A a \in s, b \in log \ s : a < b

Init == log = {} /\ stable = {}

Add ==
  /\ log \subseteq log' /\ \A s \in stable, l \in log' \ log : s < l
  /\ UNCHANGED stable

Harden ==
  /\ stable' \in SUBSET log /\ stable \subseteq stable' /\ Prefix(stable')
  /\ UNCHANGED log

Recover ==
  /\ log' \in SUBSET log /\ stable \subseteq log' /\ Prefix(log')
  /\ stable' = log'

Next == Add \/ Harden \/ Recover

Spec == Init /\ [][Next]_<<log, stable>>
=============================================================================
