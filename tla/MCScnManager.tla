---------------------------- MODULE MCScnManager ----------------------------
(***************************************************************************)
(* Instances of ScnManager: what statements each session opens, and how    *)
(* many.                                                                   *)
(***************************************************************************)
EXTENDS ScnManager

Query  == [snap |-> TRUE, ring |-> "readOnly"]
Define == [snap |-> FALSE, ring |-> "updatable"]

\* A session that queries, and one that changes the schema.
QueryAndDefine == <<{Query}, {Define}>>
TwoAndOne      == <<2, 1>>

\* Two sessions with one query each.
Queries   == <<{Query}, {Query}>>
OneAndOne == <<1, 1>>
=============================================================================
