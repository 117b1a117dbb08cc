--------------------------- MODULE MCQueryLogger ---------------------------
(* Small instances of QueryLogger for TLC. *)
EXTENDS QueryLogger

CONSTANT s1

\* The request of the watcher names every client but the one that sent query 2.
MostWanted == [s \in Sub |-> Query \ {2}]
=============================================================================
