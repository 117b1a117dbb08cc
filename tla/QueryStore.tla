----------------------------- MODULE QueryStore -----------------------------
(***************************************************************************)
(* What the query log promises, without worker, queue, iterator or         *)
(* transactions: an accepted query waits until it is written, queries are  *)
(* written in the order in which they were accepted and as many at a time  *)
(* as one likes, each of them once; what is in the table stays there until *)
(* it is older than the retention; only what still waits dies with a       *)
(* process.  QueryLogger.tla is shown to implement this.                   *)
(***************************************************************************)
EXTENDS Integers, Sequences, Selection

CONSTANT Query    \* the queries, numbered in the order in which they are asked

VARIABLES
  asked,     \* how many queries there have been
  waiting,   \* accepted and not yet written
  table,     \* what is stored
  old        \* queries up to this one are older than the retention

vars == <<asked, waiting, table, old>>

Init == asked = 0 /\ waiting = <<>> /\ table = <<>> /\ old = 0

\* A query is accepted, or dropped because too many wait.
Ask ==
  /\ asked' = asked + 1 /\ asked' \in Query
  /\ waiting' \in {waiting, Append(waiting, asked')}
  /\ UNCHANGED <<table, old>>

\* The n oldest are written, all or none.
Write(n) ==
  /\ table' = table \o SubSeq(waiting, 1, n)
  /\ waiting' = SubSeq(waiting, n + 1, Len(waiting))
  /\ UNCHANGED <<asked, old>>

Age ==
  /\ old < asked
  /\ old' = old + 1
  /\ UNCHANGED <<asked, waiting, table>>

\* Everything that is too old goes, and nothing else.
Purge ==
  /\ table' = Select(table, {q \in Query : q > old})
  /\ UNCHANGED <<asked, waiting, old>>

Die ==
  /\ waiting' = <<>>
  /\ UNCHANGED <<asked, table, old>>

Next == Ask \/ (\E n \in 1..Len(waiting) : Write(n)) \/ Age \/ Purge \/ Die

Spec == Init /\ [][Next]_vars
=============================================================================
