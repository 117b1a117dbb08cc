--------------------------- MODULE MCQueryPatterns ---------------------------
(* An instance of QueryPatterns small enough for TLC. *)
EXTENDS QueryPatterns, TLC

Q(host, domain, type, after) ==
  [host |-> host, domain |-> domain, type |-> type, after |-> after, answered |-> TRUE]

\* One more query: in time, too late, by another client, without an answer, or
\* for the first name again.
OneMore == {Q("phone", "b", "AAAA", 5), Q("phone", "b", "A", 6), Q("tv", "b", "A", 5),
         [Q("phone", "b", "A", 5) EXCEPT !.answered = FALSE], Q("phone", "a", "A", 0)}

\* a, then b four times, one more query, and c, which was slow to be
\* answered and therefore logged after it.
Visit(more, cs) ==
  <<Q("phone", "a", "A", 0)>> \o [i \in 1..4 |-> Q("phone", "b", "A", i)] \o <<more>>
    \o [i \in 1..cs |-> Q("phone", "c", "A", 1)]

MCSessions == {Visit(more, cs) : more \in OneMore, cs \in 3..4}

Symmetry == Permutations(Run)
=============================================================================
