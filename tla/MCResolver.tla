----------------------------- MODULE MCResolver -----------------------------
(* Small instances of Resolver for TLC. *)
EXTENDS Statistics, TLC

CONSTANTS c1, c2, c3, a, b, ptr, phone, tv, u1

\* Nothing is filtered.
Unfiltered == {{}}

\* The phone is never let through to b, the television now and then not to a.
Filtered == {{<<phone, b>>}, {<<phone, b>>, <<tv, a>>}}

NoPattern == {[n \in Name |-> {}]}

\* a is followed by b, and b by the reverse name of a private address.
Chain == {[n \in Name |-> IF n = a THEN {b} ELSE IF n = b THEN {ptr} ELSE {}]}

OneSecond == {<<1>>}
ThreeSeconds == {<<3>>}

\* The first record keeps its zero TTL.
ZeroAndOne == {<<0, 1>>}

\* Upstream has nothing to say, or two records: after a second one has run out
\* and the other one counts down.
NoneOrTwo == {<<>>, <<1, 2>>}

Symmetry == Permutations(Conn)
=============================================================================
