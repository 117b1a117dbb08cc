--------------------------- MODULE SelectionProofs ---------------------------
(* What Select does, what ascending sequences are, how ranks sort and what the *)
(* entries of a histogram add up to: facts about data other proofs rest on.    *)
EXTENDS Selection, FiniteSetTheorems, SequenceTheorems, TLAPS

\* Strictly ascending sequences of numbers: the order in which queries are asked.
Ascending(s) == \A i, j \in DOMAIN s : i < j => s[i] < s[j]

\* Whatever is in s comes before whatever is in t.
AllBelow(s, t) == \A x \in RangeOf(s), y \in RangeOf(t) : x < y

-----------------------------------------------------------------------------
(* Induction, for sets of numbers; finite sets. *)

\* Every non-empty set of numbers has a least element.
LEMMA LeastNumber ==
  ASSUME NEW S \in SUBSET Nat, S # {}
  PROVE  \E x \in S : \A y \in S : x <= y
<1> DEFINE Segments == {0..n : n \in S}
<1>1. Segments \subseteq FiniteSubsetsOf(Nat) /\ Segments # {}
  <2>1. \A n \in S : IsFiniteSet(0..n) /\ 0..n \subseteq Nat
    BY FS_Interval
  <2> QED BY <2>1 DEF FiniteSubsetsOf
<1>2. PICK seg \in Segments : \A other \in Segments : <<other, seg>> \notin StrictSubsetOrdering(Nat)
  BY <1>1, FS_StrictSubsetOrderingWellFounded, WFMin
<1>3. PICK x \in S : seg = 0..x
  OBVIOUS
<1>4. ASSUME NEW y \in S, y < x PROVE FALSE
  <2>1. 0..y \in Segments /\ 0..y \subseteq seg /\ 0..y # seg
    <3>1. x \in seg /\ x \notin 0..y
      BY <1>3, <1>4
    <3> QED BY <1>3, <1>4, <3>1
  <2>2. 0..y \in SUBSET Nat /\ seg \in SUBSET Nat
    BY <1>3
  <2>3. <<0..y, seg>> \in StrictSubsetOrdering(Nat)
    BY <2>1, <2>2, Zenon DEF StrictSubsetOrdering
  <2> HIDE DEF Segments
  <2> QED BY <1>2, <2>1, <2>3
<1> QED BY <1>4

\* Mathematical induction, for a set instead of a predicate.
LEMMA Induction ==
  ASSUME NEW S \in SUBSET Nat, 0 \in S, \A n \in S : n + 1 \in S
  PROVE  S = Nat
<1> DEFINE C == Nat \ S
<1>1. CASE C # {}
  <2>1. PICK x \in C : \A y \in C : x <= y
    BY <1>1, LeastNumber
  <2>2. x # 0 /\ x - 1 \in Nat
    BY <2>1
  <2>3. x - 1 \in S
    BY <2>1, <2>2
  <2>4. (x - 1) + 1 \in S
    BY <2>3
  <2> QED BY <2>1, <2>4
<1> QED BY <1>1

\* The image of a finite set.
LEMMA FiniteImage ==
  ASSUME NEW S, IsFiniteSet(S), NEW f, DOMAIN f = S, f = [x \in S |-> f[x]]
  PROVE  IsFiniteSet({f[x] : x \in S})
<1> DEFINE T == {f[x] : x \in S}
<1>1. f \in Surjection(S, T)
  BY DEF Surjection
<1> QED BY <1>1, FS_Surjection

-----------------------------------------------------------------------------
(* Select is well defined. *)

\* The recursion of Select, for a function g.
Selects(g, n, s, S) ==
  \A i \in 0..n :
    g[i] = IF i = 0 THEN <<>>
           ELSE IF s[i] \in S THEN Append(g[i - 1], s[i]) ELSE g[i - 1]

\* There is such a function, for as long a part of s as one likes.
LEMMA SelectorExists ==
  ASSUME NEW s, NEW S, NEW n \in Nat
  PROVE  \E g : g = [i \in 0..n |-> g[i]] /\ Selects(g, n, s, S)
<1> DEFINE N == {m \in Nat : \E g : g = [i \in 0..m |-> g[i]] /\ Selects(g, m, s, S)}
<1>1. 0 \in N
  <2> DEFINE g == [i \in 0..0 |-> <<>>]
  <2>1. g = [i \in 0..0 |-> g[i]] /\ Selects(g, 0, s, S)
    BY DEF Selects
  <2> QED BY <2>1
<1>2. ASSUME NEW m \in N PROVE m + 1 \in N
  <2>1. PICK g : g = [i \in 0..m |-> g[i]] /\ Selects(g, m, s, S)
    OBVIOUS
  <2> DEFINE next == IF s[m + 1] \in S THEN Append(g[m], s[m + 1]) ELSE g[m]
             h == [i \in 0..(m + 1) |-> IF i = m + 1 THEN next ELSE g[i]]
  <2>2. h = [i \in 0..(m + 1) |-> h[i]]
    OBVIOUS
  <2>3. h[m + 1] = next /\ \A i \in 0..m : h[i] = g[i]
    OBVIOUS
  <2> HIDE DEF h
  <2>4. ASSUME NEW i \in 0..(m + 1)
        PROVE  h[i] = IF i = 0 THEN <<>>
                      ELSE IF s[i] \in S THEN Append(h[i - 1], s[i]) ELSE h[i - 1]
    <3>1. CASE i = m + 1
      BY <2>3, <3>1
    <3>2. CASE i \in 0..m
      <4>1. i # 0 => i - 1 \in 0..m
        BY <3>2
      <4> QED BY <2>1, <2>3, <3>2, <4>1 DEF Selects
    <3> QED BY <3>1, <3>2
  <2>5. Selects(h, m + 1, s, S)
    BY <2>4 DEF Selects
  <2> QED BY <2>2, <2>5
<1>3. N = Nat
  <2> HIDE DEF N
  <2>1. N \in SUBSET Nat
    BY DEF N
  <2> QED BY <1>1, <1>2, <2>1, Induction
<1> QED BY <1>3

\* Two of them agree where both are defined, if the sequences do.
LEMMA SelectorsAgree ==
  ASSUME NEW s, NEW t, NEW S, NEW g, NEW h, NEW n \in Nat,
         Selects(g, n, s, S), Selects(h, n, t, S), \A i \in 1..n : s[i] = t[i]
  PROVE  g[n] = h[n]
<1> DEFINE N == {m \in Nat : m <= n => g[m] = h[m]}
<1>1. 0 \in N
  BY DEF Selects
<1>2. ASSUME NEW m \in N PROVE m + 1 \in N
  <2>1. CASE m + 1 <= n
    <3>1. g[m] = h[m] /\ m + 1 \in 0..n /\ m + 1 # 0 /\ (m + 1) - 1 = m
      BY <2>1
    <3>2. s[m + 1] = t[m + 1]
      BY <2>1
    <3>3. g[m + 1] = IF s[m + 1] \in S THEN Append(g[m], s[m + 1]) ELSE g[m]
      BY <3>1 DEF Selects
    <3>4. h[m + 1] = IF t[m + 1] \in S THEN Append(h[m], t[m + 1]) ELSE h[m]
      BY <3>1 DEF Selects
    <3> QED BY <3>1, <3>2, <3>3, <3>4
  <2> QED BY <2>1
<1>3. N = Nat
  <2> HIDE DEF N
  <2>1. N \in SUBSET Nat
    BY DEF N
  <2> QED BY <1>1, <1>2, <2>1, Induction
<1> QED BY <1>3

\* What Select is: the last value of any function with its recursion.
LEMMA SelectDef ==
  ASSUME NEW s, NEW S, Len(s) \in Nat
  PROVE  \E g : Selects(g, Len(s), s, S) /\ Select(s, S) = g[Len(s)]
<1> DEFINE F(g) == [i \in 0..Len(s) |->
                      IF i = 0 THEN <<>>
                      ELSE IF s[i] \in S THEN Append(g[i - 1], s[i]) ELSE g[i - 1]]
           sel == CHOOSE g : g = F(g)
<1>1. Select(s, S) = sel[Len(s)]
  BY DEF Select
<1>2. \E g : g = F(g)
  <2>1. PICK g : g = [i \in 0..Len(s) |-> g[i]] /\ Selects(g, Len(s), s, S)
    BY SelectorExists
  <2>2. F(g) = [i \in 0..Len(s) |-> g[i]]
    BY <2>1 DEF Selects
  <2> QED BY <2>1, <2>2
<1>3. sel = F(sel)
  <2> HIDE DEF F
  <2> QED BY <1>2
<1>4. Selects(sel, Len(s), s, S)
  <2>1. \A g : g = F(g) => Selects(g, Len(s), s, S)
    BY DEF Selects
  <2> HIDE DEF F, sel
  <2> QED BY <1>3, <2>1
<1> HIDE DEF sel, F
<1> QED BY <1>1, <1>4

\* Select, step by step: nothing is selected from nothing ...
LEMMA SelectEmpty == ASSUME NEW S PROVE Select(<<>>, S) = <<>>
<1>1. Len(<<>>) = 0
  BY EmptySeq
<1>2. PICK g : Selects(g, 0, <<>>, S) /\ Select(<<>>, S) = g[0]
  BY <1>1, SelectDef
<1> QED BY <1>2 DEF Selects

\* ... and one more element is selected or not.
LEMMA SelectAppend ==
  ASSUME NEW X, NEW s \in Seq(X), NEW x \in X, NEW S
  PROVE  Select(Append(s, x), S) =
           IF x \in S THEN Append(Select(s, S), x) ELSE Select(s, S)
<1> DEFINE t == Append(s, x)
           n == Len(s)
<1>1. /\ n \in Nat /\ Len(t) = n + 1 /\ t[n + 1] = x
      /\ \A i \in 1..n : s[i] = t[i]
  BY AppendProperties, LenProperties
<1> HIDE DEF t
<1>2. PICK g : Selects(g, n, s, S) /\ Select(s, S) = g[n]
  BY <1>1, SelectDef
<1>3. PICK h : Selects(h, n + 1, t, S) /\ Select(t, S) = h[n + 1]
  BY <1>1, SelectDef
<1>4. Selects(h, n, t, S)
  BY <1>1, <1>3 DEF Selects
<1> HIDE DEF n
<1>5. g[n] = h[n]
  BY <1>1, <1>2, <1>4, SelectorsAgree
<1>6. h[n + 1] = IF x \in S THEN Append(h[n], x) ELSE h[n]
  <2>1. n + 1 \in 0..(n + 1) /\ n + 1 # 0 /\ (n + 1) - 1 = n
    BY <1>1
  <2> QED BY <1>1, <1>3, <2>1 DEF Selects
<1> QED BY <1>2, <1>3, <1>5, <1>6 DEF t

-----------------------------------------------------------------------------
(* Induction, for sets of sequences. *)

\* A sequence is empty or ends in some element.
LEMMA FrontAndLast ==
  ASSUME NEW X, NEW s \in Seq(X), s # <<>>
  PROVE  \E front \in Seq(X), x \in X : s = Append(front, x) /\ Len(s) = Len(front) + 1
<1> DEFINE n == Len(s) - 1
           front == SubSeq(s, 1, n)
<1>1. n \in Nat /\ Len(s) = n + 1 /\ s[n + 1] \in X
  BY EmptySeq, ElementOfSeq
<1> HIDE DEF n
<1>2. front \in Seq(X) /\ Len(front) = n /\ \A i \in 1..n : front[i] = s[i]
  BY <1>1, SubSeqProperties, ElementOfSeq
<1> HIDE DEF front
<1>3. Append(front, s[n + 1]) = s
  BY <1>1, <1>2, SeqEqual, AppendProperties
<1> QED BY <1>1, <1>2, <1>3

\* What holds of the empty sequence, and of a longer one if of the shorter, holds
\* of every sequence.
LEMMA SeqInduction ==
  ASSUME NEW X, NEW T \in SUBSET Seq(X), <<>> \in T,
         \A s \in T, x \in X : Append(s, x) \in T
  PROVE  T = Seq(X)
<1> DEFINE N == {n \in Nat : \A s \in Seq(X) : Len(s) = n => s \in T}
<1>1. 0 \in N
  BY EmptySeq
<1>2. ASSUME NEW n \in N PROVE n + 1 \in N
  <2>1. ASSUME NEW s \in Seq(X), Len(s) = n + 1 PROVE s \in T
    <3>1. s # <<>>
      BY <2>1, EmptySeq
    <3>2. PICK front \in Seq(X), x \in X : s = Append(front, x) /\ Len(s) = Len(front) + 1
      BY <3>1, FrontAndLast
    <3>3. Len(front) = n
      BY <2>1, <3>2, LenProperties
    <3> QED BY <3>2, <3>3
  <2> QED BY <2>1
<1>3. N = Nat
  <2> HIDE DEF N
  <2>1. N \in SUBSET Nat
    BY DEF N
  <2> QED BY <1>1, <1>2, <2>1, Induction
<1>4. ASSUME NEW s \in Seq(X) PROVE s \in T
  BY <1>3, LenProperties
<1> QED BY <1>4

-----------------------------------------------------------------------------
(* The elements of sequences, and their order. *)

\* Nothing is in the empty sequence.
LEMMA RangeEmpty == RangeOf(<<>>) = {}
BY EmptySeq DEF RangeOf

\* What is in a sequence that one element is appended to.
LEMMA RangeAppend ==
  ASSUME NEW X, NEW s \in Seq(X), NEW x \in X
  PROVE  RangeOf(Append(s, x)) = RangeOf(s) \cup {x}
<1> DEFINE t == Append(s, x)
<1>1. /\ DOMAIN s = 1..Len(s) /\ DOMAIN t = 1..(Len(s) + 1) /\ Len(s) \in Nat
      /\ t[Len(s) + 1] = x /\ \A i \in 1..Len(s) : t[i] = s[i]
  BY AppendProperties, LenProperties
<1> HIDE DEF t
<1>2. RangeOf(t) = RangeOf(s) \cup {x}
  BY <1>1 DEF RangeOf
<1> QED BY <1>2 DEF t

\* What is in two sequences, one after the other.
LEMMA RangeConcat ==
  ASSUME NEW X, NEW s \in Seq(X), NEW t \in Seq(X)
  PROVE  RangeOf(s \o t) = RangeOf(s) \cup RangeOf(t)
<1> DEFINE u == s \o t
<1>1. /\ u \in Seq(X) /\ Len(u) = Len(s) + Len(t)
      /\ \A i \in 1..(Len(s) + Len(t)) : u[i] = IF i <= Len(s) THEN s[i] ELSE t[i - Len(s)]
  BY ConcatProperties
<1>2. /\ DOMAIN s = 1..Len(s) /\ DOMAIN t = 1..Len(t)
      /\ DOMAIN u = 1..(Len(s) + Len(t)) /\ Len(s) \in Nat /\ Len(t) \in Nat
  BY <1>1, LenProperties
<1> HIDE DEF u
<1>3. ASSUME NEW x \in RangeOf(u) PROVE x \in RangeOf(s) \cup RangeOf(t)
  <2>1. PICK i \in 1..(Len(s) + Len(t)) : x = u[i]
    BY <1>2 DEF RangeOf
  <2>2. CASE i <= Len(s)
    <3>1. i \in 1..Len(s) /\ x = s[i]
      BY <1>1, <1>2, <2>1, <2>2
    <3> QED BY <1>2, <3>1 DEF RangeOf
  <2>3. CASE i > Len(s)
    <3>1. i - Len(s) \in 1..Len(t) /\ x = t[i - Len(s)]
      BY <1>1, <1>2, <2>1, <2>3
    <3> QED BY <1>2, <3>1 DEF RangeOf
  <2> QED BY <1>2, <2>2, <2>3
<1>4. ASSUME NEW x \in RangeOf(s) PROVE x \in RangeOf(u)
  <2>1. PICK i \in 1..Len(s) : x = s[i]
    BY <1>2 DEF RangeOf
  <2>2. i \in 1..(Len(s) + Len(t)) /\ u[i] = x
    BY <1>1, <1>2, <2>1
  <2> QED BY <1>2, <2>2 DEF RangeOf
<1>5. ASSUME NEW x \in RangeOf(t) PROVE x \in RangeOf(u)
  <2>1. PICK i \in 1..Len(t) : x = t[i]
    BY <1>2 DEF RangeOf
  <2>2. i + Len(s) \in 1..(Len(s) + Len(t)) /\ u[i + Len(s)] = x
    BY <1>1, <1>2, <2>1
  <2> QED BY <1>2, <2>2 DEF RangeOf
<1>6. RangeOf(u) = RangeOf(s) \cup RangeOf(t)
  BY <1>3, <1>4, <1>5
<1> QED BY <1>6 DEF u

\* The elements of a sequence over X are elements of X.
LEMMA RangeType ==
  ASSUME NEW X, NEW s \in Seq(X)
  PROVE  RangeOf(s) \subseteq X
BY LenProperties, ElementOfSeq DEF RangeOf

\* The empty sequence ascends.
LEMMA AscendingEmpty == Ascending(<<>>)
BY EmptySeq DEF Ascending

\* A sequence ascends when both its parts do, the first of them below the second.
LEMMA AscendingConcat ==
  ASSUME NEW s \in Seq(Nat), NEW t \in Seq(Nat)
  PROVE  Ascending(s \o t) <=> Ascending(s) /\ Ascending(t) /\ AllBelow(s, t)
<1> DEFINE u == s \o t
<1>1. /\ u \in Seq(Nat) /\ Len(u) = Len(s) + Len(t)
      /\ \A i \in 1..(Len(s) + Len(t)) : u[i] = IF i <= Len(s) THEN s[i] ELSE t[i - Len(s)]
  BY ConcatProperties
<1>2. /\ DOMAIN s = 1..Len(s) /\ DOMAIN t = 1..Len(t)
      /\ DOMAIN u = 1..(Len(s) + Len(t)) /\ Len(s) \in Nat /\ Len(t) \in Nat
  BY <1>1, LenProperties
<1> HIDE DEF u
<1>3. /\ \A i \in DOMAIN s : i \in DOMAIN u /\ u[i] = s[i] /\ i <= Len(s)
      /\ \A j \in DOMAIN t : j + Len(s) \in DOMAIN u /\ u[j + Len(s)] = t[j] /\ j + Len(s) > Len(s)
  <2>1. ASSUME NEW i \in DOMAIN s PROVE i \in DOMAIN u /\ u[i] = s[i] /\ i <= Len(s)
    <3>1. i \in 1..(Len(s) + Len(t)) /\ i <= Len(s)
      BY <1>2
    <3> QED BY <1>1, <1>2, <3>1
  <2>2. ASSUME NEW j \in DOMAIN t
        PROVE  j + Len(s) \in DOMAIN u /\ u[j + Len(s)] = t[j] /\ j + Len(s) > Len(s)
    <3>1. /\ j + Len(s) \in 1..(Len(s) + Len(t)) /\ j + Len(s) > Len(s)
          /\ ~(j + Len(s) <= Len(s)) /\ (j + Len(s)) - Len(s) = j
      BY <1>2
    <3> QED BY <1>1, <1>2, <3>1
  <2> QED BY <2>1, <2>2
<1>4. ASSUME Ascending(u) PROVE Ascending(s) /\ Ascending(t) /\ AllBelow(s, t)
  <2>1. Ascending(s)
    <3>1. ASSUME NEW i \in DOMAIN s, NEW j \in DOMAIN s, i < j PROVE s[i] < s[j]
      BY <1>3, <1>4, <3>1 DEF Ascending
    <3> QED BY <3>1 DEF Ascending
  <2>2. Ascending(t)
    <3>1. ASSUME NEW i \in DOMAIN t, NEW j \in DOMAIN t, i < j PROVE t[i] < t[j]
      <4>1. i + Len(s) < j + Len(s)
        BY <1>2, <3>1
      <4> QED BY <1>3, <1>4, <4>1 DEF Ascending
    <3> QED BY <3>1 DEF Ascending
  <2>3. AllBelow(s, t)
    <3>1. ASSUME NEW i \in DOMAIN s, NEW j \in DOMAIN t PROVE s[i] < t[j]
      <4>1. i < j + Len(s)
        BY <1>2
      <4> QED BY <1>3, <1>4, <4>1 DEF Ascending
    <3> QED BY <3>1 DEF AllBelow, RangeOf
  <2> QED BY <2>1, <2>2, <2>3
<1>5. ASSUME Ascending(s), Ascending(t), AllBelow(s, t) PROVE Ascending(u)
  <2>1. ASSUME NEW i \in DOMAIN u, NEW j \in DOMAIN u, i < j PROVE u[i] < u[j]
    <3>1. CASE j <= Len(s)
      <4>1. i \in DOMAIN s /\ j \in DOMAIN s /\ u[i] = s[i] /\ u[j] = s[j]
        BY <1>1, <1>2, <2>1, <3>1
      <4> QED BY <1>5, <2>1, <4>1 DEF Ascending
    <3>2. CASE i > Len(s)
      <4>0. /\ i \in 1..(Len(s) + Len(t)) /\ j \in 1..(Len(s) + Len(t))
            /\ i > Len(s) /\ j > Len(s)
        BY <1>2, <2>1, <3>2
      <4>1. /\ i - Len(s) \in DOMAIN t /\ j - Len(s) \in DOMAIN t
            /\ i - Len(s) < j - Len(s)
        BY <1>2, <2>1, <4>0
      <4>2. u[i] = t[i - Len(s)] /\ u[j] = t[j - Len(s)]
        <5>1. ~(i <= Len(s)) /\ ~(j <= Len(s))
          BY <1>2, <4>0
        <5> QED BY <1>1, <4>0, <5>1
      <4> QED BY <1>5, <4>1, <4>2 DEF Ascending
    <3>3. CASE i <= Len(s) /\ j > Len(s)
      <4>1. /\ i \in DOMAIN s /\ j - Len(s) \in DOMAIN t
            /\ u[i] = s[i] /\ u[j] = t[j - Len(s)]
        BY <1>1, <1>2, <2>1, <3>3
      <4> QED BY <1>5, <4>1 DEF AllBelow, RangeOf
    <3> QED BY <1>2, <3>1, <3>2, <3>3
  <2> QED BY <2>1 DEF Ascending
<1> QED BY <1>4, <1>5 DEF u

\* A sequence stays ascending if what is appended comes after all of it.
LEMMA AscendingAppend ==
  ASSUME NEW s \in Seq(Nat), NEW x \in Nat
  PROVE  Ascending(Append(s, x)) <=> Ascending(s) /\ \A y \in RangeOf(s) : y < x
<1>1. <<x>> \in Seq(Nat) /\ Append(s, x) = s \o <<x>>
  BY AppendIsConcat
<1>2. RangeOf(<<x>>) = {x} /\ Ascending(<<x>>)
  BY DEF RangeOf, Ascending
<1>3. AllBelow(s, <<x>>) <=> \A y \in RangeOf(s) : y < x
  BY <1>2 DEF AllBelow
<1> QED BY <1>1, <1>2, <1>3, AscendingConcat

-----------------------------------------------------------------------------
(* What is selected. *)

\* Selecting gives a sequence of the selected elements.
LEMMA SelectType ==
  ASSUME NEW X, NEW S
  PROVE  \A s \in Seq(X) : Select(s, S) \in Seq(X)
<1> DEFINE T == {s \in Seq(X) : Select(s, S) \in Seq(X)}
<1>1. <<>> \in T
  BY SelectEmpty, EmptySeq
<1>2. ASSUME NEW s \in T, NEW x \in X PROVE Append(s, x) \in T
  <2>1. s \in Seq(X) /\ Select(s, S) \in Seq(X)
    OBVIOUS
  <2>2. Append(s, x) \in Seq(X) /\ Append(Select(s, S), x) \in Seq(X)
    BY <2>1, AppendProperties
  <2>3. Select(Append(s, x), S) = IF x \in S THEN Append(Select(s, S), x) ELSE Select(s, S)
    BY <2>1, SelectAppend
  <2> QED BY <2>1, <2>2, <2>3
<1>3. T = Seq(X)
  <2> HIDE DEF T
  <2>1. T \in SUBSET Seq(X)
    BY DEF T
  <2> QED BY <1>1, <1>2, <2>1, SeqInduction
<1> QED BY <1>3

\* Selected is what is in the sequence and in the set.
LEMMA SelectRange ==
  ASSUME NEW X, NEW S
  PROVE  \A s \in Seq(X) : RangeOf(Select(s, S)) = RangeOf(s) \cap S
<1> DEFINE T == {s \in Seq(X) : RangeOf(Select(s, S)) = RangeOf(s) \cap S}
<1>1. <<>> \in T
  BY SelectEmpty, EmptySeq, RangeEmpty
<1>2. ASSUME NEW s \in T, NEW x \in X PROVE Append(s, x) \in T
  <2>1. Select(s, S) \in Seq(X) /\ Append(s, x) \in Seq(X)
    BY SelectType, AppendProperties
  <2>2. RangeOf(Append(s, x)) = RangeOf(s) \cup {x}
    BY RangeAppend
  <2>3. RangeOf(Append(Select(s, S), x)) = RangeOf(Select(s, S)) \cup {x}
    BY <2>1, RangeAppend
  <2>4. Select(Append(s, x), S) = IF x \in S THEN Append(Select(s, S), x) ELSE Select(s, S)
    BY SelectAppend
  <2>5. RangeOf(Select(Append(s, x), S)) = RangeOf(Append(s, x)) \cap S
    <3>1. RangeOf(Select(s, S)) = RangeOf(s) \cap S
      OBVIOUS
    <3>2. CASE x \in S
      BY <2>2, <2>3, <2>4, <3>1, <3>2
    <3>3. CASE x \notin S
      BY <2>2, <2>4, <3>1, <3>3
    <3> QED BY <3>2, <3>3
  <2> QED BY <2>1, <2>5
<1>3. T = Seq(X)
  <2> HIDE DEF T
  <2>1. T \in SUBSET Seq(X)
    BY DEF T
  <2> QED BY <1>1, <1>2, <2>1, SeqInduction
<1> QED BY <1>3

\* To select from two sequences is to select from one after the other.
LEMMA SelectConcat ==
  ASSUME NEW X, NEW S, NEW s \in Seq(X)
  PROVE  \A t \in Seq(X) : Select(s \o t, S) = Select(s, S) \o Select(t, S)
<1> DEFINE T == {t \in Seq(X) : Select(s \o t, S) = Select(s, S) \o Select(t, S)}
<1>0. Select(s, S) \in Seq(X)
  BY SelectType
<1>1. <<>> \in T
  <2>1. s \o <<>> = s /\ Select(s, S) \o <<>> = Select(s, S)
    BY <1>0, ConcatEmptySeq
  <2> QED BY <2>1, SelectEmpty, EmptySeq
<1>2. ASSUME NEW t \in T, NEW x \in X PROVE Append(t, x) \in T
  <2>1. /\ t \in Seq(X) /\ Append(t, x) \in Seq(X) /\ s \o t \in Seq(X)
        /\ Select(t, S) \in Seq(X) /\ <<x>> \in Seq(X)
    BY SelectType, AppendProperties, ConcatProperties
  <2>2. s \o Append(t, x) = Append(s \o t, x)
    BY <2>1, AppendIsConcat, ConcatAssociative
  <2>3. Select(s, S) \o Append(Select(t, S), x) = Append(Select(s, S) \o Select(t, S), x)
    <3>1. Select(s, S) \o Select(t, S) \in Seq(X)
      BY <1>0, <2>1, ConcatProperties
    <3> QED BY <1>0, <2>1, <3>1, AppendIsConcat, ConcatAssociative
  <2>4. Select(s \o Append(t, x), S)
          = IF x \in S THEN Append(Select(s \o t, S), x) ELSE Select(s \o t, S)
    <3> DEFINE u == s \o t
    <3>1. u \in Seq(X)
      BY <2>1
    <3> HIDE DEF u
    <3>2. Select(Append(u, x), S) = IF x \in S THEN Append(Select(u, S), x) ELSE Select(u, S)
      BY <3>1, SelectAppend
    <3> QED BY <2>2, <3>2 DEF u
  <2>5. Select(Append(t, x), S)
          = IF x \in S THEN Append(Select(t, S), x) ELSE Select(t, S)
    BY <2>1, SelectAppend
  <2> QED BY <2>1, <2>3, <2>4, <2>5
<1>3. T = Seq(X)
  <2> HIDE DEF T
  <2>1. T \in SUBSET Seq(X)
    BY DEF T
  <2> QED BY <1>1, <1>2, <2>1, SeqInduction
<1> QED BY <1>3

\* To select twice is to select once, from what is in both sets.
LEMMA SelectTwice ==
  ASSUME NEW X, NEW S, NEW R
  PROVE  \A s \in Seq(X) : Select(Select(s, S), R) = Select(s, S \cap R)
<1> DEFINE T == {s \in Seq(X) : Select(Select(s, S), R) = Select(s, S \cap R)}
<1>1. <<>> \in T
  BY SelectEmpty, EmptySeq
<1>2. ASSUME NEW s \in T, NEW x \in X PROVE Append(s, x) \in T
  <2>1. Select(s, S) \in Seq(X) /\ Append(s, x) \in Seq(X)
    BY SelectType, AppendProperties
  <2>2. Select(Append(s, x), S) = IF x \in S THEN Append(Select(s, S), x) ELSE Select(s, S)
    BY SelectAppend
  <2>3. Select(Append(s, x), S \cap R)
          = IF x \in S \cap R THEN Append(Select(s, S \cap R), x) ELSE Select(s, S \cap R)
    BY SelectAppend
  <2>4. Select(Append(Select(s, S), x), R)
          = IF x \in R THEN Append(Select(Select(s, S), R), x) ELSE Select(Select(s, S), R)
    BY ZenonT(60), <2>1, SelectAppend
  <2>5. Select(Select(s, S), R) = Select(s, S \cap R)
    OBVIOUS
  <2>6. Select(Select(Append(s, x), S), R) = Select(Append(s, x), S \cap R)
    <3>1. CASE x \in S
      <4>1. Select(Append(s, x), S) = Append(Select(s, S), x)
        BY <2>2, <3>1
      <4>2. x \in S \cap R <=> x \in R
        BY <3>1
      <4> QED BY <2>3, <2>4, <2>5, <4>1, <4>2
    <3>2. CASE x \notin S
      BY <2>2, <2>3, <2>5, <3>2
    <3> QED BY <3>1, <3>2
  <2> QED BY <2>1, <2>6
<1>3. T = Seq(X)
  <2> HIDE DEF T
  <2>1. T \in SUBSET Seq(X)
    BY DEF T
  <2> QED BY <1>1, <1>2, <2>1, SeqInduction
<1> QED BY <1>3

\* Only which elements of the sequence are in the set matters.
LEMMA SelectSame ==
  ASSUME NEW X, NEW S, NEW R
  PROVE  \A s \in Seq(X) : RangeOf(s) \cap S = RangeOf(s) \cap R => Select(s, S) = Select(s, R)
<1> DEFINE T == {s \in Seq(X) :
                   RangeOf(s) \cap S = RangeOf(s) \cap R => Select(s, S) = Select(s, R)}
<1>1. <<>> \in T
  BY SelectEmpty, EmptySeq
<1>2. ASSUME NEW s \in T, NEW x \in X PROVE Append(s, x) \in T
  <2>1. Append(s, x) \in Seq(X) /\ RangeOf(Append(s, x)) = RangeOf(s) \cup {x}
    BY AppendProperties, RangeAppend
  <2>2. ASSUME RangeOf(Append(s, x)) \cap S = RangeOf(Append(s, x)) \cap R
        PROVE  Select(Append(s, x), S) = Select(Append(s, x), R)
    <3>1. RangeOf(s) \cap S = RangeOf(s) \cap R /\ (x \in S <=> x \in R)
      <4>1. \A y \in RangeOf(s) \cup {x} : y \in S <=> y \in R
        BY <2>1, <2>2
      <4> QED BY <4>1
    <3>2. Select(s, S) = Select(s, R)
      BY <3>1
    <3>3. /\ Select(Append(s, x), S) = IF x \in S THEN Append(Select(s, S), x) ELSE Select(s, S)
          /\ Select(Append(s, x), R) = IF x \in R THEN Append(Select(s, R), x) ELSE Select(s, R)
      BY SelectAppend
    <3> QED BY <3>1, <3>2, <3>3
  <2> QED BY <2>1, <2>2
<1>3. T = Seq(X)
  <2> HIDE DEF T
  <2>1. T \in SUBSET Seq(X)
    BY DEF T
  <2> QED BY <1>1, <1>2, <2>1, SeqInduction
<1> QED BY <1>3

\* If no element is in the set, none is selected.
LEMMA SelectNone ==
  ASSUME NEW X, NEW S, NEW s \in Seq(X), RangeOf(s) \cap S = {}
  PROVE  Select(s, S) = <<>>
<1> DEFINE T == {t \in Seq(X) : Select(t, {}) = <<>>}
<1>1. <<>> \in T
  BY SelectEmpty, EmptySeq
<1>2. ASSUME NEW t \in T, NEW x \in X PROVE Append(t, x) \in T
  BY SelectAppend, AppendProperties
<1>3. T = Seq(X)
  <2> HIDE DEF T
  <2>1. T \in SUBSET Seq(X)
    BY DEF T
  <2> QED BY <1>1, <1>2, <2>1, SeqInduction
<1>4. Select(s, {}) = <<>>
  BY <1>3
<1>5. Select(s, S) = Select(s, {})
  BY SelectSame
<1> QED BY <1>4, <1>5

\* What is selected from an ascending sequence is ascending.
LEMMA SelectAscending ==
  ASSUME NEW S
  PROVE  \A s \in Seq(Nat) : Ascending(s) => Ascending(Select(s, S))
<1> DEFINE T == {s \in Seq(Nat) : Ascending(s) => Ascending(Select(s, S))}
<1>1. <<>> \in T
  BY SelectEmpty, EmptySeq
<1>2. ASSUME NEW s \in T, NEW x \in Nat PROVE Append(s, x) \in T
  <2>1. ASSUME Ascending(Append(s, x)) PROVE Ascending(Select(Append(s, x), S))
    <3>1. Ascending(s) /\ \A y \in RangeOf(s) : y < x
      BY <2>1, AscendingAppend
    <3>2. /\ Select(s, S) \in Seq(Nat) /\ Ascending(Select(s, S))
          /\ RangeOf(Select(s, S)) \subseteq RangeOf(s)
      BY <3>1, SelectType, SelectRange
    <3>3. Ascending(Append(Select(s, S), x))
      BY <3>1, <3>2, AscendingAppend
    <3> QED BY <3>2, <3>3, SelectAppend
  <2> QED BY <2>1, AppendProperties
<1>3. T = Seq(Nat)
  <2> HIDE DEF T
  <2>1. T \in SUBSET Seq(Nat)
    BY DEF T
  <2> QED BY <1>1, <1>2, <2>1, SeqInduction
<1> QED BY <1>3

\* The positions in s of the elements of t, in order: those of what is in S.
Places(at, s, S, t) ==
  /\ at \in [DOMAIN t -> DOMAIN s]
  /\ \A i, j \in DOMAIN t : i < j => at[i] < at[j]
  /\ \A k \in DOMAIN t : t[k] = s[at[k]] /\ t[k] \in S
  /\ \A i \in DOMAIN s : s[i] \in S => \E k \in DOMAIN t : at[k] = i

\* What is selected stays in order, and nothing is selected twice or left out.
LEMMA SelectPlaces ==
  ASSUME NEW X, NEW S
  PROVE  \A s \in Seq(X) : \E at : Places(at, s, S, Select(s, S))
<1> DEFINE T == {s \in Seq(X) : \E at : Places(at, s, S, Select(s, S))}
<1>1. <<>> \in T
  <2>1. Places(<<>>, <<>>, S, <<>>)
    BY DEF Places
  <2> QED BY <2>1, SelectEmpty, EmptySeq
<1>2. ASSUME NEW s \in T, NEW x \in X PROVE Append(s, x) \in T
  <2> DEFINE longer == Append(s, x)
             t == Select(s, S)
             u == Append(t, x)
  <2>1. s \in Seq(X) /\ t \in Seq(X) /\ longer \in Seq(X)
    BY SelectType, AppendProperties
  <2>2. /\ Len(s) \in Nat /\ DOMAIN s = 1..Len(s) /\ DOMAIN longer = 1..(Len(s) + 1)
        /\ longer[Len(s) + 1] = x /\ \A i \in 1..Len(s) : longer[i] = s[i]
    BY <2>1, AppendProperties, LenProperties
  <2>3. /\ Len(t) \in Nat /\ DOMAIN t = 1..Len(t) /\ DOMAIN u = 1..(Len(t) + 1)
        /\ u[Len(t) + 1] = x /\ \A i \in 1..Len(t) : u[i] = t[i]
    BY <2>1, AppendProperties, LenProperties
  <2>4. Select(longer, S) = IF x \in S THEN u ELSE t
    BY <2>1, SelectAppend
  <2>5. PICK at : Places(at, s, S, t)
    OBVIOUS
  <2> HIDE DEF longer, t, u
  <2>6. CASE x \notin S
    <3>1. Places(at, longer, S, t)
      BY <2>2, <2>5, <2>6 DEF Places
    <3> QED BY <2>1, <2>4, <2>6, <3>1 DEF longer
  <2>7. CASE x \in S
    <3> DEFINE more == [k \in 1..(Len(t) + 1) |-> IF k = Len(t) + 1 THEN Len(s) + 1 ELSE at[k]]
    <3>1. \A k \in 1..Len(t) : more[k] = at[k] /\ at[k] \in 1..Len(s)
      BY <2>2, <2>3, <2>5 DEF Places
    <3>2. more[Len(t) + 1] = Len(s) + 1
      BY <2>3
    <3>3. more \in [DOMAIN u -> DOMAIN longer]
      BY <2>2, <2>3, <3>1, <3>2
    <3> HIDE DEF more
    <3>4. ASSUME NEW i \in DOMAIN u, NEW j \in DOMAIN u, i < j PROVE more[i] < more[j]
      <4>1. i \in 1..Len(t) /\ (j \in 1..Len(t) \/ j = Len(t) + 1)
        BY <2>3, <3>4
      <4>2. j \in 1..Len(t) => at[i] < at[j]
        BY <2>3, <2>5, <3>4, <4>1 DEF Places
      <4> QED BY <2>2, <3>1, <3>2, <4>1, <4>2
    <3>5. ASSUME NEW k \in DOMAIN u PROVE u[k] = longer[more[k]] /\ u[k] \in S
      <4>1. k \in 1..Len(t) \/ k = Len(t) + 1
        BY <2>3
      <4> QED BY <2>2, <2>3, <2>5, <2>7, <3>1, <3>2, <4>1 DEF Places
    <3>6. ASSUME NEW i \in DOMAIN longer, longer[i] \in S PROVE \E k \in DOMAIN u : more[k] = i
      <4>1. CASE i = Len(s) + 1
        BY <2>3, <3>2, <4>1
      <4>2. CASE i \in DOMAIN s
        <5>1. PICK k \in DOMAIN t : at[k] = i
          BY <2>2, <2>5, <3>6, <4>2 DEF Places
        <5> QED BY <2>3, <3>1, <5>1
      <4> QED BY <2>2, <4>1, <4>2
    <3>7. Places(more, longer, S, u)
      BY <3>3, <3>4, <3>5, <3>6 DEF Places
    <3> QED BY <2>1, <2>4, <2>7, <3>7 DEF longer
  <2> QED BY <2>6, <2>7
<1>3. T = Seq(X)
  <2> HIDE DEF T
  <2>1. T \in SUBSET Seq(X)
    BY DEF T
  <2> QED BY <1>1, <1>2, <2>1, SeqInduction
<1> QED BY <1>3

-----------------------------------------------------------------------------
(* One-to-one functions, and ranks. *)

\* A function that pairs the elements of two sets.
OneToOne(f, S, T) ==
  /\ f \in [S -> T]
  /\ \A x, y \in S : f[x] = f[y] => x = y
  /\ \A z \in T : \E x \in S : f[x] = z

\* Sets whose elements are paired have the same size.
LEMMA SameSize ==
  ASSUME NEW S, NEW T, NEW f, OneToOne(f, S, T), IsFiniteSet(S)
  PROVE  IsFiniteSet(T) /\ Cardinality(T) = Cardinality(S)
<1>1. f \in Surjection(S, T)
  BY DEF OneToOne, Surjection
<1>2. f \in Injection(S, T)
  BY DEF OneToOne, Injection, IsInjective
<1> QED BY <1>1, <1>2, FS_Surjection

\* What comes before each of n things, in a strict linear order.
LinearOrder(below, n) ==
  /\ below \in [1..n -> SUBSET (1..n)]
  /\ \A i \in 1..n : i \notin below[i]
  /\ \A i, j \in 1..n : i # j => i \in below[j] \/ j \in below[i]
  /\ \A i, j \in 1..n : i \in below[j] => below[i] \subseteq below[j]

\* Ranks by the number of smaller elements: a permutation that keeps the order.
LEMMA RankPermutes ==
  ASSUME NEW n \in Nat, NEW below, LinearOrder(below, n),
         NEW rank, rank = [i \in 1..n |-> 1 + Cardinality(below[i])]
  PROVE  /\ OneToOne(rank, 1..n, 1..n)
         /\ \A i, j \in 1..n : i \in below[j] => rank[i] < rank[j]
<1> USE DEF LinearOrder
<1>1. IsFiniteSet(1..n) /\ Cardinality(1..n) = n
  BY FS_Interval
<1>2. \A i \in 1..n : IsFiniteSet(below[i]) /\ Cardinality(below[i]) \in Nat
  BY <1>1, FS_Subset, FS_CardinalityType
<1>3. ASSUME NEW i \in 1..n, NEW j \in 1..n, i \in below[j] PROVE rank[i] < rank[j]
  <2>1. below[i] \in SUBSET below[j] /\ below[i] # below[j]
    BY <1>3
  <2>2. Cardinality(below[i]) <= Cardinality(below[j]) /\ Cardinality(below[i]) # Cardinality(below[j])
    BY <1>2, <2>1, FS_Subset
  <2> QED BY <1>2, <2>2
<1>4. ASSUME NEW i \in 1..n PROVE rank[i] \in 1..n
  <2>1. below[i] \in SUBSET (1..n) /\ below[i] # 1..n
    OBVIOUS
  <2>2. Cardinality(below[i]) <= n /\ Cardinality(below[i]) # n
    BY <1>1, <2>1, FS_Subset
  <2>3. rank[i] = 1 + Cardinality(below[i]) /\ Cardinality(below[i]) \in Nat
    BY <1>2
  <2> QED BY <2>2, <2>3
<1>5. ASSUME NEW i \in 1..n, NEW j \in 1..n, rank[i] = rank[j] PROVE i = j
  BY <1>3, <1>4, <1>5
<1>6. rank \in [1..n -> 1..n]
  BY <1>4
<1>7. rank \in Injection(1..n, 1..n)
  BY <1>5, <1>6 DEF Injection, IsInjective
<1>8. rank \in Surjection(1..n, 1..n)
  BY <1>1, <1>7, FS_Injection
<1>9. OneToOne(rank, 1..n, 1..n)
  BY <1>5, <1>6, <1>8 DEF OneToOne, Surjection
<1> QED BY <1>3, <1>9

-----------------------------------------------------------------------------
(* Sums of histograms: what the counts of a GROUP BY add up to. *)

\* The recursion of a sum over the sets of indices, for a function g.
Sums(g, counts) ==
  \A s \in SUBSET DOMAIN counts :
    g[s] = IF s = {} THEN 0
           ELSE counts[CHOOSE v \in s : TRUE] + g[s \ {CHOOSE v \in s : TRUE}]

\* What the sum over a function of counts is: some function with that recursion,
\* if there is one.
LEMMA TotalDef ==
  ASSUME NEW counts, NEW h, h = [s \in SUBSET DOMAIN counts |-> h[s]], Sums(h, counts)
  PROVE  \E g : Sums(g, counts) /\ FoldFunction(+, 0, counts) = g[DOMAIN counts]
<1> DEFINE F(g) == [s \in SUBSET DOMAIN counts |->
                      IF s = {} THEN 0
                      ELSE counts[CHOOSE v \in s : TRUE] + g[s \ {CHOOSE v \in s : TRUE}]]
           iter == CHOOSE g : g = F(g)
<1>1. FoldFunction(+, 0, counts) = iter[DOMAIN counts]
  BY DEF FoldFunction, FoldFunctionOnSet, MapThenFoldSet
<1>2. h = F(h)
  BY DEF Sums
<1>3. iter = F(iter)
  <2> HIDE DEF F
  <2> QED BY <1>2
<1>4. Sums(iter, counts)
  <2>1. \A g : g = F(g) => Sums(g, counts)
    BY DEF Sums
  <2> HIDE DEF F, iter
  <2> QED BY <1>3, <2>1
<1> HIDE DEF iter, F
<1> QED BY <1>1, <1>4

\* The rows whose column has one of the values s.
RowsWith(I, col, s) == {i \in I : col[i] \in s}

\* The rows whose column is in a set, and one value more.
LEMMA CountOneMore ==
  ASSUME NEW I, IsFiniteSet(I), NEW col, NEW s, NEW v \in s
  PROVE  Cardinality(RowsWith(I, col, s))
           = Cardinality(RowsWith(I, col, {v})) + Cardinality(RowsWith(I, col, s \ {v}))
<1> DEFINE A == RowsWith(I, col, {v})
           B == RowsWith(I, col, s \ {v})
<1>1. RowsWith(I, col, s) = A \cup B /\ A \cap B = {} /\ A \subseteq I /\ B \subseteq I
  BY DEF RowsWith
<1> HIDE DEF A, B
<1>2. IsFiniteSet(A) /\ IsFiniteSet(B)
  BY <1>1, FS_Subset
<1>3. Cardinality(A \cap B) = 0
  BY <1>1, FS_EmptySet
<1>4. Cardinality(A) \in Nat /\ Cardinality(B) \in Nat
  BY <1>2, FS_CardinalityType
<1>5. Cardinality(A \cup B) = Cardinality(A) + Cardinality(B) - Cardinality(A \cap B)
  BY <1>2, FS_Union
<1>6. Cardinality(A \cup B) = Cardinality(A) + Cardinality(B)
  BY <1>3, <1>4, <1>5
<1> QED BY <1>1, <1>6 DEF A, B

\* The sum of a histogram is the number of the rows it counts: those whose column
\* has one of its values.
LEMMA HistogramTotal ==
  ASSUME NEW I, IsFiniteSet(I), NEW col, NEW counts, IsFiniteSet(DOMAIN counts),
         \A v \in DOMAIN counts : counts[v] = Cardinality(RowsWith(I, col, {v}))
  PROVE  FoldFunction(+, 0, counts) = Cardinality(RowsWith(I, col, DOMAIN counts))
<1> DEFINE D == DOMAIN counts
           Rows(s) == RowsWith(I, col, s)
           h == [s \in SUBSET D |-> Cardinality(Rows(s))]
<1>0. ASSUME NEW s \in SUBSET D, s # {}
      PROVE  \E v \in s : /\ v = CHOOSE w \in s : TRUE
                         /\ s \ {v} \in SUBSET D /\ s \ {v} # s
                         /\ Cardinality(Rows(s)) = counts[v] + Cardinality(Rows(s \ {v}))
  <2>1. PICK v \in s : v = CHOOSE w \in s : TRUE
    BY <1>0
  <2>2. s \ {v} \in SUBSET D /\ s \ {v} # s
    OBVIOUS
  <2>3. Cardinality(Rows(s)) = counts[v] + Cardinality(Rows(s \ {v}))
    <3>1. Cardinality(RowsWith(I, col, s))
            = Cardinality(RowsWith(I, col, {v})) + Cardinality(RowsWith(I, col, s \ {v}))
      BY CountOneMore
    <3>2. counts[v] = Cardinality(RowsWith(I, col, {v}))
      OBVIOUS
    <3> QED BY <3>1, <3>2
  <2> HIDE DEF Rows
  <2> QED BY <2>1, <2>2, <2>3
<1>1. Cardinality(Rows({})) = 0
  <2>1. Rows({}) = {}
    BY DEF RowsWith
  <2> QED BY <2>1, FS_EmptySet
<1> HIDE DEF Rows
<1>2. Sums(h, counts)
  <2>1. ASSUME NEW s \in SUBSET D
        PROVE  h[s] = IF s = {} THEN 0
                      ELSE counts[CHOOSE v \in s : TRUE] + h[s \ {CHOOSE v \in s : TRUE}]
    <3>1. CASE s = {}
      BY <1>1, <3>1
    <3>2. CASE s # {}
      <4>1. PICK v \in s : /\ v = CHOOSE w \in s : TRUE
                         /\ s \ {v} \in SUBSET D
                         /\ Cardinality(Rows(s)) = counts[v] + Cardinality(Rows(s \ {v}))
        BY <1>0, <3>2
      <4>2. h[s] = counts[v] + h[s \ {v}]
        BY <4>1
      <4> QED BY <3>2, <4>1, <4>2
    <3> QED BY <3>1, <3>2
  <2> QED BY <2>1 DEF Sums
<1>3. PICK g : Sums(g, counts) /\ FoldFunction(+, 0, counts) = g[D]
  BY <1>2, TotalDef
<1>4. \A s \in SUBSET D : g[s] = Cardinality(Rows(s))
  <2> DEFINE Wrong == {s \in SUBSET D : g[s] # Cardinality(Rows(s))}
  <2>1. Wrong \subseteq FiniteSubsetsOf(D)
    BY FS_Subset DEF FiniteSubsetsOf
  <2>2. SUFFICES ASSUME Wrong # {} PROVE FALSE
    OBVIOUS
  <2>3. PICK s \in Wrong : \A r \in Wrong : <<r, s>> \notin StrictSubsetOrdering(D)
    BY <2>1, <2>2, FS_StrictSubsetOrderingWellFounded, WFMin
  <2>4. s # {}
    BY <1>1, <1>3, <2>3 DEF Sums
  <2>5. PICK v \in s : /\ v = CHOOSE w \in s : TRUE
                     /\ s \ {v} \in SUBSET D /\ s \ {v} # s
                     /\ Cardinality(Rows(s)) = counts[v] + Cardinality(Rows(s \ {v}))
    BY <1>0, <2>3, <2>4
  <2>6. <<s \ {v}, s>> \in StrictSubsetOrdering(D)
    BY <2>5 DEF StrictSubsetOrdering
  <2>7. g[s \ {v}] = Cardinality(Rows(s \ {v}))
    BY <2>3, <2>5, <2>6
  <2>8. g[s] = counts[v] + g[s \ {v}]
    BY <1>3, <2>3, <2>4, <2>5 DEF Sums
  <2> QED BY <2>3, <2>5, <2>7, <2>8
<1> QED BY <1>3, <1>4 DEF Rows
=============================================================================
