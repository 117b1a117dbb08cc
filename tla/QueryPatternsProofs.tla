------------------------- MODULE QueryPatternsProofs -------------------------
(* Theorems about QueryPatterns, for every value of its constants: any number  *)
(* of overlapping runs, failures of the database and deaths of the process,    *)
(* and whatever was asked for.                                                 *)
EXTENDS QueryPatterns, SelectionProofs

-----------------------------------------------------------------------------
(* The inductive invariant *)

\* The rows a run stores, or would, and those of its rows that the table has.
OwnRows(r) == {Row(r, p) : p \in patterns[r]}
Mine(r) == {row \in RangeOf(stored) : row.by = r}

\* The log is a sequence, and its times are numbers.
QueriesOK ==
  /\ queries \in Seq(RangeOf(queries)) /\ Len(queries) \in Nat
  /\ \A i \in DOMAIN queries : queries[i].time \in Int

\* A run learns once, and one pattern for a name.
LearntOK ==
  DOMAIN patterns = Run /\ \A r \in Run :
    /\ pc[r] = "idle" => patterns[r] = {}
    /\ \A p, q \in patterns[r] : p.domain = q.domain => p = q

\* An open transaction has rows of its run, which is inserting them.
BatchOK ==
  /\ DOMAIN batch = Run /\ batch = [r \in Run |-> batch[r]]
  /\ \A r \in Run : batch[r] \in Seq(OwnRows(r)) /\ (batch[r] # <<>> => pc[r] = "insert")

\* The table has all rows of a run or none, and none before it has committed.
StoredOK ==
  /\ stored \in Seq(RangeOf(stored))
  /\ \A r \in Run : /\ Mine(r) \in {{}, OwnRows(r)}
                    /\ pc[r] \in {"idle", "begin", "delete", "insert"} => Mine(r) = {}

TableInv == TypeOK /\ QueriesOK /\ LearntOK /\ BatchOK /\ StoredOK

\* The table has a row for every name in the result of a run.
Present(r) == \A p \in patterns[r] : \E i \in DOMAIN stored : stored[i].domain = p.domain

\* From its DELETE until it has loaded the table a run answers for the difference
\* between map and table; and as long as nothing dies or fails, what one run stored
\* is replaced only by one that is about to store its own.
MapOK ==
  /\ \A r \in Run : AtWork(r) => follow
  /\ (failures = 0 /\ \A r \in Run : pc[r] \notin {"insert", "load"}) =>
       Prefetch = IF follow THEN AsMap(stored) ELSE Nothing
  /\ (failures = 0 /\ restarts = 0) =>
       \A r \in Run : pc[r] \in {"load", "done"} =>
         /\ follow
         /\ \E q \in Run : pc[q] = "insert" \/ (pc[q] \in {"load", "done"} /\ Present(q))

-----------------------------------------------------------------------------
(* What a run learns *)

\* The patterns found are patterns, and no name has two of them.
WellFormed(ps) ==
  /\ \A p \in ps : Pattern(p)
  /\ \A p, q \in ps : p.domain = q.domain => p = q

\* What a run that learns does, from all of the log or from a part of it.
Learn(r) ==
  /\ pc[r] = "idle" /\ follow
  /\ \E ps : WellFormed(ps) /\ patterns' = [patterns EXCEPT ![r] = ps]
  /\ pc' = [pc EXCEPT ![r] = "begin"]
  /\ failures' \in {failures, failures + 1} /\ failures' \in 0..MaxFailures
  /\ UNCHANGED <<now, database, batch, process, restarts>>


\* A set of numbers that has a bound has a greatest element.
LEMMA GreatestNumber ==
  ASSUME NEW S \in SUBSET Nat, S # {}, NEW b \in Nat, \A x \in S : x <= b
  PROVE  Max(S) \in S /\ \A x \in S : x <= Max(S)
<1> DEFINE U == {n \in Nat : \A x \in S : x <= n}
<1>1. U \in SUBSET Nat /\ U # {}
  BY DEF U
<1>2. PICK u \in U : \A v \in U : u <= v
  BY <1>1, LeastNumber
<1>3. u \in S
  <2> SUFFICES ASSUME u \notin S PROVE FALSE
    OBVIOUS
  <2>1. \A x \in S : x < u /\ x >= 0
    BY <1>2
  <2>2. u \in Nat /\ u - 1 \in Nat
    <3>1. PICK x \in S : x \in Nat
      OBVIOUS
    <3>2. u \in Nat /\ x < u
      BY <1>2, <2>1
    <3> QED BY <3>1, <3>2
  <2>3. u - 1 \in U
    BY <2>1, <2>2
  <2> QED BY <1>2, <2>2, <2>3
<1>4. \A x \in S : u >= x
  BY <1>2
<1>5. Max(S) \in S /\ \A x \in S : Max(S) >= x
  BY <1>3, <1>4 DEF Max
<1>6. Max(S) \in Nat /\ \A x \in S : x \in Nat
  BY <1>5
<1> QED BY <1>5, <1>6

\* Sequences of queries have finitely many pairs.
LEMMA PairsAreFinite ==
  ASSUME NEW X, NEW qs \in Seq(X)
  PROVE  IsFiniteSet(UNION {{[lead |-> qs[i].domain, at |-> i, query |-> qs[j], pos |-> j] :
                               j \in Observed(qs, i)} : i \in DOMAIN qs})
<1> DEFINE Of(i) == {[lead |-> qs[i].domain, at |-> i, query |-> qs[j], pos |-> j] :
                       j \in Observed(qs, i)}
<1>1. Len(qs) \in Nat /\ DOMAIN qs = 1..Len(qs)
  BY LenProperties
<1>2. IsFiniteSet(DOMAIN qs)
  BY <1>1, FS_Interval
<1>3. ASSUME NEW i \in DOMAIN qs PROVE IsFiniteSet(Of(i))
  <2> DEFINE f == [j \in Observed(qs, i) |->
                     [lead |-> qs[i].domain, at |-> i, query |-> qs[j], pos |-> j]]
  <2>1. Observed(qs, i) \subseteq DOMAIN qs
    BY <1>1 DEF Observed
  <2>2. IsFiniteSet(Observed(qs, i))
    BY <1>2, <2>1, FS_Subset
  <2>3. Of(i) = {f[j] : j \in Observed(qs, i)}
    OBVIOUS
  <2>4. IsFiniteSet({f[j] : j \in Observed(qs, i)})
    BY <2>2, FiniteImage
  <2> QED BY <2>3, <2>4
<1> DEFINE g == [i \in DOMAIN qs |-> Of(i)]
<1>4. IsFiniteSet({g[i] : i \in DOMAIN qs})
  BY <1>2, FiniteImage
<1>5. {g[i] : i \in DOMAIN qs} = {Of(i) : i \in DOMAIN qs}
  OBVIOUS
<1>6. \A T \in {Of(i) : i \in DOMAIN qs} : IsFiniteSet(T)
  BY <1>3
<1> HIDE DEF Of, g
<1>7. IsFiniteSet(UNION {Of(i) : i \in DOMAIN qs})
  BY <1>4, <1>5, <1>6, FS_UNION
<1> QED BY <1>7 DEF Of

\* The greatest count of a bin is a number: counts are those of subsets of the pairs.
LEMMA CountsAreNumbers ==
  ASSUME NEW X, NEW qs \in Seq(X), NEW lead \in DOMAIN binQueries(qs)
  PROVE  MaxCount(binQueries(qs)[lead]) \in Nat
<1> DEFINE pairs == UNION {{[lead |-> qs[i].domain, at |-> i, query |-> qs[j], pos |-> j] :
                              j \in Observed(qs, i)} : i \in DOMAIN qs}
           After == {p \in pairs : p.lead = lead}
           Of(d) == {p \in After : p.query.domain = d}
           bin == binQueries(qs)[lead]
<1>1. IsFiniteSet(pairs)
  BY PairsAreFinite
<1>2. bin = [d \in {p.query.domain : p \in After} |->
               [count |-> Cardinality(Of(d)), types |-> {p.query.type : p \in Of(d)}]]
  BY DEF binQueries
<1> HIDE DEF bin, pairs
<1>3. ASSUME NEW d PROVE Cardinality(Of(d)) \in Nat /\ Cardinality(Of(d)) <= Cardinality(pairs)
  <2>1. Of(d) \in SUBSET pairs
    OBVIOUS
  <2> QED BY <1>1, <2>1, FS_Subset, FS_CardinalityType
<1>4. Cardinality(pairs) \in Nat
  BY <1>1, FS_CardinalityType
<1> DEFINE counts == {0} \cup {bin[d].count : d \in DOMAIN bin}
<1>5. \A d \in DOMAIN bin : bin[d].count = Cardinality(Of(d))
  BY <1>2
<1> HIDE DEF After, Of
<1>6. \A n \in counts : n \in Nat /\ n <= Cardinality(pairs)
  BY <1>3, <1>4, <1>5
<1> HIDE DEF counts
<1>7. counts # {}
  BY DEF counts
<1>8. Max(counts) \in counts
  BY <1>4, <1>6, <1>7, GreatestNumber
<1>9. Max(counts) \in Nat
  BY <1>6, <1>8
<1> QED BY <1>9 DEF MaxCount, counts, bin

\* What is learnt from any sequence of queries is well formed.
LEMMA LearntIsWellFormed ==
  ASSUME NEW X, NEW qs \in Seq(X)
  PROVE  WellFormed(findQueryPatterns(binQueries(qs)))
<1> DEFINE bins == binQueries(qs)
<1>1. \A lead \in DOMAIN bins : MaxCount(bins[lead]) \in Nat
  BY CountsAreNumbers
<1> HIDE DEF bins
<1>2. ASSUME NEW p \in findQueryPatterns(bins)
      PROVE  Pattern(p) /\ p = PatternOf(p.domain, bins[p.domain], MaxCount(bins[p.domain]))
  <2>1. PICK lead \in DOMAIN bins :
          /\ p = PatternOf(lead, bins[lead], MaxCount(bins[lead]))
          /\ MaxCount(bins[lead]) >= MinOccurrences
    BY <1>2 DEF findQueryPatterns
  <2>2. p.domain = lead /\ p.occurrences = MaxCount(bins[lead])
    BY <2>1 DEF PatternOf
  <2>3. DOMAIN p = {"domain", "occurrences", "prefetch"}
    BY <2>1 DEF PatternOf
  <2> QED BY <1>1, <2>1, <2>2, <2>3 DEF Pattern
<1> QED BY <1>2 DEF WellFormed, bins

\* Sorting leaves a sequence a sequence.
LEMMA SortedIsSequence ==
  ASSUME NEW X, NEW qs \in Seq(X)
  PROVE  ByTime(qs) \in Seq(RangeOf(ByTime(qs))) /\ Len(ByTime(qs)) \in Nat
<1>1. Len(qs) \in Nat /\ DOMAIN qs = 1..Len(qs)
  BY LenProperties
<1> DEFINE e == ByTime(qs)
<1>2. DOMAIN e = 1..Len(qs) /\ e = [k \in 1..Len(qs) |-> e[k]]
  BY <1>1 DEF ByTime
<1> HIDE DEF e
<1>3. e \in [1..Len(qs) -> RangeOf(e)]
  BY <1>2 DEF RangeOf
<1>4. e \in Seq(RangeOf(e))
  BY <1>1, <1>3, SeqDef
<1> QED BY <1>4, LenProperties DEF e

\* A run learns something well formed.
LEMMA LearnSteps ==
  ASSUME TypeOK, QueriesOK, NEW r \in Run
  PROVE  Fetch(r) \/ FetchSome(r) => Learn(r)
<1> DEFINE qs == Select(queries, {q \in RangeOf(queries) : Recent(q)})
<1>1. qs \in Seq(RangeOf(queries))
  BY SelectType DEF QueriesOK
<1> HIDE DEF qs
<1>2. fetchQueries \in Seq(RangeOf(fetchQueries)) /\ Len(fetchQueries) \in Nat
  BY <1>1, SortedIsSequence DEF fetchQueries, qs
<1>3. failures \in 0..MaxFailures /\ MaxFailures \in Nat
  BY PatternsAssumption DEF TypeOK
<1>4. ASSUME NEW s \in Seq(RangeOf(fetchQueries)), Learns(r, s),
             failures' \in {failures, failures + 1}, failures' \in 0..MaxFailures
      PROVE  Learn(r)
  <2>1. WellFormed(findQueryPatterns(binQueries(s)))
    BY LearntIsWellFormed
  <2> QED BY <1>4, <2>1 DEF Learns, Learn, Goto
<1>5. CASE Fetch(r)
  BY <1>2, <1>3, <1>4, <1>5 DEF Fetch
<1>6. CASE FetchSome(r)
  <2>1. PICK n \in 0..Len(fetchQueries) - 1 : Learns(r, SubSeq(fetchQueries, 1, n))
    BY <1>6 DEF FetchSome
  <2>2. SubSeq(fetchQueries, 1, n) \in Seq(RangeOf(fetchQueries))
    <3>1. \A i \in 1..n : fetchQueries[i] \in RangeOf(fetchQueries)
      BY <1>2, <2>1, ElementOfSeq
    <3> QED BY <1>2, <2>1, <3>1, SubSeqProperties
  <2>3. failures' = failures + 1 /\ failures' \in 0..MaxFailures
    <3>1. failures < MaxFailures /\ failures' = failures + 1
      BY <1>6 DEF FetchSome
    <3> QED BY <1>3, <3>1
  <2> QED BY <1>4, <2>1, <2>2, <2>3
<1> QED BY <1>5, <1>6

-----------------------------------------------------------------------------
(* Types, and what is written where *)

\* A sequence has its own elements.
LEMMA OwnRange ==
  ASSUME NEW X, NEW s \in Seq(X)
  PROVE  /\ s \in Seq(RangeOf(s)) /\ Len(s) \in Nat /\ DOMAIN s = 1..Len(s)
         /\ RangeOf(s) \subseteq X
<1>1. Len(s) \in Nat /\ DOMAIN s = 1..Len(s) /\ s \in [1..Len(s) -> X]
  BY LenProperties
<1>2. s \in [1..Len(s) -> RangeOf(s)]
  BY <1>1 DEF RangeOf
<1>3. s \in Seq(RangeOf(s))
  BY <1>1, <1>2, SeqDef
<1>4. RangeOf(s) \subseteq X
  BY <1>1 DEF RangeOf
<1> QED BY <1>1, <1>3, <1>4

\* A row tells its run and the name of its pattern.
LEMMA RowFacts ==
  ASSUME NEW r \in Run
  PROVE  \A row \in OwnRows(r) :
           /\ row.by = r
           /\ \E p \in patterns[r] : row = Row(r, p) /\ row.domain = p.domain
BY DEF OwnRows, Row

\* The elements of a concatenation.
LEMMA OwnConcat ==
  ASSUME NEW X, NEW Y, NEW s \in Seq(X), NEW t \in Seq(Y)
  PROVE  /\ s \o t \in Seq(RangeOf(s \o t)) /\ Len(s \o t) \in Nat
         /\ RangeOf(s \o t) = RangeOf(s) \cup RangeOf(t)
<1>1. s \in Seq(X \cup Y) /\ t \in Seq(X \cup Y)
  BY SeqMonotonic
<1>2. s \o t \in Seq(X \cup Y)
  BY <1>1, ConcatProperties
<1> DEFINE st == s \o t
<1> HIDE DEF st
<1>3. st \in Seq(RangeOf(st)) /\ Len(st) \in Nat
  BY <1>2, OwnRange DEF st
<1> QED BY <1>1, <1>3, RangeConcat DEF st

\* A transaction that has nothing left to insert has all rows of its run.
LEMMA FullBatch ==
  ASSUME LearntOK, BatchOK, NEW r \in Run, Uninserted(r) = {}
  PROVE  RangeOf(batch[r]) = OwnRows(r)
<1>1. batch[r] \in Seq(OwnRows(r))
  BY DEF BatchOK
<1>2. RangeOf(batch[r]) \subseteq OwnRows(r)
  BY <1>1, OwnRange
<1>3. ASSUME NEW p \in patterns[r] PROVE Row(r, p) \in RangeOf(batch[r])
  <2>1. PICK i \in DOMAIN batch[r] : batch[r][i].domain = p.domain
    BY DEF Uninserted
  <2>2. batch[r][i] \in RangeOf(batch[r])
    BY DEF RangeOf
  <2>3. PICK q \in patterns[r] : batch[r][i] = Row(r, q) /\ batch[r][i].domain = q.domain
    BY <1>2, <2>2, RowFacts
  <2>4. q = p
    BY <2>1, <2>3 DEF LearntOK
  <2> QED BY <2>2, <2>3, <2>4
<1> QED BY <1>2, <1>3 DEF OwnRows

\* The log stays a sequence.
LEMMA QueriesStep == TableInv /\ [Next]_vars => QueriesOK'
<1> SUFFICES ASSUME TableInv, [Next]_vars PROVE QueriesOK'
  OBVIOUS
<1> USE PatternsAssumption DEF TableInv, database, runs, process, vars
<1>1. ASSUME NEW r \in Run, Learn(r) PROVE QueriesOK'
  BY <1>1 DEF Learn, QueriesOK
<1>2. ASSUME NEW r \in Run, BeginTx(r) PROVE QueriesOK'
  BY <1>2 DEF BeginTx, Goto, QueriesOK
<1>3. ASSUME NEW r \in Run, Delete(r) PROVE QueriesOK'
  BY <1>3 DEF Delete, Goto, QueriesOK
<1>4. ASSUME NEW r \in Run, Insert(r) PROVE QueriesOK'
  BY <1>4 DEF Insert, QueriesOK
<1>5. ASSUME NEW r \in Run, Commit(r) PROVE QueriesOK'
  BY <1>5 DEF Commit, Goto, QueriesOK
<1>6. ASSUME NEW r \in Run, Load(r) PROVE QueriesOK'
  BY <1>6 DEF Load, Goto, QueriesOK
<1>7. ASSUME NEW r \in Run, Fail(r) PROVE QueriesOK'
  BY <1>7 DEF Fail, Goto, Rollback, AtWork, QueriesOK
<1>8. ASSUME NEW session \in Sessions, Flush(session) PROVE QueriesOK'
  <2> DEFINE new == [i \in DOMAIN session |->
               [host |-> session[i].host, domain |-> session[i].domain,
                type |-> session[i].type, time |-> now + session[i].after,
                answered |-> session[i].answered]]
  <2>1. Len(session) \in Nat /\ DOMAIN session = 1..Len(session)
    OBVIOUS
  <2>2. new \in [1..Len(session) -> RangeOf(new)]
    BY <2>1 DEF RangeOf
  <2>3. new \in Seq(RangeOf(new))
    BY <2>1, <2>2, SeqDef
  <2>4. queries' = queries \o new
    BY <1>8 DEF Flush
  <2>5. \A q \in RangeOf(new) : q.time \in Int
    BY DEF RangeOf, TypeOK
  <2>6. \A q \in RangeOf(queries) : q.time \in Int
    BY DEF QueriesOK, RangeOf
  <2> HIDE DEF new
  <2>7. /\ queries' \in Seq(RangeOf(queries')) /\ Len(queries') \in Nat
        /\ RangeOf(queries') = RangeOf(queries) \cup RangeOf(new)
    BY <2>3, <2>4, OwnConcat DEF QueriesOK
  <2>8. \A q \in RangeOf(queries') : q.time \in Int
    BY <2>5, <2>6, <2>7
  <2> QED BY <2>7, <2>8 DEF QueriesOK, RangeOf
<1>9. ASSUME Restart PROVE QueriesOK'
  BY <1>9 DEF Restart, AtWork, QueriesOK
<1>10. ASSUME UNCHANGED vars PROVE QueriesOK'
  BY <1>10 DEF QueriesOK
<1> QED
  BY LearnSteps, <1>1, <1>2, <1>3, <1>4, <1>5, <1>6, <1>7, <1>8, <1>9, <1>10
         DEF Next

\* What a run has learnt stays.
LEMMA LearntStep == TableInv /\ [Next]_vars => LearntOK'
<1> SUFFICES ASSUME TableInv, [Next]_vars PROVE LearntOK'
  OBVIOUS
<1> USE PatternsAssumption DEF TableInv, database, runs, process, vars
<1>1. ASSUME NEW r \in Run, Learn(r) PROVE LearntOK'
  BY <1>1 DEF Learn, LearntOK, WellFormed, TypeOK
<1>2. ASSUME NEW r \in Run, BeginTx(r) PROVE LearntOK'
  BY <1>2 DEF BeginTx, Goto, LearntOK, WellFormed, TypeOK
<1>3. ASSUME NEW r \in Run, Delete(r) PROVE LearntOK'
  BY <1>3 DEF Delete, Goto, LearntOK, WellFormed, TypeOK
<1>4. ASSUME NEW r \in Run, Insert(r) PROVE LearntOK'
  BY <1>4 DEF Insert, LearntOK, WellFormed, TypeOK
<1>5. ASSUME NEW r \in Run, Commit(r) PROVE LearntOK'
  BY <1>5 DEF Commit, Goto, LearntOK, WellFormed, TypeOK
<1>6. ASSUME NEW r \in Run, Load(r) PROVE LearntOK'
  BY <1>6 DEF Load, Goto, LearntOK, WellFormed, TypeOK
<1>7. ASSUME NEW r \in Run, Fail(r) PROVE LearntOK'
  BY <1>7 DEF Fail, Goto, Rollback, AtWork, LearntOK, WellFormed, TypeOK
<1>8. ASSUME NEW session \in Sessions, Flush(session) PROVE LearntOK'
  BY <1>8 DEF Flush, LearntOK, WellFormed, TypeOK
<1>9. ASSUME Restart PROVE LearntOK'
  BY <1>9 DEF Restart, AtWork, LearntOK, WellFormed, TypeOK
<1>10. ASSUME UNCHANGED vars PROVE LearntOK'
  BY <1>10 DEF LearntOK, WellFormed, TypeOK
<1> QED
  BY LearnSteps, <1>1, <1>2, <1>3, <1>4, <1>5, <1>6, <1>7, <1>8, <1>9, <1>10
         DEF Next

\* A transaction has the rows of its run.
LEMMA BatchStep == TableInv /\ [Next]_vars => BatchOK'
<1> SUFFICES ASSUME TableInv, [Next]_vars PROVE BatchOK'
  OBVIOUS
<1> USE PatternsAssumption DEF TableInv, database, runs, process, vars
<1>1. ASSUME NEW r \in Run, Learn(r) PROVE BatchOK'
  <2>1. batch' = batch /\ batch[r] = <<>> /\ DOMAIN patterns = Run
    BY <1>1 DEF Learn, BatchOK, LearntOK
  <2>2. ASSUME NEW q \in Run PROVE batch'[q] \in Seq(OwnRows(q)')
    <3>1. CASE q = r
      BY <2>1, <3>1, EmptySeq
    <3>2. CASE q # r
      <4>1. patterns'[q] = patterns[q]
        BY <1>1, <2>1, <3>2 DEF Learn
      <4> QED BY <2>1, <4>1 DEF BatchOK, OwnRows
    <3> QED BY <3>1, <3>2
  <2> QED BY <1>1, <2>1, <2>2 DEF Learn, BatchOK, TypeOK
<1>2. ASSUME NEW r \in Run, BeginTx(r) PROVE BatchOK'
  BY <1>2 DEF BeginTx, Goto, BatchOK, TypeOK, OwnRows
<1>3. ASSUME NEW r \in Run, Delete(r) PROVE BatchOK'
  BY <1>3 DEF Delete, Goto, BatchOK, TypeOK, OwnRows
<1>4. ASSUME NEW r \in Run, Insert(r) PROVE BatchOK'
  <2>1. PICK p \in Uninserted(r) : batch' = [batch EXCEPT ![r] = Append(@, Row(r, p))]
    BY <1>4 DEF Insert
  <2>2. Row(r, p) \in OwnRows(r) /\ pc[r] = "insert" /\ pc' = pc /\ patterns' = patterns
    BY <1>4, <2>1 DEF Insert, Uninserted, OwnRows
  <2>3. batch[r] \in Seq(OwnRows(r)) /\ DOMAIN batch = Run
    BY DEF BatchOK
  <2>4. Append(batch[r], Row(r, p)) \in Seq(OwnRows(r))
    BY <2>2, <2>3, AppendProperties
  <2>5. \A q \in Run : OwnRows(q)' = OwnRows(q)
    BY <2>2 DEF OwnRows
  <2>6. batch'[r] = Append(batch[r], Row(r, p)) /\ \A q \in Run \ {r} : batch'[q] = batch[q]
    BY <2>1, <2>3
  <2>7. ASSUME NEW q \in Run
        PROVE  batch'[q] \in Seq(OwnRows(q)') /\ (batch'[q] # <<>> => pc'[q] = "insert")
    <3>1. CASE q = r
      BY <2>2, <2>4, <2>5, <2>6, <3>1
    <3>2. CASE q # r
      BY <2>2, <2>5, <2>6, <3>2 DEF BatchOK
    <3> QED BY <3>1, <3>2
  <2>8. DOMAIN batch' = Run /\ batch' = [q \in Run |-> batch'[q]]
    BY <2>1, <2>3
  <2> QED BY <2>7, <2>8 DEF BatchOK
<1>5. ASSUME NEW r \in Run, Commit(r) PROVE BatchOK'
  <2>1. batch' = [batch EXCEPT ![r] = <<>>] /\ patterns' = patterns
    BY <1>5 DEF Commit, Fail, Rollback
  <2>2. \A q \in Run : OwnRows(q)' = OwnRows(q)
    BY <2>1 DEF OwnRows
  <2>3. DOMAIN batch = Run /\ batch'[r] = <<>> /\ \A q \in Run \ {r} : batch'[q] = batch[q]
    BY <2>1 DEF BatchOK
  <2>4. batch'[r] \in Seq(OwnRows(r))
    BY <2>3, EmptySeq
  <2>5. \A q \in Run \ {r} : pc'[q] = pc[q]
    BY <1>5 DEF Commit, Fail, Goto, TypeOK
  <2> QED BY <2>1, <2>2, <2>3, <2>4, <2>5 DEF BatchOK
<1>6. ASSUME NEW r \in Run, Load(r) PROVE BatchOK'
  BY <1>6 DEF Load, Goto, BatchOK, TypeOK, OwnRows
<1>7. ASSUME NEW r \in Run, Fail(r) PROVE BatchOK'
  <2>1. batch' = [batch EXCEPT ![r] = <<>>] /\ patterns' = patterns
    BY <1>7 DEF Commit, Fail, Rollback
  <2>2. \A q \in Run : OwnRows(q)' = OwnRows(q)
    BY <2>1 DEF OwnRows
  <2>3. DOMAIN batch = Run /\ batch'[r] = <<>> /\ \A q \in Run \ {r} : batch'[q] = batch[q]
    BY <2>1 DEF BatchOK
  <2>4. batch'[r] \in Seq(OwnRows(r))
    BY <2>3, EmptySeq
  <2>5. \A q \in Run \ {r} : pc'[q] = pc[q]
    BY <1>7 DEF Commit, Fail, Goto, TypeOK
  <2> QED BY <2>1, <2>2, <2>3, <2>4, <2>5 DEF BatchOK
<1>8. ASSUME NEW session \in Sessions, Flush(session) PROVE BatchOK'
  BY <1>8 DEF Flush, BatchOK, TypeOK, OwnRows
<1>9. ASSUME Restart PROVE BatchOK'
  BY <1>9 DEF Restart, AtWork, BatchOK, TypeOK, OwnRows
<1>10. ASSUME UNCHANGED vars PROVE BatchOK'
  BY <1>10 DEF BatchOK, TypeOK, OwnRows
<1> QED
  BY LearnSteps, <1>1, <1>2, <1>3, <1>4, <1>5, <1>6, <1>7, <1>8, <1>9, <1>10
         DEF Next

\* The rows of the table are those of runs that have committed, all of them.
LEMMA StoredStep == TableInv /\ [Next]_vars => StoredOK'
<1> SUFFICES ASSUME TableInv, [Next]_vars PROVE StoredOK'
  OBVIOUS
<1> USE PatternsAssumption DEF TableInv, database, runs, process, vars
<1>1. ASSUME NEW r \in Run, Learn(r) PROVE StoredOK'
  <2>1. stored' = stored /\ DOMAIN patterns = Run /\ Mine(r) = {}
    BY <1>1 DEF Learn, LearntOK, StoredOK
  <2>2. ASSUME NEW q \in Run PROVE Mine(q)' = Mine(q) /\ (q # r => OwnRows(q)' = OwnRows(q))
    BY <1>1, <2>1 DEF Learn, Mine, OwnRows
  <2> QED BY <1>1, <2>1, <2>2 DEF Learn, StoredOK, TypeOK
<1>2. ASSUME NEW r \in Run, BeginTx(r) PROVE StoredOK'
  BY <1>2 DEF BeginTx, Goto, StoredOK, TypeOK, Mine, OwnRows
<1>3. ASSUME NEW r \in Run, Delete(r) PROVE StoredOK'
  <2>1. stored' = <<>> /\ RangeOf(stored') = {}
    BY <1>3, RangeEmpty DEF Delete
  <2>2. \A q \in Run : Mine(q)' = {}
    BY <2>1 DEF Mine
  <2> QED BY <2>1, <2>2, EmptySeq DEF StoredOK
<1>4. ASSUME NEW r \in Run, Insert(r) PROVE StoredOK'
  BY <1>4 DEF Insert, StoredOK, TypeOK, Mine, OwnRows
<1>5. ASSUME NEW r \in Run, Commit(r) PROVE StoredOK'
  <2>1. stored' = stored \o batch[r] /\ patterns' = patterns
    BY <1>5 DEF Commit
  <2>2. RangeOf(batch[r]) = OwnRows(r)
    BY <1>5, FullBatch DEF Commit
  <2>3. batch[r] \in Seq(OwnRows(r)) /\ stored \in Seq(RangeOf(stored))
    BY DEF BatchOK, StoredOK
  <2>4. stored' \in Seq(RangeOf(stored')) /\ RangeOf(stored') = RangeOf(stored) \cup OwnRows(r)
    BY <2>1, <2>2, <2>3, OwnConcat
  <2>5. \A row \in OwnRows(r) : row.by = r
    BY RowFacts
  <2>6. \A q \in Run : Mine(q)' = IF q = r THEN Mine(q) \cup OwnRows(q) ELSE Mine(q)
    BY <2>4, <2>5 DEF Mine
  <2>7. \A q \in Run : OwnRows(q)' = OwnRows(q)
    BY <2>1 DEF OwnRows
  <2>8. Mine(r) = {}
    BY <1>5 DEF Commit, StoredOK
  <2>9. pc' = [pc EXCEPT ![r] = "load"]
    BY <1>5 DEF Commit, Goto
  <2> QED BY <2>4, <2>6, <2>7, <2>8, <2>9 DEF StoredOK, TypeOK
<1>6. ASSUME NEW r \in Run, Load(r) PROVE StoredOK'
  BY <1>6 DEF Load, Goto, StoredOK, TypeOK, Mine, OwnRows
<1>7. ASSUME NEW r \in Run, Fail(r) PROVE StoredOK'
  BY <1>7 DEF Fail, Goto, Rollback, AtWork, StoredOK, TypeOK, Mine, OwnRows
<1>8. ASSUME NEW session \in Sessions, Flush(session) PROVE StoredOK'
  BY <1>8 DEF Flush, StoredOK, TypeOK, Mine, OwnRows
<1>9. ASSUME Restart PROVE StoredOK'
  BY <1>9 DEF Restart, AtWork, StoredOK, TypeOK, Mine, OwnRows
<1>10. ASSUME UNCHANGED vars PROVE StoredOK'
  BY <1>10 DEF StoredOK, TypeOK, Mine, OwnRows
<1> QED
  BY LearnSteps, <1>1, <1>2, <1>3, <1>4, <1>5, <1>6, <1>7, <1>8, <1>9, <1>10
         DEF Next

\* The lock is returned.
LEMMA LockStep == TableInv /\ [Next]_vars => LockIsReturned'
<1> SUFFICES ASSUME TableInv, [Next]_vars PROVE LockIsReturned'
  OBVIOUS
<1> USE PatternsAssumption DEF TableInv, database, runs, process, vars
<1>1. ASSUME NEW r \in Run, Learn(r) PROVE LockIsReturned'
  BY <1>1 DEF Learn, LockIsReturned, TypeOK, BatchOK
<1>2. ASSUME NEW r \in Run, BeginTx(r) PROVE LockIsReturned'
  BY <1>2 DEF BeginTx, Goto, LockIsReturned, TypeOK, BatchOK
<1>3. ASSUME NEW r \in Run, Delete(r) PROVE LockIsReturned'
  BY <1>3 DEF Delete, Goto, LockIsReturned, TypeOK, BatchOK
<1>4. ASSUME NEW r \in Run, Insert(r) PROVE LockIsReturned'
  BY <1>4 DEF Insert, LockIsReturned, TypeOK, BatchOK
<1>5. ASSUME NEW r \in Run, Commit(r) PROVE LockIsReturned'
  BY <1>5 DEF Commit, Goto, LockIsReturned, TypeOK, BatchOK
<1>6. ASSUME NEW r \in Run, Load(r) PROVE LockIsReturned'
  BY <1>6 DEF Load, Goto, LockIsReturned, TypeOK, BatchOK
<1>7. ASSUME NEW r \in Run, Fail(r) PROVE LockIsReturned'
  BY <1>7 DEF Fail, Goto, Rollback, AtWork, LockIsReturned, TypeOK, BatchOK
<1>8. ASSUME NEW session \in Sessions, Flush(session) PROVE LockIsReturned'
  BY <1>8 DEF Flush, LockIsReturned, TypeOK, BatchOK
<1>9. ASSUME Restart PROVE LockIsReturned'
  BY <1>9 DEF Restart, AtWork, LockIsReturned, TypeOK, BatchOK
<1>10. ASSUME UNCHANGED vars PROVE LockIsReturned'
  BY <1>10 DEF LockIsReturned, TypeOK, BatchOK
<1> QED
  BY LearnSteps, <1>1, <1>2, <1>3, <1>4, <1>5, <1>6, <1>7, <1>8, <1>9, <1>10
         DEF Next

\* Types.
LEMMA TypeStep == TableInv /\ [Next]_vars => TypeOK'
<1> SUFFICES ASSUME TableInv, [Next]_vars PROVE TypeOK'
  OBVIOUS
<1> USE PatternsAssumption DEF TableInv, database, runs, process, vars
<1>1. ASSUME NEW r \in Run, Learn(r) PROVE TypeOK'
  <2>1. pc' \in [Run -> {"idle", "begin", "delete", "insert", "load", "done", "failed"}]
    BY <1>1 DEF Learn, TypeOK
  <2>2. \A q \in Run : \A p \in patterns'[q] : Pattern(p)
    BY <1>1 DEF Learn, WellFormed, TypeOK, LearntOK
  <2> QED BY <1>1, <2>1, <2>2 DEF Learn, TypeOK
<1>2. ASSUME NEW r \in Run, BeginTx(r) PROVE TypeOK'
  BY <1>2 DEF BeginTx, Goto, TypeOK
<1>3. ASSUME NEW r \in Run, Delete(r) PROVE TypeOK'
  BY <1>3 DEF Delete, Goto, TypeOK
<1>4. ASSUME NEW r \in Run, Insert(r) PROVE TypeOK'
  <2>1. PICK p \in Uninserted(r) : batch' = [batch EXCEPT ![r] = Append(@, Row(r, p))]
    BY <1>4 DEF Insert
  <2>2. Row(r, p) \in OwnRows(r)
    BY <2>1 DEF Uninserted, OwnRows
  <2>3. batch[r] \in Seq(OwnRows(r)) /\ DOMAIN batch = Run
    BY DEF BatchOK
  <2>4. Append(batch[r], Row(r, p)) # <<>>
    BY <2>2, <2>3, AppendProperties
  <2>5. writer' = r /\ writer \in {NoRun, r}
    BY <1>4 DEF Insert, MayWrite
  <2>6. \A q \in Run : batch'[q] # <<>> <=> writer' = q
    BY <2>1, <2>3, <2>4, <2>5 DEF TypeOK
  <2> QED BY <1>4, <2>5, <2>6 DEF Insert, TypeOK
<1>5. ASSUME NEW r \in Run, Commit(r) PROVE TypeOK'
  <2>1. batch' = [batch EXCEPT ![r] = <<>>] /\ writer' = IF writer = r THEN NoRun ELSE writer
    BY <1>5 DEF Commit
  <2>2. \A q \in Run : batch'[q] # <<>> <=> writer' = q
    BY <2>1 DEF TypeOK, BatchOK
  <2>3. writer' \in Run \cup {NoRun} /\ patterns' = patterns
    BY <1>5, <2>1 DEF Commit, TypeOK
  <2>4. \A i \in DOMAIN stored' : stored'[i].by \in Run
    <3>1. batch[r] \in Seq(OwnRows(r)) /\ stored \in Seq(RangeOf(stored)) /\ stored' = stored \o batch[r]
      BY <1>5 DEF Commit, BatchOK, StoredOK
    <3>2. RangeOf(stored') = RangeOf(stored) \cup RangeOf(batch[r])
      BY <3>1, OwnConcat
    <3>3. \A row \in RangeOf(batch[r]) : row.by = r
      BY <3>1, OwnRange, RowFacts
    <3>4. \A row \in RangeOf(stored) : row.by \in Run
      BY DEF TypeOK, RangeOf
    <3>5. \A row \in RangeOf(stored') : row.by \in Run
      BY <3>2, <3>3, <3>4
    <3> QED BY <3>5 DEF RangeOf
  <2>5. failures' \in 0..MaxFailures /\ pc' \in [Run -> {"idle", "begin", "delete", "insert", "load",
                                                        "done", "failed"}]
    BY <1>5 DEF Commit, Goto, TypeOK
  <2> QED BY <1>5, <2>2, <2>3, <2>4, <2>5 DEF Commit, TypeOK
<1>6. ASSUME NEW r \in Run, Load(r) PROVE TypeOK'
  BY <1>6 DEF Load, Goto, TypeOK
<1>7. ASSUME NEW r \in Run, Fail(r) PROVE TypeOK'
  <2>1. batch' = [batch EXCEPT ![r] = <<>>] /\ writer' = IF writer = r THEN NoRun ELSE writer
    BY <1>7 DEF Fail, Rollback
  <2>2. \A q \in Run : batch'[q] # <<>> <=> writer' = q
    BY <2>1 DEF TypeOK, BatchOK
  <2>3. writer' \in Run \cup {NoRun} /\ patterns' = patterns
    BY <1>7, <2>1 DEF Fail, TypeOK
  <2>4. \A i \in DOMAIN stored' : stored'[i].by \in Run
    BY <1>7 DEF Fail, TypeOK
  <2>5. failures' \in 0..MaxFailures /\ pc' \in [Run -> {"idle", "begin", "delete", "insert", "load",
                                                        "done", "failed"}]
    BY <1>7 DEF Fail, Goto, TypeOK
  <2> QED BY <1>7, <2>2, <2>3, <2>4, <2>5 DEF Fail, TypeOK
<1>8. ASSUME NEW session \in Sessions, Flush(session) PROVE TypeOK'
  BY <1>8 DEF Flush, TypeOK
<1>9. ASSUME Restart PROVE TypeOK'
  BY <1>9 DEF Restart, AtWork, TypeOK
<1>10. ASSUME UNCHANGED vars PROVE TypeOK'
  BY <1>10 DEF TypeOK
<1> QED
  BY LearnSteps, <1>1, <1>2, <1>3, <1>4, <1>5, <1>6, <1>7, <1>8, <1>9, <1>10
         DEF Next

-----------------------------------------------------------------------------
(* Types, the lock and the batches *)

\* Initially the table is empty and no run has begun.
LEMMA TableStarts == Init => TableInv
<1> SUFFICES ASSUME Init PROVE TableInv
  OBVIOUS
<1>1. queries = <<>> /\ stored = <<>> /\ writer = NoRun /\ follow \in BOOLEAN
  BY DEF Init
<1>2. now = 0 /\ failures = 0 /\ restarts = 0
  BY DEF Init
<1>3. \A r \in Run : pc[r] = "idle" /\ patterns[r] = {} /\ batch[r] = <<>>
  BY DEF Init
<1>4. QueriesOK
  BY <1>1, RangeEmpty, EmptySeq DEF QueriesOK
<1>5. LearntOK
  BY <1>3 DEF Init, LearntOK
<1>6. BatchOK
  <2>1. \A r \in Run : batch[r] \in Seq(OwnRows(r))
    BY <1>3, EmptySeq
  <2> QED BY <1>3, <2>1 DEF Init, BatchOK
<1>7. StoredOK
  <2>1. RangeOf(stored) = {}
    BY <1>1, RangeEmpty
  <2>2. \A r \in Run : Mine(r) = {}
    BY <2>1 DEF Mine
  <2> QED BY <1>1, <2>1, <2>2, EmptySeq DEF StoredOK
<1>8. TypeOK
  <2>1. DOMAIN stored = {}
    BY <1>1
  <2>2. failures \in 0..MaxFailures /\ restarts \in 0..MaxRestarts
    BY <1>2, PatternsAssumption
  <2>3. pc \in [Run -> {"idle", "begin", "delete", "insert", "load", "done", "failed"}]
    BY DEF Init
  <2> QED BY <1>1, <1>2, <1>3, <2>1, <2>2, <2>3, PatternsAssumption DEF TypeOK
<1> QED BY <1>4, <1>5, <1>6, <1>7, <1>8 DEF TableInv

\* A step keeps the invariant.
LEMMA TableStep == TableInv /\ [Next]_vars => TableInv'
BY TypeStep, QueriesStep, LearntStep, BatchStep, StoredStep DEF TableInv

\* The invariant of the table.
LEMMA TableInvariance == Spec => []TableInv
BY TableStarts, TableStep, PTL DEF Spec

\* The variables keep their types: a run that learns finds patterns, an open
\* transaction that has written holds the lock, and no other does.
THEOREM PatternTypesHold == Spec => []TypeOK
BY TableInvariance, PTL DEF TableInv

\* Whatever fails and whenever the process dies, the lock of the database is held
\* by a run only while it inserts.
THEOREM LockComesBack == Spec => []LockIsReturned
<1>1. TableInv => LockIsReturned
  BY DEF TableInv, TypeOK, BatchOK, LockIsReturned
<1> QED BY <1>1, TableInvariance, PTL

\* However runs overlap, fail or die, the table has all rows of a run or none.
THEOREM TableHasWholeBatches == Spec => []BatchesAreWhole
<1>1. StoredOK => BatchesAreWhole
  <2> SUFFICES ASSUME StoredOK, NEW r \in Run
               PROVE  LET own == {i \in DOMAIN stored : stored[i].by = r}
                      IN  own = {} \/ {stored[i] : i \in own} = {Row(r, p) : p \in patterns[r]}
    BY DEF BatchesAreWhole
  <2> DEFINE own == {i \in DOMAIN stored : stored[i].by = r}
  <2>1. {stored[i] : i \in own} = Mine(r)
    BY DEF Mine, RangeOf
  <2>2. CASE Mine(r) = {}
    BY <2>1, <2>2
  <2>3. CASE Mine(r) = OwnRows(r)
    BY <2>1, <2>3 DEF OwnRows
  <2> QED BY <2>2, <2>3 DEF StoredOK
<1> QED BY <1>1, TableInvariance, PTL DEF TableInv

-----------------------------------------------------------------------------
(* The map *)

\* What a run answers for: whatever it does to the table it ends by loading it.
LEMMA MapStep == TableInv /\ MapOK /\ [Next]_vars => MapOK'
<1> SUFFICES ASSUME TableInv, MapOK, [Next]_vars PROVE MapOK'
  OBVIOUS
<1> USE PatternsAssumption DEF TableInv, database, runs, process, vars
<1>1. ASSUME NEW r \in Run, Learn(r) PROVE MapOK'
  <2>1. stored' = stored /\ Prefetch' = Prefetch /\ follow' = follow /\ restarts' = restarts
    BY <1>1 DEF Learn
  <2>2. \A q \in Run : pc'[q] = IF q = r THEN "begin" ELSE pc[q]
    BY <1>1 DEF Learn, Goto, TypeOK
  <2>3. \A q \in Run \ {r} : Present(q) => Present(q)'
    BY <1>1, <2>1 DEF Learn, Present, LearntOK
  <2>4. (failures' = 0 => failures = 0) /\ follow /\ pc[r] = "idle"
    BY <1>1 DEF Learn, TypeOK, MapOK, AtWork
  <2>5. \A q \in Run : AtWork(q)' => follow'
    BY <2>1, <2>4
  <2>6. (failures' = 0 /\ \A q \in Run : pc'[q] \notin {"insert", "load"}) =>
           Prefetch' = IF follow' THEN AsMap(stored') ELSE Nothing
    BY <2>1, <2>2, <2>4 DEF MapOK
  <2>7. ASSUME failures' = 0, restarts' = 0, NEW s \in Run, pc'[s] \in {"load", "done"}
        PROVE  \E q \in Run : \/ pc'[q] = "insert"
                              \/ pc'[q] \in {"load", "done"} /\ Present(q)'
    <3>1. pc[s] \in {"load", "done"} /\ failures = 0 /\ restarts = 0
      BY <2>1, <2>2, <2>4, <2>7
    <3>2. PICK q \in Run : pc[q] = "insert" \/ (pc[q] \in {"load", "done"} /\ Present(q))
      BY <3>1 DEF MapOK
    <3>3. q # r
      BY <2>4, <3>2
    <3> QED BY <2>2, <2>3, <3>2, <3>3
  <2> QED BY <2>1, <2>4, <2>5, <2>6, <2>7 DEF MapOK
<1>2. ASSUME NEW r \in Run, BeginTx(r) PROVE MapOK'
  <2>1. stored' = stored /\ Prefetch' = Prefetch /\ follow' = follow /\ restarts' = restarts
    BY <1>2 DEF BeginTx
  <2>2. \A q \in Run : pc'[q] = IF q = r THEN "delete" ELSE pc[q]
    BY <1>2 DEF BeginTx, Goto, TypeOK
  <2>3. \A q \in Run \ {r} : Present(q) => Present(q)'
    BY <1>2, <2>1 DEF BeginTx, Present, LearntOK
  <2>4. (failures' = 0 => failures = 0) /\ follow /\ pc[r] = "begin"
    BY <1>2 DEF BeginTx, TypeOK, MapOK, AtWork
  <2>5. \A q \in Run : AtWork(q)' => follow'
    BY <2>1, <2>4
  <2>6. (failures' = 0 /\ \A q \in Run : pc'[q] \notin {"insert", "load"}) =>
           Prefetch' = IF follow' THEN AsMap(stored') ELSE Nothing
    BY <2>1, <2>2, <2>4 DEF MapOK
  <2>7. ASSUME failures' = 0, restarts' = 0, NEW s \in Run, pc'[s] \in {"load", "done"}
        PROVE  \E q \in Run : \/ pc'[q] = "insert"
                              \/ pc'[q] \in {"load", "done"} /\ Present(q)'
    <3>1. pc[s] \in {"load", "done"} /\ failures = 0 /\ restarts = 0
      BY <2>1, <2>2, <2>4, <2>7
    <3>2. PICK q \in Run : pc[q] = "insert" \/ (pc[q] \in {"load", "done"} /\ Present(q))
      BY <3>1 DEF MapOK
    <3>3. q # r
      BY <2>4, <3>2
    <3> QED BY <2>2, <2>3, <3>2, <3>3
  <2> QED BY <2>1, <2>4, <2>5, <2>6, <2>7 DEF MapOK
<1>3. ASSUME NEW r \in Run, Delete(r) PROVE MapOK'
  <2>1. follow' = follow /\ follow /\ failures' = failures /\ restarts' = restarts
    BY <1>3 DEF Delete, MapOK, AtWork
  <2>2. pc[r] = "delete" /\ \A q \in Run : pc'[q] = IF q = r THEN "insert" ELSE pc[q]
    BY <1>3 DEF Delete, Goto, TypeOK
  <2> QED BY <2>1, <2>2 DEF MapOK
<1>4. ASSUME NEW r \in Run, Insert(r) PROVE MapOK'
  BY <1>4 DEF Insert, MapOK, Present, AtWork
<1>5. ASSUME NEW r \in Run, Commit(r) PROVE MapOK'
  <2>1. follow' = follow /\ follow /\ failures' = failures /\ restarts' = restarts
    BY <1>5 DEF Commit, MapOK, AtWork
  <2>2. pc[r] = "insert" /\ \A q \in Run : pc'[q] = IF q = r THEN "load" ELSE pc[q]
    BY <1>5 DEF Commit, Goto, TypeOK
  <2>3. RangeOf(stored') = RangeOf(stored) \cup OwnRows(r) /\ patterns' = patterns
    <3>1. RangeOf(batch[r]) = OwnRows(r)
      BY <1>5, FullBatch DEF Commit
    <3>2. batch[r] \in Seq(OwnRows(r)) /\ stored \in Seq(RangeOf(stored))
      BY DEF BatchOK, StoredOK
    <3> QED BY <1>5, <3>1, <3>2, OwnConcat DEF Commit
  <2>4. Present(r)'
    <3>1. ASSUME NEW p \in patterns[r]
          PROVE  \E i \in DOMAIN stored' : stored'[i].domain = p.domain
      <4>1. Row(r, p) \in RangeOf(stored') /\ Row(r, p).domain = p.domain
        BY <2>3 DEF OwnRows, Row
      <4> QED BY <4>1 DEF RangeOf
    <3> QED BY <2>3, <3>1 DEF Present
  <2> QED BY <2>1, <2>2, <2>4 DEF MapOK
<1>6. ASSUME NEW r \in Run, Load(r) PROVE MapOK'
  <2>1. follow' = follow /\ follow /\ failures' = failures /\ restarts' = restarts
    BY <1>6 DEF Load, MapOK, AtWork
  <2>2. pc[r] = "load" /\ \A q \in Run : pc'[q] = IF q = r THEN "done" ELSE pc[q]
    BY <1>6 DEF Load, Goto, TypeOK
  <2>3. Prefetch' = AsMap(stored') /\ \A q \in Run : Present(q) => Present(q)'
    BY <1>6 DEF Load, database, loadQueryPatterns, Present
  <2> QED BY <2>1, <2>2, <2>3 DEF MapOK
<1>7. ASSUME NEW r \in Run, Fail(r) PROVE MapOK'
  <2>1. failures' # 0 /\ follow' = follow /\ follow
    BY <1>7 DEF Fail, TypeOK, MapOK
  <2> QED BY <2>1 DEF MapOK
<1>8. ASSUME NEW session \in Sessions, Flush(session) PROVE MapOK'
  BY <1>8 DEF Flush, MapOK, Present, AtWork
<1>9. ASSUME Restart PROVE MapOK'
  <2>1. restarts' # 0 /\ \A q \in Run : pc'[q] \notin {"begin", "delete", "insert", "load"}
    BY <1>9 DEF Restart, AtWork, TypeOK
  <2>2. \A q \in Run : ~AtWork(q)'
    BY <1>9 DEF Restart, AtWork, TypeOK
  <2>3. failures' = 0 => Prefetch' = IF follow' THEN AsMap(stored') ELSE Nothing
    BY <1>9 DEF Restart, TypeOK, loadQueryPatterns
  <2> QED BY <2>1, <2>2, <2>3 DEF MapOK
<1>10. ASSUME UNCHANGED vars PROVE MapOK'
  BY <1>10 DEF MapOK, Present, AtWork
<1> QED
  BY LearnSteps, <1>1, <1>2, <1>3, <1>4, <1>5, <1>6, <1>7, <1>8, <1>9, <1>10
         DEF Next


\* When nothing has failed and no run is under way, the map in memory is that of
\* the table; unless the process died, it has the result of a run that ended.
THEOREM MapIsInStep == Spec => []InStepWhenQuiet
<1>1. Init => MapOK
  BY DEF Init, MapOK, AtWork, Nothing
<1>2. Spec => []MapOK
  BY <1>1, MapStep, TableInvariance, PTL DEF Spec
<1>3. TableInv /\ MapOK => InStepWhenQuiet
  <2> SUFFICES ASSUME TableInv, MapOK, failures = 0, \A r \in Run : ~AtWork(r)
               PROVE  /\ Prefetch = IF follow THEN AsMap(stored) ELSE Nothing
                      /\ (restarts = 0 /\ \E r \in Run : pc[r] = "done") =>
                           \E r \in Run : /\ pc[r] = "done"
                                          /\ \A p \in patterns[r] : p.domain \in DOMAIN Prefetch
    BY DEF InStepWhenQuiet
  <2>1. \A r \in Run : pc[r] \notin {"insert", "load"}
    BY DEF AtWork
  <2>2. Prefetch = IF follow THEN AsMap(stored) ELSE Nothing
    BY <2>1 DEF MapOK
  <2>3. ASSUME restarts = 0, NEW r \in Run, pc[r] = "done"
        PROVE  \E q \in Run : /\ pc[q] = "done"
                              /\ \A p \in patterns[q] : p.domain \in DOMAIN Prefetch
    <3>1. follow /\ \E q \in Run : pc[q] \in {"load", "done"} /\ Present(q)
      BY <2>1, <2>3 DEF MapOK
    <3>2. PICK q \in Run : pc[q] = "done" /\ Present(q)
      BY <2>1, <3>1
    <3>3. DOMAIN Prefetch = {stored[i].domain : i \in DOMAIN stored}
      BY <2>2, <3>1 DEF AsMap
    <3> QED BY <3>2, <3>3 DEF Present
  <2> QED BY <2>2, <2>3
<1> QED BY <1>2, <1>3, TableInvariance, PTL

-----------------------------------------------------------------------------
(* What a run that reads the whole log learns *)

\* The order of the queries: by time, those of one instant as they are stored.
Earlier(qs, i, j) == qs[i].time < qs[j].time \/ (qs[i].time = qs[j].time /\ i < j)

\* The order in which the queries come when at says where each of them is.
InOrder(at, qs, n) == \A k, l \in 1..n : k < l => Earlier(qs, at[k], at[l])

\* Sorting by time permutes the queries.
LEMMA ByTimeSorts ==
  ASSUME NEW X, NEW qs \in Seq(X), \A i \in DOMAIN qs : qs[i].time \in Int
  PROVE  \E at :
           /\ OneToOne(at, 1..Len(qs), 1..Len(qs))
           /\ ByTime(qs) = [k \in 1..Len(qs) |-> qs[at[k]]]
           /\ InOrder(at, qs, Len(qs))
<1> DEFINE n == Len(qs)
           Below(i) == {j \in DOMAIN qs : Earlier(qs, j, i)}
           rank == [i \in DOMAIN qs |-> 1 + Cardinality(Below(i))]
           Place(k) == CHOOSE i \in DOMAIN qs : rank[i] = k
           below == [i \in 1..n |-> Below(i)]
           at == [k \in 1..n |-> Place(k)]
<1>1. n \in Nat /\ DOMAIN qs = 1..n
  BY LenProperties
<1>2. ByTime(qs) = [k \in 1..n |-> qs[at[k]]]
  <2>1. ByTime(qs) = [k \in DOMAIN qs |-> qs[Place(k)]]
    BY DEF ByTime, Earlier
  <2> HIDE DEF Place
  <2> QED BY <1>1, <2>1
<1>3. \A i \in 1..n : qs[i].time \in Int
  BY <1>1
<1> HIDE DEF n
<1>4. /\ below \in [1..n -> SUBSET (1..n)]
      /\ \A i, j \in 1..n : j \in below[i] <=> Earlier(qs, j, i)
  BY <1>1
<1>5. rank = [i \in 1..n |-> 1 + Cardinality(below[i])]
  BY <1>1
<1> HIDE DEF below, Below
<1>6. \A i \in 1..n : i \notin below[i]
  BY <1>1, <1>3, <1>4 DEF Earlier
<1>7. \A i, j \in 1..n : i # j => i \in below[j] \/ j \in below[i]
  BY <1>1, <1>3, <1>4 DEF Earlier
<1>8. ASSUME NEW i \in 1..n, NEW j \in 1..n, i \in below[j], NEW k \in below[i]
      PROVE  k \in below[j]
  <2>1. k \in 1..n /\ Earlier(qs, k, i) /\ Earlier(qs, i, j)
    BY <1>4, <1>8
  <2>2. Earlier(qs, k, j)
    BY <1>1, <1>3, <2>1 DEF Earlier
  <2> QED BY <1>4, <2>1, <2>2
<1>9. /\ OneToOne(rank, 1..n, 1..n)
      /\ \A i, j \in 1..n : i \in below[j] => rank[i] < rank[j]
  <2>1. \A i, j \in 1..n : i \in below[j] => below[i] \subseteq below[j]
    BY <1>4, <1>8
  <2>2. LinearOrder(below, n)
    BY <1>4, <1>6, <1>7, <2>1 DEF LinearOrder
  <2> HIDE DEF rank
  <2> QED BY <1>1, <1>5, <2>2, RankPermutes
<1> HIDE DEF rank
<1>10. /\ rank \in [1..n -> 1..n]
       /\ \A i, j \in 1..n : rank[i] = rank[j] => i = j
       /\ \A k \in 1..n : \E i \in 1..n : rank[i] = k
  BY <1>9 DEF OneToOne
<1>11. \A k \in 1..n : at[k] \in 1..n /\ rank[at[k]] = k
  BY <1>1, <1>10
<1>12. at \in [1..n -> 1..n]
  BY <1>11
<1> HIDE DEF at
<1>13. OneToOne(at, 1..n, 1..n)
  <2>1. \A k, l \in 1..n : at[k] = at[l] => k = l
    BY <1>11
  <2>2. ASSUME NEW i \in 1..n PROVE \E k \in 1..n : at[k] = i
    <3>1. rank[i] \in 1..n
      BY <1>10
    <3>2. at[rank[i]] \in 1..n /\ rank[at[rank[i]]] = rank[i]
      BY <1>11, <3>1
    <3>3. at[rank[i]] = i
      BY <1>10, <3>2
    <3> QED BY <3>1, <3>3
  <2> QED BY <1>12, <2>1, <2>2 DEF OneToOne
<1>14. InOrder(at, qs, n)
  <2> SUFFICES ASSUME NEW k \in 1..n, NEW l \in 1..n, k < l PROVE Earlier(qs, at[k], at[l])
    BY DEF InOrder
  <2>1. at[k] \in 1..n /\ at[l] \in 1..n /\ at[k] # at[l]
    BY <1>11
  <2>2. at[l] \notin below[at[k]]
    BY <1>9, <1>11, <2>1
  <2> QED BY <1>4, <1>7, <2>1, <2>2
<1> QED BY <1>2, <1>13, <1>14 DEF n

\* The positions of the queries that are recent.
Log == {i \in DOMAIN queries : Recent(queries[i])}

\* What is fetched is the recent part of the log in the order of time: at says
\* where each of its queries is in the log.
Fetched(at, qs) ==
  /\ qs \in Seq(RangeOf(queries)) /\ OneToOne(at, 1..Len(qs), Log)
  /\ \A k \in 1..Len(qs) : qs[k] = queries[at[k]]
  /\ InOrder(at, queries, Len(qs))

\* A run that reads the whole log reads that.
LEMMA FetchesLog ==
  ASSUME QueriesOK
  PROVE  \E at : Fetched(at, fetchQueries)
<1> DEFINE recent == {q \in RangeOf(queries) : Recent(q)}
           part == Select(queries, recent)
           n == Len(part)
<1>1. PICK places : Places(places, queries, recent, part)
  BY SelectPlaces DEF QueriesOK
<1>2. part \in Seq(RangeOf(queries)) /\ n \in Nat /\ DOMAIN part = 1..n
  BY SelectType, LenProperties DEF QueriesOK
<1>3. \A i \in DOMAIN queries : queries[i] \in recent <=> i \in Log
  BY DEF Log, RangeOf
<1>4. fetchQueries = ByTime(part)
  BY DEF fetchQueries
<1> HIDE DEF recent, part, n
<1>5. \A k \in 1..n : places[k] \in DOMAIN queries /\ part[k] = queries[places[k]]
  BY <1>1, <1>2 DEF Places
<1>6. \A k \in DOMAIN part : part[k].time \in Int
  BY <1>2, <1>5 DEF QueriesOK
<1>7. PICK order :
        /\ OneToOne(order, 1..n, 1..n)
        /\ ByTime(part) = [k \in 1..n |-> part[order[k]]]
        /\ InOrder(order, part, n)
  BY <1>2, <1>6, ByTimeSorts DEF n
<1>8. OneToOne(places, 1..n, Log)
  <2>1. places \in [1..n -> Log]
    BY <1>1, <1>2, <1>3 DEF Places
  <2>2. ASSUME NEW k \in 1..n, NEW l \in 1..n, places[k] = places[l] PROVE k = l
    <3>1. Log \subseteq Int
      <4>1. DOMAIN queries = 1..Len(queries) /\ Len(queries) \in Nat
        BY LenProperties DEF QueriesOK
      <4> QED BY <4>1 DEF Log
    <3>2. k < l => places[k] < places[l]
      BY <1>1, <1>2 DEF Places
    <3>3. l < k => places[l] < places[k]
      BY <1>1, <1>2 DEF Places
    <3>4. places[k] \in Int /\ places[l] \in Int
      BY <2>1, <3>1
    <3> QED BY <1>2, <2>2, <3>2, <3>3, <3>4
  <2>3. \A i \in Log : \E k \in 1..n : places[k] = i
    BY <1>1, <1>2, <1>3 DEF Places, Log
  <2> QED BY <2>1, <2>2, <2>3 DEF OneToOne
<1> DEFINE at == [k \in 1..n |-> places[order[k]]]
           qs == ByTime(part)
<1>9. OneToOne(at, 1..n, Log)
  <2>1. /\ \A k \in 1..n : order[k] \in 1..n
        /\ \A k, l \in 1..n : order[k] = order[l] => k = l
        /\ \A m \in 1..n : \E k \in 1..n : order[k] = m
    BY <1>7 DEF OneToOne
  <2>2. /\ \A k \in 1..n : places[k] \in Log
        /\ \A k, l \in 1..n : places[k] = places[l] => k = l
        /\ \A i \in Log : \E k \in 1..n : places[k] = i
    BY <1>8 DEF OneToOne
  <2>3. \A k, l \in 1..n : at[k] = at[l] => k = l
    BY <2>1, <2>2
  <2>4. \A i \in Log : \E k \in 1..n : at[k] = i
    BY <2>1, <2>2
  <2>5. at \in [1..n -> Log]
    BY <2>1, <2>2
  <2> HIDE DEF at
  <2> QED BY <2>3, <2>4, <2>5 DEF OneToOne
<1>10. /\ \A k \in 1..n : order[k] \in 1..n /\ qs[k] = part[order[k]] /\ at[k] = places[order[k]]
       /\ DOMAIN qs = 1..n
  BY <1>7 DEF OneToOne
<1>11. qs \in Seq(RangeOf(queries)) /\ Len(qs) = n
  <2>1. \A k \in 1..n : part[k] \in RangeOf(queries)
    BY <1>5 DEF RangeOf
  <2>2. qs = [k \in 1..n |-> part[order[k]]]
    BY <1>7
  <2>3. qs \in [1..n -> RangeOf(queries)]
    BY <1>10, <2>1, <2>2
  <2>4. qs \in Seq(RangeOf(queries))
    BY <1>2, <2>3, SeqDef
  <2> QED BY <1>2, <1>10, <2>4, LenProperties
<1> HIDE DEF at, qs
<1>12. InOrder(at, queries, n)
  <2> SUFFICES ASSUME NEW k \in 1..n, NEW l \in 1..n, k < l PROVE Earlier(queries, at[k], at[l])
    BY DEF InOrder
  <2>1. Earlier(part, order[k], order[l])
    BY <1>7 DEF InOrder
  <2>2. order[k] \in 1..n /\ order[l] \in 1..n
    BY <1>10
  <2>3. order[k] < order[l] => places[order[k]] < places[order[l]]
    BY <1>1, <1>2, <2>2 DEF Places
  <2> QED BY <1>5, <1>10, <2>1, <2>2, <2>3 DEF Earlier
<1>13. Fetched(at, qs)
  BY <1>5, <1>9, <1>10, <1>11, <1>12 DEF Fetched
<1> QED BY <1>4, <1>13 DEF qs

\* A pair of queries of which the second was observed after the first.
Pair(qs, k, l) == [lead |-> qs[k].domain, at |-> k, query |-> qs[l], pos |-> l]
Pairs(qs) == UNION {{Pair(qs, k, l) : l \in Observed(qs, k)} : k \in DOMAIN qs}
PairsOf(qs, a, b) == {p \in Pairs(qs) : p.lead = a /\ p.query.domain = b}

\* What the log shows of two names: the pairs of places, how many, with which types.
Of(a, b) == {ij \in Follows : queries[ij[1]].domain = a /\ queries[ij[2]].domain = b}
Times(a, b) == Cardinality(Of(a, b))
TypesOf(a, b) == {queries[ij[2]].type : ij \in Of(a, b)}

\* The places of queries are numbers, and the times at them.
LEMMA LogIsNumbers ==
  ASSUME QueriesOK
  PROVE  \A i \in Log : i \in Int /\ i \in DOMAIN queries /\ queries[i].time \in Int
<1>1. DOMAIN queries = 1..Len(queries) /\ Len(queries) \in Nat
  BY LenProperties DEF QueriesOK
<1> QED BY <1>1 DEF Log, QueriesOK

\* What follows what in the log, spelt out.
LEMMA FollowsDef ==
  ASSUME NEW i, NEW j
  PROVE  <<i, j>> \in Follows <=>
           /\ i \in Log /\ j \in Log
           /\ queries[i].domain # queries[j].domain /\ queries[i].host = queries[j].host
           /\ Earlier(queries, i, j) /\ queries[j].time - queries[i].time <= Window
BY DEF Follows, Log, Earlier

\* The loop of binQueries leaves early, but never too early: in what is fetched it
\* counts for a query exactly those that follow it in the log.
LEMMA ObservedFollow ==
  ASSUME QueriesOK, NEW at, NEW qs, Fetched(at, qs),
         NEW k \in 1..Len(qs), NEW l \in 1..Len(qs)
  PROVE  l \in Observed(qs, k) <=> <<at[k], at[l]>> \in Follows
<1> DEFINE n == Len(qs)
<1>1. n \in Nat
  BY LenProperties DEF Fetched
<1> HIDE DEF n
<1>2. \A m \in 1..n : at[m] \in Log
  BY DEF Fetched, OneToOne, n
<1>3. \A m \in 1..n : at[m] \in Int /\ queries[at[m]].time \in Int /\ qs[m] = queries[at[m]]
  BY <1>2, LogIsNumbers DEF Fetched, n
<1>4. ASSUME NEW x \in 1..n, NEW y \in 1..n, x < y PROVE qs[x].time <= qs[y].time
  <2>1. Earlier(queries, at[x], at[y])
    BY <1>4 DEF Fetched, InOrder, n
  <2>2. queries[at[x]].time <= queries[at[y]].time
    BY <1>3, <2>1 DEF Earlier
  <2> QED BY <1>3, <2>2
<1>5. Earlier(queries, at[k], at[l]) <=> k < l
  <2>1. k < l => Earlier(queries, at[k], at[l])
    BY DEF Fetched, InOrder
  <2>2. l < k => Earlier(queries, at[l], at[k])
    BY DEF Fetched, InOrder
  <2>3. k = l => ~Earlier(queries, at[k], at[l])
    BY <1>3 DEF Earlier, n
  <2>4. Earlier(queries, at[l], at[k]) => ~Earlier(queries, at[k], at[l])
    BY <1>3 DEF Earlier, n
  <2> QED BY <1>1, <2>1, <2>2, <2>3, <2>4 DEF n
<1>6. <<at[k], at[l]>> \in Follows <=>
        k < l /\ Relevant(qs, k, l) /\ qs[l].time - qs[k].time <= Window
  <2>1. at[k] \in Log /\ at[l] \in Log /\ qs[k] = queries[at[k]] /\ qs[l] = queries[at[l]]
    BY <1>2, <1>3 DEF n
  <2>2. Relevant(qs, k, l) <=> /\ queries[at[k]].domain # queries[at[l]].domain
                               /\ queries[at[k]].host = queries[at[l]].host
    BY <2>1 DEF Relevant
  <2> QED BY <1>5, <2>1, <2>2, FollowsDef
<1>7. ASSUME l \in Observed(qs, k)
      PROVE  k < l /\ Relevant(qs, k, l) /\ qs[l].time - qs[k].time <= Window
  <2>1. Relevant(qs, k, l) /\ l \in k..n /\ ~(qs[l].time > qs[k].time + Window)
    BY <1>1, <1>7 DEF Observed, n
  <2>2. k # l
    BY <2>1 DEF Relevant
  <2> QED BY <1>1, <1>3, <2>1, <2>2 DEF n, Window
<1>8. ASSUME k < l, Relevant(qs, k, l), qs[l].time - qs[k].time <= Window
      PROVE  l \in Observed(qs, k)
  <2>1. ASSUME NEW m \in k..l PROVE ~(qs[m].time > qs[k].time + Window)
    <3>1. m \in 1..n /\ m <= l
      BY <1>1 DEF n
    <3>2. qs[m].time <= qs[l].time
      BY <1>1, <1>3, <1>4, <3>1 DEF n
    <3>3. qs[m].time \in Int /\ qs[k].time \in Int /\ qs[l].time \in Int
      BY <1>3, <3>1 DEF n
    <3> HIDE DEF n
    <3> QED BY <1>8, <3>2, <3>3 DEF Window
  <2> QED BY <1>1, <1>8, <2>1 DEF Observed, n
<1> QED BY <1>6, <1>7, <1>8

\* A pair tells its places.
LEMMA PairsDef ==
  ASSUME QueriesOK, NEW at, NEW qs, Fetched(at, qs), NEW a, NEW b
  PROVE  /\ \A p \in PairsOf(qs, a, b) :
              /\ p.at \in 1..Len(qs) /\ p.pos \in 1..Len(qs) /\ p = Pair(qs, p.at, p.pos)
              /\ <<at[p.at], at[p.pos]>> \in Of(a, b)
              /\ p.query = queries[at[p.pos]]
         /\ \A k, l \in 1..Len(qs) :
              <<at[k], at[l]>> \in Of(a, b) => Pair(qs, k, l) \in PairsOf(qs, a, b)
<1>1. Len(qs) \in Nat /\ DOMAIN qs = 1..Len(qs)
  BY LenProperties DEF Fetched
<1>2. \A m \in 1..Len(qs) : qs[m] = queries[at[m]]
  BY DEF Fetched
<1>3. ASSUME NEW p \in PairsOf(qs, a, b)
      PROVE  /\ p.at \in 1..Len(qs) /\ p.pos \in 1..Len(qs) /\ p = Pair(qs, p.at, p.pos)
             /\ <<at[p.at], at[p.pos]>> \in Of(a, b)
             /\ p.query = queries[at[p.pos]]
  <2>1. PICK k \in 1..Len(qs) : \E l \in Observed(qs, k) : p = Pair(qs, k, l)
    BY <1>1 DEF PairsOf, Pairs
  <2>2. PICK l \in Observed(qs, k) : p = Pair(qs, k, l)
    BY <2>1
  <2>3. l \in 1..Len(qs)
    BY <1>1, <2>1, <2>2 DEF Observed
  <2>4. p.at = k /\ p.pos = l /\ p.lead = qs[k].domain /\ p.query = qs[l]
    BY <2>2 DEF Pair
  <2>5. <<at[k], at[l]>> \in Follows
    BY <2>1, <2>2, <2>3, ObservedFollow
  <2>6. qs[k].domain = a /\ qs[l].domain = b
    BY <2>4 DEF PairsOf
  <2>7. <<at[k], at[l]>> \in Of(a, b)
    BY <1>2, <2>1, <2>3, <2>5, <2>6 DEF Of
  <2> QED BY <1>2, <2>2, <2>3, <2>4, <2>7
<1>4. ASSUME NEW k \in 1..Len(qs), NEW l \in 1..Len(qs), <<at[k], at[l]>> \in Of(a, b)
      PROVE  Pair(qs, k, l) \in PairsOf(qs, a, b)
  <2>1. <<at[k], at[l]>> \in Follows /\ queries[at[k]].domain = a /\ queries[at[l]].domain = b
    BY <1>4 DEF Of
  <2>2. l \in Observed(qs, k)
    BY <2>1, ObservedFollow
  <2>3. Pair(qs, k, l) \in Pairs(qs)
    BY <1>1, <2>2 DEF Pairs
  <2>4. Pair(qs, k, l).lead = qs[k].domain /\ Pair(qs, k, l).query = qs[l]
    BY DEF Pair
  <2> QED BY <1>2, <2>1, <2>3, <2>4 DEF PairsOf
<1> QED BY <1>3, <1>4

\* A run counts what the log shows, with the types that are in the log.
LEMMA CountsWhatFollows ==
  ASSUME QueriesOK, NEW at, NEW qs, Fetched(at, qs), NEW a, NEW b
  PROVE  /\ IsFiniteSet(PairsOf(qs, a, b))
         /\ IsFiniteSet(Of(a, b)) /\ Cardinality(PairsOf(qs, a, b)) = Times(a, b)
         /\ {p.query.type : p \in PairsOf(qs, a, b)} = TypesOf(a, b)
<1> DEFINE ps == PairsOf(qs, a, b)
           f == [p \in ps |-> <<at[p.at], at[p.pos]>>]
<1>1. IsFiniteSet(ps)
  <2>1. IsFiniteSet(Pairs(qs))
    BY PairsAreFinite DEF Fetched, Pairs, Pair
  <2>2. ps \in SUBSET Pairs(qs)
    BY DEF PairsOf
  <2> QED BY <2>1, <2>2, FS_Subset
<1>2. /\ \A p \in ps : /\ p.at \in 1..Len(qs) /\ p.pos \in 1..Len(qs)
                       /\ p = Pair(qs, p.at, p.pos)
                       /\ <<at[p.at], at[p.pos]>> \in Of(a, b)
                       /\ p.query = queries[at[p.pos]]
      /\ \A k, l \in 1..Len(qs) : <<at[k], at[l]>> \in Of(a, b) => Pair(qs, k, l) \in ps
  BY PairsDef
<1> HIDE DEF ps
<1>3. ASSUME NEW ij \in Of(a, b)
      PROVE  \E p \in ps : f[p] = ij /\ p.query = queries[ij[2]]
  <2>1. ij = <<ij[1], ij[2]>> /\ ij[1] \in Log /\ ij[2] \in Log
    BY DEF Of, Follows, Log
  <2>2. PICK k \in 1..Len(qs) : at[k] = ij[1]
    BY <2>1 DEF Fetched, OneToOne
  <2>3. PICK l \in 1..Len(qs) : at[l] = ij[2]
    BY <2>1 DEF Fetched, OneToOne
  <2>4. Pair(qs, k, l) \in ps
    BY <1>2, <2>1, <2>2, <2>3
  <2>5. Pair(qs, k, l).at = k /\ Pair(qs, k, l).pos = l
    BY DEF Pair
  <2>6. f[Pair(qs, k, l)] = ij
    BY <2>1, <2>2, <2>3, <2>4, <2>5
  <2>7. Pair(qs, k, l).query = queries[ij[2]]
    BY <1>2, <2>3, <2>4, <2>5
  <2> QED BY <2>4, <2>6, <2>7
<1>4. OneToOne(f, ps, Of(a, b))
  <2>1. f \in [ps -> Of(a, b)]
    BY <1>2
  <2>2. ASSUME NEW p \in ps, NEW q \in ps, f[p] = f[q] PROVE p = q
    <3>1. at[p.at] = at[q.at] /\ at[p.pos] = at[q.pos]
      BY <2>2
    <3>2. p.at = q.at /\ p.pos = q.pos
      BY <1>2, <3>1 DEF Fetched, OneToOne
    <3> QED BY <1>2, <3>2
  <2> HIDE DEF f
  <2> QED BY <1>3, <2>1, <2>2 DEF OneToOne
<1>5. IsFiniteSet(Of(a, b)) /\ Cardinality(ps) = Times(a, b)
  <2> HIDE DEF f
  <2> QED BY <1>1, <1>4, SameSize DEF Times
<1>6. {p.query.type : p \in ps} = TypesOf(a, b)
  <2>1. ASSUME NEW p \in ps PROVE p.query.type \in TypesOf(a, b)
    <3>1. <<at[p.at], at[p.pos]>> \in Of(a, b) /\ p.query = queries[at[p.pos]]
      BY <1>2
    <3> QED BY <3>1 DEF TypesOf
  <2>2. ASSUME NEW ij \in Of(a, b) PROVE \E p \in ps : p.query.type = queries[ij[2]].type
    BY <1>3
  <2> HIDE DEF f
  <2> QED BY <2>1, <2>2 DEF TypesOf
<1> QED BY <1>1, <1>5, <1>6 DEF ps

\* The names that usually follow a name, those that are followed often, and what
\* is learnt of such a name.
Usual(a) == {b \in Names : /\ Times(a, b) > 0
                           /\ \A c \in Names : 5 * Times(a, b) >= 4 * Times(a, c)}
Leads == {a \in Names : \E b \in Names : Times(a, b) >= 5}
Shown(a) == [domain |-> a, prefetch |-> [b \in Usual(a) |-> TypesOf(a, b)]]

\* What the property asks of a result.
LEMMA LearntDef ==
  ASSUME NEW ps
  PROVE  Learnt(ps) <=> {[domain |-> p.domain, prefetch |-> p.prefetch] : p \in ps}
                          = {Shown(a) : a \in Leads}
<1> DEFINE times == [a \in Names |-> [b \in Names |-> Cardinality(Of(a, b))]]
           Typical(a) == {b \in Names : /\ times[a][b] > 0
                                        /\ \A c \in Names : 5 * times[a][b] >= 4 * times[a][c]}
           leads == {a \in Names : \E b \in Names : times[a][b] >= 5}
           Show(a) == [domain |-> a, prefetch |-> [b \in Typical(a) |-> TypesOf(a, b)]]
<1>1. Learnt(ps) <=> {[domain |-> p.domain, prefetch |-> p.prefetch] : p \in ps}
                       = {Show(a) : a \in leads}
  BY DEF Learnt, Of, TypesOf
<1>2. \A a, b \in Names : times[a][b] = Times(a, b)
  BY DEF Times
<1> HIDE DEF times
<1>3. leads = Leads
  BY <1>2 DEF Leads
<1>4. \A a \in Names : Typical(a) = Usual(a)
  BY <1>2 DEF Usual
<1>5. \A a \in Leads : Show(a) = Shown(a)
  BY <1>4 DEF Shown, Leads
<1> HIDE DEF leads, Show
<1>6. {Show(a) : a \in leads} = {Shown(a) : a \in Leads}
  BY <1>3, <1>5
<1> QED BY <1>1, <1>6

\* What a run collects of a name is what follows it in the log.
LEMMA BinShows ==
  ASSUME QueriesOK, NEW at, NEW qs, Fetched(at, qs),
         NEW a \in DOMAIN binQueries(qs), NEW bin, bin = binQueries(qs)[a]
  PROVE  /\ DOMAIN bin = {b \in Names : Times(a, b) > 0}
         /\ \A b \in DOMAIN bin : bin[b].count = Times(a, b) /\ bin[b].types = TypesOf(a, b)
<1> DEFINE After == {p \in Pairs(qs) : p.lead = a}
           Within(d) == {p \in After : p.query.domain = d}
           ends == {p.query.domain : p \in After}
<1>1. bin = [d \in ends |-> [count |-> Cardinality(Within(d)),
                             types |-> {p.query.type : p \in Within(d)}]]
  BY DEF binQueries, Pairs, Pair
<1>2. \A d : Within(d) = PairsOf(qs, a, d)
  BY DEF PairsOf
<1>3. \A d \in ends : bin[d].count = Cardinality(Within(d))
                       /\ bin[d].types = {p.query.type : p \in Within(d)}
  BY <1>1
<1>4. \A d : d \in ends <=> PairsOf(qs, a, d) # {}
  BY DEF PairsOf
<1>5. DOMAIN bin = ends
  BY <1>1
<1> HIDE DEF After, Within, ends
<1>6. ASSUME NEW d \in DOMAIN bin PROVE bin[d].count = Times(a, d) /\ bin[d].types = TypesOf(a, d)
  <2>1. Within(d) = PairsOf(qs, a, d)
    BY <1>2
  <2>2. bin[d].count = Cardinality(PairsOf(qs, a, d))
        /\ bin[d].types = {p.query.type : p \in PairsOf(qs, a, d)}
    BY <1>3, <1>5, <2>1
  <2> QED BY <2>2, CountsWhatFollows
<1>7. ASSUME NEW d PROVE d \in ends <=> Times(a, d) > 0
  <2>1. IsFiniteSet(PairsOf(qs, a, d)) /\ Cardinality(PairsOf(qs, a, d)) = Times(a, d)
    BY CountsWhatFollows
  <2>2. Times(a, d) \in Nat /\ (Times(a, d) = 0 <=> PairsOf(qs, a, d) = {})
    BY <2>1, FS_CardinalityType, FS_EmptySet
  <2> QED BY <1>4, <2>2
<1>8. ASSUME NEW d \in ends PROVE d \in Names
  <2>1. PICK p : p \in PairsOf(qs, a, d)
    BY <1>4
  <2>2. p.pos \in 1..Len(qs) /\ p.query = queries[at[p.pos]]
    <3>1. \A q \in PairsOf(qs, a, d) :
            /\ q.at \in 1..Len(qs) /\ q.pos \in 1..Len(qs) /\ q = Pair(qs, q.at, q.pos)
            /\ <<at[q.at], at[q.pos]>> \in Of(a, d)
            /\ q.query = queries[at[q.pos]]
      BY PairsDef
    <3> QED BY <2>1, <3>1
  <2>4. p.query.domain = d
    BY <2>1 DEF PairsOf
  <2>3. at[p.pos] \in DOMAIN queries
    BY <2>2 DEF Fetched, OneToOne, Log
  <2> QED BY <2>2, <2>3, <2>4 DEF Names
<1> QED BY <1>5, <1>6, <1>7, <1>8

\* A name with a bin is one of the recent queries', and no other is followed.
LEMMA BinNames ==
  ASSUME QueriesOK, NEW at, NEW qs, Fetched(at, qs)
  PROVE  /\ DOMAIN binQueries(qs) \subseteq Names
         /\ \A a, b : /\ Times(a, b) \in Nat
                      /\ Times(a, b) > 0 => a \in DOMAIN binQueries(qs)
<1>1. Len(qs) \in Nat /\ DOMAIN qs = 1..Len(qs)
  BY LenProperties DEF Fetched
<1>2. DOMAIN binQueries(qs) = {qs[k].domain : k \in DOMAIN qs}
  BY DEF binQueries
<1>3. \A k \in 1..Len(qs) : qs[k] = queries[at[k]] /\ at[k] \in DOMAIN queries
  BY DEF Fetched, OneToOne, Log
<1>4. DOMAIN binQueries(qs) \subseteq Names
  BY <1>1, <1>2, <1>3 DEF Names
<1>5. ASSUME NEW a, NEW b PROVE Times(a, b) \in Nat
  BY CountsWhatFollows, FS_CardinalityType DEF Times
<1>6. ASSUME NEW a, NEW b, Times(a, b) > 0 PROVE a \in DOMAIN binQueries(qs)
  <2>1. Of(a, b) # {}
    <3>1. Cardinality({}) = 0
      BY FS_EmptySet
    <3> QED BY <1>6, <3>1 DEF Times
  <2>2. PICK ij : ij \in Of(a, b)
    BY <2>1
  <2>3. ij[1] \in Log /\ queries[ij[1]].domain = a
    BY <2>2 DEF Of, Follows, Log
  <2>4. PICK k \in 1..Len(qs) : at[k] = ij[1]
    BY <2>3 DEF Fetched, OneToOne
  <2> QED BY <1>1, <1>2, <1>3, <2>3, <2>4
<1> QED BY <1>4, <1>5, <1>6

\* The greatest count of a name.
LEMMA GreatestCount ==
  ASSUME QueriesOK, NEW at, NEW qs, Fetched(at, qs),
         NEW a \in DOMAIN binQueries(qs), NEW most, most = MaxCount(binQueries(qs)[a])
  PROVE  /\ most \in Nat
         /\ \A c \in Names : Times(a, c) <= most
         /\ most = 0 \/ \E c \in Names : most = Times(a, c)
<1> DEFINE bin == binQueries(qs)[a]
           counts == {0} \cup {bin[d].count : d \in DOMAIN bin}
<1>1. /\ DOMAIN bin = {b \in Names : Times(a, b) > 0}
      /\ \A b \in DOMAIN bin : bin[b].count = Times(a, b)
  BY BinShows
<1>2. most = Max(counts)
  BY DEF MaxCount
<1>3. \A c : Times(a, c) \in Nat
  BY BinNames
<1> HIDE DEF bin
<1>4. counts \subseteq Nat /\ counts # {}
  BY <1>1, <1>3
<1>5. \E bound \in Nat : \A x \in counts : x <= bound
  <2>1. IsFiniteSet(Pairs(qs))
    BY PairsAreFinite DEF Fetched, Pairs, Pair
  <2>2. ASSUME NEW c PROVE Times(a, c) <= Cardinality(Pairs(qs))
    <3>1. PairsOf(qs, a, c) \in SUBSET Pairs(qs)
      BY DEF PairsOf
    <3> QED BY <2>1, <3>1, FS_Subset, CountsWhatFollows
  <2>3. Cardinality(Pairs(qs)) \in Nat
    BY <2>1, FS_CardinalityType
  <2>4. ASSUME NEW x \in counts PROVE x <= Cardinality(Pairs(qs))
    <3>1. x = 0 \/ \E d \in DOMAIN bin : x = Times(a, d)
      BY <1>1
    <3> QED BY <2>2, <2>3, <3>1
  <2> HIDE DEF counts
  <2> QED BY <2>3, <2>4
<1>6. PICK bound \in Nat : \A x \in counts : x <= bound
  BY <1>5
<1>7. most \in counts /\ \A x \in counts : x <= most
  <2> HIDE DEF counts
  <2> QED BY <1>2, <1>4, <1>6, GreatestNumber
<1>8. ASSUME NEW c \in Names PROVE Times(a, c) <= most
  <2>1. CASE Times(a, c) > 0
    BY <1>1, <1>7, <2>1
  <2>2. CASE Times(a, c) = 0
    BY <1>4, <1>7, <2>2
  <2> QED BY <1>3, <2>1, <2>2
<1>9. most = 0 \/ \E c \in Names : most = Times(a, c)
  BY <1>1, <1>7
<1> QED BY <1>4, <1>7, <1>8, <1>9

\* A run that reads the whole log learns what the log shows.
LEMMA WholeLogShows ==
  ASSUME QueriesOK
  PROVE  Learnt(findQueryPatterns(binQueries(fetchQueries)))
<1> DEFINE qs == fetchQueries
<1>1. PICK at : Fetched(at, qs)
  BY FetchesLog
<1> HIDE DEF qs
<1> DEFINE bins == binQueries(qs)
           Most(a) == MaxCount(bins[a])
           Found(a) == PatternOf(a, bins[a], Most(a))
           often == {a \in DOMAIN bins : Most(a) >= MinOccurrences}
<1>2. DOMAIN bins \subseteq Names /\ \A a, b : /\ Times(a, b) \in Nat
                                               /\ Times(a, b) > 0 => a \in DOMAIN bins
  BY <1>1, BinNames
<1>3. ASSUME NEW a \in DOMAIN bins
      PROVE  /\ Most(a) \in Nat
             /\ \A c \in Names : Times(a, c) <= Most(a)
             /\ Most(a) = 0 \/ \E c \in Names : Most(a) = Times(a, c)
  BY <1>1, GreatestCount
<1>4. ASSUME NEW a \in DOMAIN bins
      PROVE  /\ DOMAIN bins[a] = {b \in Names : Times(a, b) > 0}
             /\ \A b \in DOMAIN bins[a] : /\ bins[a][b].count = Times(a, b)
                                          /\ bins[a][b].types = TypesOf(a, b)
  BY <1>1, BinShows
<1>5. findQueryPatterns(bins) = {Found(a) : a \in often}
  BY DEF findQueryPatterns
<1> HIDE DEF bins, Most
<1>6. often = Leads
  <2>1. ASSUME NEW a \in often PROVE a \in Leads
    <3>1. Most(a) >= 5 /\ a \in DOMAIN bins
      BY DEF MinOccurrences
    <3>2. \E c \in Names : Most(a) = Times(a, c)
      BY <1>3, <3>1
    <3> QED BY <1>2, <3>1, <3>2 DEF Leads
  <2>2. ASSUME NEW a \in Leads PROVE a \in often
    <3>1. PICK b \in Names : Times(a, b) >= 5
      BY DEF Leads
    <3>2. a \in DOMAIN bins
      BY <1>2, <3>1
    <3>3. Most(a) \in Nat /\ Times(a, b) <= Most(a)
      BY <1>3, <3>2
    <3>4. Most(a) >= 5
      BY <1>2, <3>1, <3>3
    <3> QED BY <3>2, <3>4 DEF MinOccurrences
  <2> HIDE DEF often
  <2> QED BY <2>1, <2>2
<1>7. ASSUME NEW a \in often PROVE Found(a).domain = a /\ Found(a).prefetch = Shown(a).prefetch
  <2> DEFINE kept == {d \in DOMAIN bins[a] : OftenEnough(bins[a][d].count, Most(a))}
  <2>1. a \in DOMAIN bins
    OBVIOUS
  <2>2. Found(a).domain = a /\ Found(a).prefetch = [d \in kept |-> bins[a][d].types]
    BY DEF PatternOf
  <2>3. Shown(a).prefetch = [b \in Usual(a) |-> TypesOf(a, b)]
    BY DEF Shown
  <2>4. ASSUME NEW b \in Names, Times(a, b) > 0
        PROVE  OftenEnough(Times(a, b), Most(a)) <=>
                 \A c \in Names : 5 * Times(a, b) >= 4 * Times(a, c)
    <3>1. Times(a, b) \in Nat /\ Most(a) \in Nat /\ \A c \in Names : Times(a, c) \in Nat
      BY <1>2, <1>3, <2>1
    <3>2. ASSUME 5 * Times(a, b) >= 4 * Most(a), NEW c \in Names
          PROVE  5 * Times(a, b) >= 4 * Times(a, c)
      <4>1. Times(a, c) <= Most(a) /\ Times(a, c) \in Nat
        BY <1>3, <2>1, <3>1
      <4> QED BY <3>1, <3>2, <4>1
    <3>3. ASSUME \A c \in Names : 5 * Times(a, b) >= 4 * Times(a, c)
          PROVE  5 * Times(a, b) >= 4 * Most(a)
      BY <1>3, <2>1, <3>1, <3>3
    <3> QED BY <3>2, <3>3 DEF OftenEnough
  <2>5. kept = Usual(a)
    BY <1>4, <2>1, <2>4 DEF Usual
  <2>6. \A b \in kept : bins[a][b].types = TypesOf(a, b)
    BY <1>4, <2>1
  <2> HIDE DEF kept, Found
  <2> QED BY <2>2, <2>3, <2>5, <2>6
<1>8. \A a : Shown(a) = [domain |-> a, prefetch |-> Shown(a).prefetch]
  BY DEF Shown
<1> HIDE DEF Found, often
<1> DEFINE Cut(p) == [domain |-> p.domain, prefetch |-> p.prefetch]
<1>9. \A a \in often : Cut(Found(a)) = Shown(a)
  BY <1>7, <1>8
<1>10. {Cut(p) : p \in {Found(a) : a \in often}} = {Shown(a) : a \in Leads}
  <2> HIDE DEF Cut
  <2> QED BY <1>6, <1>9
<1>11. Learnt({Found(a) : a \in often})
  BY <1>10, LearntDef
<1> QED BY <1>5, <1>11 DEF bins, qs

\* A run that reads the whole log, whatever the order its rows were stored in,
\* learns what the log shows: which names followed a name often enough, with the
\* types asked for, although the loop over the queries is left early.
THEOREM LearnsTheLog == Spec => LearnsWhatFollows
<1>1. ASSUME TableInv, [Next]_vars, NEW r \in Run,
             pc[r] = "idle", pc'[r] = "begin", failures' = failures
      PROVE  Learnt(patterns'[r])
  <2> USE DEF TableInv, TypeOK
  <2>1. ASSUME NEW q \in Run, FetchSome(q) \/ Fail(q) PROVE failures' = failures + 1
    BY <2>1 DEF FetchSome, Fail
  <2>2. failures' # failures + 1
    BY <1>1, PatternsAssumption
  <2>3. ASSUME NEW q \in Run,
               BeginTx(q) \/ Delete(q) \/ Insert(q) \/ Commit(q) \/ Load(q)
        PROVE  pc'[r] # "begin"
    BY <1>1, <2>3 DEF BeginTx, Delete, Insert, Commit, Load, Goto
  <2>4. ASSUME NEW session \in Sessions, Flush(session) PROVE pc'[r] # "begin"
    BY <1>1, <2>4 DEF Flush, runs
  <2>5. Restart => pc'[r] # "begin"
    BY <1>1 DEF Restart, AtWork
  <2>6. (UNCHANGED vars) => pc'[r] # "begin"
    BY <1>1 DEF vars, runs
  <2>7. PICK q \in Run : Fetch(q)
    BY <1>1, <2>1, <2>2, <2>3, <2>4, <2>5, <2>6 DEF Next
  <2>8. q = r
    BY <1>1, <2>7 DEF Fetch, Learns, Goto
  <2> DEFINE found == findQueryPatterns(binQueries(fetchQueries))
  <2>9. Learnt(found)
    BY <1>1, WholeLogShows
  <2>10. patterns' = [patterns EXCEPT ![r] = found] /\ DOMAIN patterns = Run
    BY <1>1, <2>7, <2>8 DEF Fetch, Learns, LearntOK
  <2> HIDE DEF found
  <2>11. patterns'[r] = found
    BY <2>10
  <2> QED BY <2>9, <2>11
<1>2. TableInv /\ [Next]_vars =>
        [\A r \in Run : pc[r] = "idle" /\ pc'[r] = "begin" /\ failures' = failures
                        => Learnt(patterns'[r])]_vars
  BY <1>1
<1> QED BY <1>2, TableInvariance, PTL DEF Spec, LearnsWhatFollows
=============================================================================
