---------------------------- MODULE QueryPatterns ----------------------------
(***************************************************************************)
(* The query patterns of internal/dns/cache.go: which names are asked for  *)
(* soon after a name, learnt from the log of queries, stored in a table    *)
(* and kept in the map Prefetch that prefetchRelated of Resolver reads.    *)
(*                                                                         *)
(* UpdateQueryPatterns is a job of the scheduler, run at the start of the  *)
(* process and every day, and nothing keeps two runs apart.  Both tables   *)
(* are in one SQLite database: one connection at a time may write, a       *)
(* reader sees what has been committed, and a call that does not get the   *)
(* lock in time fails.  The process may die between any two steps.         *)
(***************************************************************************)
EXTENDS Integers, Sequences, FiniteSets, FiniteSetsExt, Selection

CONSTANTS
  Run,            \* bound: runs of UpdateQueryPatterns, over all lives
  NoRun,          \* no run at all
  Sessions,       \* what may be logged by one flush of the query log, in its order
  FlushInterval,  \* the time between two flushes, in seconds
  LookBack,       \* cache.query_patterns.look_back, in seconds
  MaxFlushes,     \* bound: flushes of the query log
  MaxFailures,    \* bound: calls of the database that fail
  MaxRestarts     \* bound: deaths of the process

ASSUME PatternsAssumption ==
  /\ NoRun \notin Run
  /\ {FlushInterval, LookBack, MaxFlushes, MaxFailures, MaxRestarts} \subseteq Nat
  /\ \A session \in Sessions :
       /\ Len(session) \in Nat /\ DOMAIN session = 1..Len(session)
       /\ \A i \in DOMAIN session : session[i].after \in Int

VARIABLES
  now,       \* the time, in seconds
  queries,   \* the table queries, in the order in which its rows were stored
  stored,    \* the committed rows of the table query_patterns
  pc,        \* where a run is
  patterns,  \* the patterns a run has found
  batch,     \* the rows a run has inserted in its open transaction
  writer,    \* the run whose transaction holds the lock for writing
  Prefetch,  \* the map in memory: name -> related name -> types to ask for
  follow,    \* cache.query_patterns.follow
  failures, restarts

database == <<queries, stored, writer>>
runs     == <<pc, patterns, batch>>
process  == <<Prefetch, follow>>
vars     == <<now, database, runs, process, failures, restarts>>

-----------------------------------------------------------------------------
(* What is learnt from the log.                                             *)

\* SELECT ... WHERE: not blocked, NOERROR, a known type, recent enough.
Recent(q) == q.answered /\ q.time >= now - LookBack

\* Mutant: the order in which the queries were stored, that is, answered.
AsStored(qs) == qs

\* ORDER BY timestamp; rows of one instant come as they were stored.
ByTime(qs) ==
  LET Before(i, j) == qs[i].time < qs[j].time \/ (qs[i].time = qs[j].time /\ i < j)
      rank == [i \in DOMAIN qs |-> 1 + Cardinality({j \in DOMAIN qs : Before(j, i)})]
  IN  [k \in DOMAIN qs |-> qs[CHOOSE i \in DOMAIN qs : rank[i] = k]]

\* Mutant: no more than four fifths, an off-by-one at the boundary.
MostOf(count, maxCount) == 5 * count > 4 * maxCount

fetchQueries == ByTime(Select(queries, {q \in RangeOf(queries) : Recent(q)}))

Window == 5
MinOccurrences == 5
OftenEnough(count, maxCount) == 5 * count >= 4 * maxCount

Relevant(qs, i, j) == qs[j].host = qs[i].host /\ qs[j].domain # qs[i].domain

\* The positions the inner loop counts for the lead at i: it goes on from i
\* until it meets a relevant query that is too late.
Observed(qs, i) ==
  LET Late(j) == Relevant(qs, i, j) /\ qs[j].time > qs[i].time + Window
  IN  {j \in i..Len(qs) : Relevant(qs, i, j) /\ \A k \in i..j : ~Late(k)}

\* name -> name observed after it -> how often, and with which types
binQueries(qs) ==
  LET pairs == UNION {{[lead |-> qs[i].domain, at |-> i, query |-> qs[j], pos |-> j] :
                         j \in Observed(qs, i)} : i \in DOMAIN qs}
      After(lead) == {p \in pairs : p.lead = lead}
      Bin(ps) == [d \in {p.query.domain : p \in ps} |->
                    LET Of == {p \in ps : p.query.domain = d}
                    IN  [count |-> Cardinality(Of), types |-> {p.query.type : p \in Of}]]
  IN  [lead \in {qs[i].domain : i \in DOMAIN qs} |-> Bin(After(lead))]

MaxCount(bin) == Max({0} \cup {bin[d].count : d \in DOMAIN bin})

PatternOf(lead, bin, maxCount) ==
  [domain |-> lead, occurrences |-> maxCount,
   prefetch |-> [d \in {e \in DOMAIN bin : OftenEnough(bin[e].count, maxCount)} |->
                   bin[d].types]]

\* Mutant: names that were seldom followed by anything have patterns too.
Untested(bins) ==
  {PatternOf(lead, bins[lead], MaxCount(bins[lead])) : lead \in DOMAIN bins}

findQueryPatterns(bins) ==
  {PatternOf(lead, bins[lead], MaxCount(bins[lead])) :
     lead \in {d \in DOMAIN bins : MaxCount(bins[d]) >= MinOccurrences}}

-----------------------------------------------------------------------------
(* The table, and the map made of it.                                       *)

\* A row, and the run that stored it (which the table does not keep).
Row(r, pattern) == [domain |-> pattern.domain, prefetch |-> pattern.prefetch, by |-> r]

\* Row by row: a later row for a name replaces an earlier one.
AsMap(rows) ==
  [d \in {rows[i].domain : i \in DOMAIN rows} |->
     rows[Max({i \in DOMAIN rows : rows[i].domain = d})].prefetch]

Nothing == AsMap(<<>>)

AtWork(r) == pc[r] \notin {"idle", "done", "failed"}

\* Mutant: the rows are read into the old map instead of a new one.
LoadIntoOld ==
  [d \in DOMAIN Prefetch \cup DOMAIN AsMap(stored) |->
     IF d \in DOMAIN AsMap(stored) THEN AsMap(stored)[d] ELSE Prefetch[d]]

\* loadQueryPatterns, when the SELECT succeeds.
loadQueryPatterns == AsMap(stored)

Init ==
  /\ now = 0 /\ queries = <<>> /\ stored = <<>> /\ writer = NoRun
  /\ pc = [r \in Run |-> "idle"]
  /\ patterns = [r \in Run |-> {}]
  /\ batch = [r \in Run |-> <<>>]
  /\ Prefetch = Nothing
  /\ follow \in BOOLEAN
  /\ failures = 0 /\ restarts = 0

-----------------------------------------------------------------------------
(* A run of UpdateQueryPatterns.                                            *)

Goto(r, place) == pc' = [pc EXCEPT ![r] = place]

Learns(r, qs) ==
  /\ pc[r] = "idle" /\ follow
  /\ patterns' = [patterns EXCEPT ![r] = findQueryPatterns(binQueries(qs))]
  /\ Goto(r, "begin")
  /\ UNCHANGED <<now, database, batch, process, restarts>>

Fetch(r) == Learns(r, fetchQueries) /\ UNCHANGED failures

\* fetchQueries does not ask rows.Err: when reading fails in the middle, the
\* rows read so far pass for all of them.
FetchSome(r) ==
  /\ failures < MaxFailures /\ failures' = failures + 1
  /\ \E n \in 0..Len(fetchQueries) - 1 : Learns(r, SubSeq(fetchQueries, 1, n))

\* DB.Begin: SQLite takes no lock until the transaction writes.
BeginTx(r) ==
  /\ pc[r] = "begin"
  /\ Goto(r, "delete")
  /\ UNCHANGED <<now, database, patterns, batch, process, failures, restarts>>

\* DB.Exec, not tx.Exec: on a connection of its own, and committed at once.
Delete(r) ==
  /\ pc[r] = "delete" /\ writer = NoRun
  /\ stored' = <<>>
  /\ Goto(r, "insert")
  /\ UNCHANGED <<now, queries, writer, patterns, batch, process, failures, restarts>>

Uninserted(r) ==
  {p \in patterns[r] : \A i \in DOMAIN batch[r] : batch[r][i].domain # p.domain}

MayWrite(r) == writer \in {NoRun, r}

\* Mutant: a statement prepared on DB commits every row by itself.
InsertDirectly(r) ==
  /\ pc[r] = "insert" /\ MayWrite(r)
  /\ \E p \in Uninserted(r) :
       /\ batch' = [batch EXCEPT ![r] = Append(@, Row(r, p))]
       /\ stored' = Append(stored, Row(r, p))
  /\ UNCHANGED <<now, queries, writer, pc, patterns, process, failures, restarts>>

\* The most frequent first, in any order among equals.
Insert(r) ==
  /\ pc[r] = "insert" /\ MayWrite(r)
  /\ \E p \in Uninserted(r) :
       /\ \A q \in Uninserted(r) : q.occurrences <= p.occurrences
       /\ batch' = [batch EXCEPT ![r] = Append(@, Row(r, p))]
  /\ writer' = r
  /\ UNCHANGED <<now, queries, stored, pc, patterns, process, failures, restarts>>

\* A transaction that has inserted nothing needs no lock to commit.
Commit(r) ==
  /\ pc[r] = "insert" /\ Uninserted(r) = {}
  /\ stored' = stored \o batch[r]
  /\ batch' = [batch EXCEPT ![r] = <<>>]
  /\ writer' = IF writer = r THEN NoRun ELSE writer
  /\ Goto(r, "load")
  /\ UNCHANGED <<now, queries, patterns, process, failures, restarts>>

Load(r) ==
  /\ pc[r] = "load"
  /\ Prefetch' = loadQueryPatterns
  /\ Goto(r, "done")
  /\ UNCHANGED <<now, database, patterns, batch, follow, failures, restarts>>

\* Mutant: a transaction that failed is not rolled back.
LeaveOpen(r) == UNCHANGED <<batch, writer>>

\* tx.Rollback after a failed statement; after a failed COMMIT the driver's own.
\* Nothing has been written when the DELETE fails, and no lock is held then.
Rollback(r) ==
  /\ batch' = [batch EXCEPT ![r] = <<>>]
  /\ writer' = IF writer = r THEN NoRun ELSE writer

\* Any call of the database may fail: the fetch, Begin, the DELETE, Prepare, an
\* insert, the commit, the load.  The run returns and leaves Prefetch alone.
Fail(r) ==
  /\ failures < MaxFailures /\ failures' = failures + 1
  /\ AtWork(r) \/ (pc[r] = "idle" /\ follow)
  /\ Rollback(r)
  /\ Goto(r, "failed")
  /\ UNCHANGED <<now, queries, stored, patterns, process, restarts>>

-----------------------------------------------------------------------------
(* Around the runs.                                                         *)

\* The query log stores what was asked since the last flush.
Flush(session) ==
  /\ now < MaxFlushes * FlushInterval /\ writer = NoRun
  /\ queries' = queries \o [i \in DOMAIN session |->
       [host |-> session[i].host, domain |-> session[i].domain, type |-> session[i].type,
        time |-> now + session[i].after, answered |-> session[i].answered]]
  /\ now' = now + FlushInterval
  /\ UNCHANGED <<stored, writer, runs, process, failures, restarts>>

\* The process dies and starts again, perhaps with another configuration.  Open
\* transactions are lost; NewCache loads the table and ignores an error.
Restart ==
  /\ restarts < MaxRestarts /\ restarts' = restarts + 1
  /\ pc' = [r \in Run |-> IF AtWork(r) THEN "failed" ELSE pc[r]]
  /\ batch' = [r \in Run |-> <<>>]
  /\ writer' = NoRun
  /\ follow' \in BOOLEAN
  /\ \/ /\ Prefetch' = IF follow' THEN loadQueryPatterns ELSE Nothing
        /\ UNCHANGED failures
     \/ /\ failures < MaxFailures /\ failures' = failures + 1 /\ follow'
        /\ Prefetch' = Nothing
  /\ UNCHANGED <<now, queries, stored, patterns>>

Next ==
  \/ \E r \in Run : \/ Fetch(r) \/ FetchSome(r) \/ BeginTx(r) \/ Delete(r) \/ Insert(r)
                    \/ Commit(r) \/ Load(r) \/ Fail(r)
  \/ \E session \in Sessions : Flush(session)
  \/ Restart

Spec == Init /\ [][Next]_vars

-----------------------------------------------------------------------------
Pattern(p) == /\ DOMAIN p = {"domain", "occurrences", "prefetch"}
              /\ p.occurrences \in Nat /\ p.occurrences >= MinOccurrences

\* The types of the variables.  A run has a transaction with rows only while it
\* inserts, and holds the lock exactly while it has one.
TypeOK ==
  /\ now \in Nat /\ writer \in Run \cup {NoRun} /\ follow \in BOOLEAN
  /\ failures \in 0..MaxFailures /\ restarts \in 0..MaxRestarts
  /\ pc \in [Run -> {"idle", "begin", "delete", "insert", "load", "done", "failed"}]
  /\ \A r \in Run : \A p \in patterns[r] : Pattern(p)
  /\ \A r \in Run : batch[r] # <<>> <=> writer = r
  /\ \A i \in DOMAIN stored : stored[i].by \in Run

-----------------------------------------------------------------------------
(* Properties.                                                              *)

\* The queries that followed one for another name: same client, at most five
\* seconds.  Whether they did is read off the table, in no particular order.
Follows ==
  LET log == {i \in DOMAIN queries : Recent(queries[i])}
      Later(i, j) == \/ queries[i].time < queries[j].time
                     \/ queries[i].time = queries[j].time /\ i < j
  IN  {ij \in log \X log :
         LET first == queries[ij[1]]  second == queries[ij[2]]
         IN  /\ first.domain # second.domain /\ first.host = second.host
             /\ Later(ij[1], ij[2]) /\ second.time - first.time <= Window}

Names == {queries[i].domain : i \in DOMAIN queries}

\* What a run that reads the whole log learns is what the log shows, whatever the
\* order its rows were stored in (slow answers are logged late) and although
\* binQueries leaves its loop early: a name has a pattern if another one followed
\* it five times, and with it are fetched the names that followed at least four
\* fifths as often as the most frequent one, with the types asked for.
Learnt(learnt) ==
  LET follows == Follows
      Of(a, b) == {ij \in follows : queries[ij[1]].domain = a /\ queries[ij[2]].domain = b}
      times == [a \in Names |-> [b \in Names |-> Cardinality(Of(a, b))]]
      Typical(a) == {b \in Names : /\ times[a][b] > 0
                                   /\ \A c \in Names : 5 * times[a][b] >= 4 * times[a][c]}
      leads == {a \in Names : \E b \in Names : times[a][b] >= 5}
  IN  {[domain |-> p.domain, prefetch |-> p.prefetch] : p \in learnt} =
        {[domain |-> a,
          prefetch |-> [b \in Typical(a) |-> {queries[ij[2]].type : ij \in Of(a, b)}]] :
           a \in leads}

LearnsWhatFollows ==
  [][\A r \in Run : pc[r] = "idle" /\ pc'[r] = "begin" /\ failures' = failures
                    => Learnt(patterns'[r])]_vars

\* Runs that overlap, fail or die leave no part of a result behind: of the rows
\* of a run the table has all or none, although the DELETE is not part of the
\* transaction that inserts them.
BatchesAreWhole ==
  \A r \in Run :
    LET own == {i \in DOMAIN stored : stored[i].by = r}
    IN  own = {} \/ {stored[i] : i \in own} = {Row(r, p) : p \in patterns[r]}

\* When nothing has failed and no run is under way, what is prefetched is what is
\* stored, however the steps of the runs and the restarts were interleaved.  And
\* unless the process died it has a value for every name in the result of some
\* run that ended: the DELETE of one run never undoes the others for good.
InStepWhenQuiet ==
  (failures = 0 /\ \A r \in Run : ~AtWork(r)) =>
    /\ Prefetch = IF follow THEN AsMap(stored) ELSE Nothing
    /\ (restarts = 0 /\ \E r \in Run : pc[r] = "done") =>
         \E r \in Run : /\ pc[r] = "done"
                        /\ \A p \in patterns[r] : p.domain \in DOMAIN Prefetch

\* The lock of the database, without which the query log cannot store anything,
\* is held by a run only while that run is inserting: no failure and no death of
\* the process leaves it held.
LockIsReturned == writer # NoRun => pc[writer] = "insert"
=============================================================================
