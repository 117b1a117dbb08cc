--------------------------- MODULE QueryLoggerProofs ---------------------------
(* Theorems about QueryLogger, for every value of its constants: any number of *)
(* queries, watchers, failures of the database and deaths of the process.      *)
EXTENDS QueryLogger, SelectionProofs

-----------------------------------------------------------------------------
(* The inductive invariant *)

\* A step of a watcher leaves the log alone.
LogAtRest == UNCHANGED <<history, inbox, items, worker, iter, txn, disk, failures, crashes>>

\* The worker holds a query from taking it to having announced it, and while it
\* inserts it; it is broadcasting that very query.
HandOK ==
  /\ wpc \in {"append", "announce", "announcing", "exec"} => hand \in Query
  /\ current = IF wpc = "announcing" THEN hand ELSE Nil
  /\ current = Nil => offers = {}

\* A channel is closed by its own watcher, and a watcher that writes has a query.
ChannelsOK ==
  /\ NoSendOnClosed
  /\ \A s \in Sub : s \in closed => watcher[s] = "gone"
  /\ \A s \in Sub : IF watcher[s] = "write" THEN inHand[s] \in Query ELSE inHand[s] = Nil

\* A flush works on a queue that is not empty and does not change; the rows of its
\* transaction are the items that its iterator has handed over, and once the
\* iterator is through they are all of them.
FlushOK ==
  /\ wpc \in {"begin", "prepare", "receive", "exec", "commit", "clear"} => items # <<>>
  /\ wpc \notin {"receive", "exec"} => ipc = "none"
  /\ wpc \notin {"receive", "exec", "commit"} => txn = <<>>
  /\ wpc = "receive" => ipos \in 1..(Len(items) + 1) /\ txn = SubSeq(items, 1, ipos - 1)
  /\ wpc = "exec" => ipos \in 2..(Len(items) + 1) /\ Append(txn, hand) = SubSeq(items, 1, ipos - 1)
  /\ (wpc \in {"receive", "exec"} /\ ipc = "none") => ipos = Len(items) + 1
  /\ ipc = "start" => wpc = "receive" /\ ipos = 1
  /\ wpc = "commit" => txn = items

TypeInv == TypeOK /\ HandOK /\ ChannelsOK /\ FlushOK

-----------------------------------------------------------------------------
(* What the steps come to, for the log as a whole and for one watcher *)

\* What has left the channel and is not in the table.
Ahead ==
  (IF wpc = "clear" THEN <<>> ELSE items) \o (IF wpc = "append" THEN <<hand>> ELSE <<>>)

\* A query is accepted, or dropped.
AskStep ==
  /\ logged' = logged + 1 /\ logged' \in Query
  /\ \/ UNCHANGED <<accepted, Pending>>
     \/ accepted' = Append(accepted, logged') /\ Pending' = Append(Pending, logged')
  /\ UNCHANGED <<db, expired, lost>>

\* The whole queue is written.
WriteStep ==
  /\ items # <<>>
  /\ db' = db \o items
  /\ Pending = items \o queryChan /\ Pending' = queryChan
  /\ UNCHANGED <<logged, accepted, expired, lost>>

AgeStep ==
  /\ expired < logged /\ expired' = expired + 1
  /\ UNCHANGED <<logged, accepted, Pending, db, lost>>

PurgeStep ==
  /\ db' = Select(db, {q \in Query : q > expired})
  /\ UNCHANGED <<logged, accepted, Pending, expired, lost>>

DieStep ==
  /\ Pending' = <<>>
  /\ lost' = lost \cup {q \in RangeOf(accepted) : q > expired /\ q \notin RangeOf(db)}
  /\ UNCHANGED <<logged, accepted, db, expired>>

QuietStep == UNCHANGED <<logged, accepted, Pending, db, expired, lost>>

LogStep == AskStep \/ WriteStep \/ AgeStep \/ PurgeStep \/ DieStep \/ QuietStep

\* What a watcher was shown, what it writes and what its channel holds.
InHand(s) == IF inHand[s] = Nil THEN <<>> ELSE <<inHand[s]>>
Seen(s) == shown[s] \o InHand(s) \o buffer[s]

\* What it may yet be offered by this process.
Upcoming(s) ==
  (IF wpc \in {"append", "announce"} \/ s \in offers THEN {hand} ELSE {}) \cup RangeOf(queryChan)

\* A watcher is offered the query being announced.
SeesMore(s) ==
  /\ wpc = "announcing" /\ s \in offers
  /\ Seen(s)' = Append(Seen(s), hand)
  /\ Upcoming(s)' \subseteq RangeOf(queryChan)

\* Something that it has not been shown goes.
SeesLess(s) ==
  /\ \E a, b, c \in Seq(Query) : Seen(s) = a \o b \o c /\ Seen(s)' = a \o c
  /\ Upcoming(s)' \subseteq Upcoming(s)

SeesNoMore(s) ==
  /\ Seen(s)' = Seen(s)
  /\ Upcoming(s)' \subseteq Upcoming(s) \cup (IF logged' = logged THEN {} ELSE {logged'})

Sees(s) == SeesMore(s) \/ SeesLess(s) \/ SeesNoMore(s)

-----------------------------------------------------------------------------
(* The order of queries *)

\* The table and what waits for it are in the order of the calls of Log.
InOrder ==
  /\ Ascending(db \o Pending)
  /\ RangeOf(db \o Pending) \subseteq 1..logged
  /\ RangeOf(Pending) \subseteq RangeOf(accepted)

\* What was committed is in the table when the queue is cleared, and a query is in
\* the queue before it is announced.
QueueOK ==
  /\ RangeOf(items) \subseteq RangeOf(accepted)
  /\ wpc = "clear" => \A q \in RangeOf(items) : q > expired => q \in RangeOf(db)
  /\ wpc \in {"announce", "announcing"} => hand \in RangeOf(items)

OrderInv == TypeInv /\ InOrder /\ QueueOK

\* A query that is not too old and has not died with a process is in the log.
Recorded(q) == q > expired => q \in lost \cup RangeOf(items) \cup RangeOf(db)

\* A watcher sees queries in order, after they came into the log.
ViewOK ==
  \A s \in Sub :
    /\ Ascending(Seen(s)) /\ RangeOf(Seen(s)) \subseteq 1..logged
    /\ \A x \in RangeOf(Seen(s)), y \in Upcoming(s) : x < y
    /\ \A q \in RangeOf(Seen(s)) : Recorded(q)

-----------------------------------------------------------------------------
(* Types *)

\* Every query is a number, and no number is Nil.
LEMMA QueryFacts == Query \subseteq Nat /\ Nil \notin Query /\ MaxQueries \in Nat
BY QueryLoggerAssumption DEF Query

\* How sequences of queries are built and taken apart.
LEMMA QueueFacts ==
  /\ <<>> \in Seq(Query) /\ Len(<<>>) = 0
  /\ \A s \in Seq(Query) :
       /\ Len(s) \in Nat
       /\ \A x \in Query : Append(s, x) \in Seq(Query) /\ Len(Append(s, x)) = Len(s) + 1
       /\ \A t \in Seq(Query) : s \o t \in Seq(Query)
       /\ s # <<>> => Head(s) \in Query /\ Tail(s) \in Seq(Query) /\ Len(Tail(s)) <= Len(s)
       /\ \A i \in 1..Len(s) : s[i] \in Query
OBVIOUS

\* What is in the sequences that are built of others.
LEMMA RangeFacts ==
  /\ RangeOf(<<>>) = {}
  /\ \A s \in Seq(Query), x \in Query : RangeOf(Append(s, x)) = RangeOf(s) \cup {x}
  /\ \A s, t \in Seq(Query) : RangeOf(s \o t) = RangeOf(s) \cup RangeOf(t)
BY RangeEmpty, RangeAppend, RangeConcat

\* The types of the variables whose values are sequences or functions, one by one.
LEMMA Types ==
  ASSUME TypeOK
  PROVE  /\ accepted \in Seq(Query) /\ queryChan \in Seq(Query) /\ items \in Seq(Query)
         /\ txn \in Seq(Query) /\ db \in Seq(Query)
         /\ buffer \in [Sub -> Seq(Query)] /\ shown \in [Sub -> Seq(Query)]
         /\ inHand \in [Sub -> Query \cup {Nil}]
         /\ watcher \in [Sub -> {"none", "range", "write", "unsubscribe", "gone"}]
BY DEF TypeOK, B!TypeOK, B!WatcherPlace

\* A flush that is given up leaves an empty transaction.
LEMMA AbortTypes ==
  ASSUME TypeOK, Abort
  PROVE  /\ txn' = <<>> /\ txn' \in Seq(Query) /\ failures' \in 0..MaxFailures
         /\ wpc' \in WorkerPlace /\ wpc' \in {"stopped", "select"} /\ stopping' = stopping
<1>1. failures \in 0..MaxFailures /\ failures < MaxFailures /\ failures' = failures + 1
  BY DEF Abort, MayFail, TypeOK
<1>2. failures' \in 0..MaxFailures
  BY <1>1, QueryLoggerAssumption
<1>3. txn' = <<>>
  BY DEF Abort
<1> QED BY <1>2, <1>3, QueueFacts DEF Abort, LeaveFlush, Goto, WorkerPlace

\* No step leaves the types.
LEMMA TypeStep == TypeInv /\ [Next]_vars => TypeOK'
<1> SUFFICES ASSUME TypeInv, [Next]_vars PROVE TypeOK'
  OBVIOUS
<1> USE QueryFacts, QueryLoggerAssumption DEF TypeInv, history, inbox, worker,
         iter, disk, bvars, vars
<1>1. ASSUME Log PROVE TypeOK'
  <2>1. logged' \in Query /\ logged' \in 0..MaxQueries /\ expired \in 0..logged'
    BY <1>1 DEF Log, TypeOK, Query
  <2>2. queryChan' \in Seq(Query) /\ accepted' \in Seq(Query) /\ Len(queryChan') <= ChanCap
    <3>1. CASE HasRoom
      <4>1. Len(queryChan) \in Nat /\ Len(queryChan) < ChanCap /\ ChanCap \in Nat
        BY <3>1, Types, QueueFacts DEF HasRoom
      <4>2. queryChan' = Append(queryChan, logged') /\ accepted' = Append(accepted, logged')
        BY <1>1, <3>1 DEF Log
      <4>3. Len(queryChan') = Len(queryChan) + 1 /\ queryChan' \in Seq(Query) /\ accepted' \in Seq(Query)
        BY <4>2, <2>1, Types, QueueFacts
      <4> QED BY <4>1, <4>3
    <3>2. CASE ~HasRoom
      BY <1>1, <3>2, Types DEF Log, TypeOK
    <3> QED BY <3>1, <3>2
  <2> QED BY <1>1, <2>1, <2>2 DEF Log, TypeOK, B!TypeOK
<1>2. ASSUME TickerFires PROVE TypeOK'
  BY <1>2 DEF TickerFires, TypeOK, WorkerPlace, B!TypeOK, B!WatcherPlace
<1>3. ASSUME Shutdown PROVE TypeOK'
  BY <1>3 DEF Shutdown, TypeOK, WorkerPlace, B!TypeOK, B!WatcherPlace
<1>4. ASSUME TakeQuery PROVE TypeOK'
  BY SMTT(20), <1>4 DEF TakeQuery, Goto, TypeOK, WorkerPlace, B!TypeOK, B!WatcherPlace
<1>5. ASSUME AppendQuery PROVE TypeOK'
  <2>1. items' \in Seq(Query)
    BY <1>5, Types, QueueFacts DEF AppendQuery, HandOK
  <2> QED BY <1>5, <2>1 DEF AppendQuery, Goto, TypeOK, WorkerPlace, B!TypeOK
<1>6. ASSUME Announce PROVE TypeOK'
  BY <1>6 DEF Announce, Goto, B!Broadcast, TypeOK, WorkerPlace, B!TypeOK,
         B!WatcherPlace
<1>7. ASSUME NEW s \in Sub, OfferTo(s) PROVE TypeOK'
  <2>1. current \in Query
    BY <1>7 DEF OfferTo, B!Offer, HandOK, TypeOK, B!TypeOK
  <2>2. Append(buffer[s], current) \in Seq(Query)
    BY <2>1, Types, QueueFacts
  <2>3. buffer' \in [Sub -> Seq(Query)]
    BY <1>7, <2>2, Types DEF OfferTo, B!Offer
  <2> QED BY <1>7, <2>3 DEF OfferTo, B!Offer, TypeOK, B!TypeOK
<1>8. ASSUME Announced PROVE TypeOK'
  BY <1>8 DEF Announced, Goto, B!BroadcastDone, TypeOK, WorkerPlace, B!TypeOK,
         B!WatcherPlace
<1>9. ASSUME TakeTick PROVE TypeOK'
  BY <1>9 DEF TakeTick, Goto, TypeOK, WorkerPlace, B!TypeOK, B!WatcherPlace
<1>10. ASSUME TakeShutdown PROVE TypeOK'
  BY <1>10 DEF TakeShutdown, TypeOK, WorkerPlace, B!TypeOK, B!WatcherPlace
<1>11. ASSUME Begin PROVE TypeOK'
  <2>1. /\ txn' \in Seq(Query) /\ failures' \in 0..MaxFailures
        /\ wpc' \in WorkerPlace /\ stopping' = stopping
    <3>1. CASE Abort
      BY <3>1, AbortTypes
    <3>2. CASE Goto("prepare") /\ UNCHANGED <<txn, failures>>
      BY <3>2, Types DEF Goto, TypeOK, WorkerPlace
    <3> QED BY <1>11, <3>1, <3>2 DEF Begin
  <2> QED BY <1>11, <2>1 DEF Begin, TypeOK, B!TypeOK
<1>12. ASSUME Prepare PROVE TypeOK'
  <2>1. /\ txn' \in Seq(Query) /\ failures' \in 0..MaxFailures
        /\ wpc' \in WorkerPlace /\ stopping' = stopping
        /\ ipc' \in {"none", "start", "send"} /\ ipos' \in Nat
    <3>1. CASE Abort /\ UNCHANGED <<ipc, ipos>>
      BY <3>1, AbortTypes DEF TypeOK
    <3>2. CASE /\ Goto("receive") /\ ipc' = "start" /\ ipos' = 1
               /\ UNCHANGED <<txn, failures>>
      BY <3>2, Types DEF Goto, TypeOK, WorkerPlace
    <3> QED BY <1>12, <3>1, <3>2 DEF Prepare
  <2> QED BY <1>12, <2>1 DEF Prepare, TypeOK, B!TypeOK
<1>13. ASSUME HandOver PROVE TypeOK'
  <2>1. ipos \in 1..Len(items)
    BY <1>13 DEF HandOver, FlushOK
  <2>2. hand' \in Query /\ ipos' \in Nat
    BY <1>13, <2>1, Types, QueueFacts DEF HandOver
  <2> QED BY <1>13, <2>2 DEF HandOver, Goto, TypeOK, WorkerPlace, B!TypeOK
<1>14. ASSUME Exec PROVE TypeOK'
  <2>1. CASE txn' = Append(txn, hand) /\ Goto("receive") /\ UNCHANGED <<iter, failures>>
    <3>1. txn' \in Seq(Query)
      BY <1>14, <2>1, Types, QueueFacts DEF Exec, HandOK
    <3> QED BY <1>14, <2>1, <3>1 DEF Exec, Goto, TypeOK, WorkerPlace, B!TypeOK
  <2>2. CASE /\ Abort /\ ipc' = "none"
             /\ leaked' = (leaked \/ ipos <= Len(items))
             /\ closing' = IF ipc = "send" /\ ipos > Len(items) THEN closing + 1 ELSE closing
             /\ UNCHANGED ipos
    <3>1. leaked' \in BOOLEAN
      BY <2>2
    <3>2. closing' \in Nat
      BY <2>2 DEF TypeOK
    <3> QED BY <1>14, <2>2, <3>1, <3>2, AbortTypes DEF Exec, TypeOK, B!TypeOK
  <2> QED BY <1>14, <2>1, <2>2 DEF Exec
<1>15. ASSUME RangeEnds PROVE TypeOK'
  BY <1>15 DEF RangeEnds, Goto, TypeOK, WorkerPlace, B!TypeOK, B!WatcherPlace
<1>16. ASSUME Commit PROVE TypeOK'
  <2>1. CASE db' = db \o txn /\ txn' = <<>> /\ Goto("clear") /\ UNCHANGED failures
    <3>1. db' \in Seq(Query) /\ txn' \in Seq(Query)
      BY <2>1, Types, QueueFacts
    <3> QED BY <1>16, <2>1, <3>1 DEF Commit, Goto, TypeOK, WorkerPlace, B!TypeOK
  <2>2. CASE Abort /\ UNCHANGED db
    BY <1>16, <2>2, AbortTypes DEF Commit, TypeOK, B!TypeOK
  <2> QED BY <1>16, <2>1, <2>2 DEF Commit
<1>17. ASSUME Clear PROVE TypeOK'
  BY <1>17 DEF Clear, Goto, LeaveFlush, TypeOK, WorkerPlace, B!TypeOK,
         B!WatcherPlace
<1>18. ASSUME IteratorLocks PROVE TypeOK'
  BY <1>18 DEF IteratorLocks, TypeOK, WorkerPlace, B!TypeOK, B!WatcherPlace
<1>19. ASSUME IteratorCloses PROVE TypeOK'
  BY <1>19 DEF IteratorCloses, TypeOK, WorkerPlace, B!TypeOK, B!WatcherPlace
<1>20. ASSUME IteratorUnlocks PROVE TypeOK'
  BY <1>20 DEF IteratorUnlocks, TypeOK, WorkerPlace, B!TypeOK, B!WatcherPlace
<1>21. ASSUME GrowsOld PROVE TypeOK'
  BY <1>21 DEF GrowsOld, TypeOK, WorkerPlace, B!TypeOK, B!WatcherPlace
<1>22. ASSUME DeleteOldQueries PROVE TypeOK'
  <2>1. db' \in Seq(Query)
    BY <1>22, Types, SelectType DEF DeleteOldQueries
  <2> QED BY <1>22, <2>1 DEF DeleteOldQueries, TypeOK, B!TypeOK
<1>23. ASSUME Restart PROVE TypeOK'
  <2>1. lost' \in SUBSET Query
    <3>1. RangeOf(accepted) \subseteq Query
      BY Types, RangeType
    <3> QED BY <1>23, <3>1 DEF Restart, TypeOK
  <2>2. /\ buffer' \in [Sub -> Seq(Query)] /\ inHand' \in [Sub -> Query \cup {Nil}]
        /\ watcher' \in [Sub -> B!WatcherPlace]
    BY <1>23, Types DEF Restart, B!WatcherPlace
  <2>3. crashes' \in 0..MaxCrashes
    <3>1. crashes \in 0..MaxCrashes /\ crashes < MaxCrashes /\ crashes' = crashes + 1
      BY <1>23 DEF Restart, TypeOK
    <3> QED BY <3>1
  <2>4. /\ queryChan' \in Seq(Query) /\ Len(queryChan') <= ChanCap
        /\ items' \in Seq(Query) /\ txn' \in Seq(Query)
    BY <1>23, QueueFacts DEF Restart
  <2> QED BY <1>23, <2>1, <2>2, <2>3, <2>4 DEF Restart, TypeOK, WorkerPlace, B!TypeOK
<1>24. ASSUME NEW s \in Sub, B!Subscribe(s), LogAtRest PROVE TypeOK'
  BY <1>24 DEF B!Subscribe, LogAtRest, TypeOK, WorkerPlace, B!TypeOK,
         B!WatcherPlace
<1>25. ASSUME NEW s \in Sub, B!Receive(s), LogAtRest PROVE TypeOK'
  <2>1. Head(buffer[s]) \in Query /\ Tail(buffer[s]) \in Seq(Query)
    BY <1>25, Types, QueueFacts DEF B!Receive
  <2>2. /\ buffer' \in [Sub -> Seq(Query)] /\ inHand' \in [Sub -> Query \cup {Nil}]
        /\ watcher' \in [Sub -> B!WatcherPlace]
    BY <1>25, <2>1, Types DEF B!Receive, B!WatcherPlace
  <2> QED BY <1>25, <2>2 DEF B!Receive, LogAtRest, TypeOK, B!TypeOK
<1>26. ASSUME NEW s \in Sub, B!WriteJSON(s), LogAtRest PROVE TypeOK'
  <2>1. inHand[s] \in Query
    BY <1>26 DEF B!WriteJSON, ChannelsOK
  <2>2. Append(shown[s], inHand[s]) \in Seq(Query)
    BY <2>1, Types, QueueFacts
  <2>3. /\ shown' \in [Sub -> Seq(Query)] /\ inHand' \in [Sub -> Query \cup {Nil}]
        /\ watcher' \in [Sub -> B!WatcherPlace]
    BY <1>26, <2>2, Types DEF B!WriteJSON, B!WatcherPlace
  <2> QED BY <1>26, <2>3 DEF B!WriteJSON, LogAtRest, TypeOK, B!TypeOK
<1>27. ASSUME NEW s \in Sub, B!Unsubscribe(s), LogAtRest PROVE TypeOK'
  BY <1>27 DEF B!Unsubscribe, LogAtRest, TypeOK, WorkerPlace, B!TypeOK,
         B!WatcherPlace
<1>28. ASSUME UNCHANGED vars PROVE TypeOK'
  BY <1>28 DEF TypeOK, WorkerPlace, B!TypeOK, B!WatcherPlace
<1> QED
  BY <1>1, <1>2, <1>3, <1>4, <1>5, <1>6, <1>7, <1>8, <1>9, <1>10, <1>11, <1>12,
         <1>13, <1>14, <1>15, <1>16, <1>17, <1>18, <1>19, <1>20, <1>21, <1>22,
         <1>23, <1>24, <1>25, <1>26, <1>27, <1>28
     DEF Next, Worker, Iterator, Watchers, LogAtRest, B!Watch

\* The worker holds a query where it needs one.
LEMMA HandStep == TypeInv /\ [Next]_vars => HandOK'
<1> SUFFICES ASSUME TypeInv, [Next]_vars PROVE HandOK'
  OBVIOUS
<1> USE QueryFacts, Types DEF TypeInv, history, inbox, worker, iter, disk,
         bvars, vars
<1>1. ASSUME Log PROVE HandOK'
  BY <1>1 DEF Log, HasRoom, HandOK, TypeOK, WorkerPlace, B!TypeOK
<1>2. ASSUME TickerFires PROVE HandOK'
  BY <1>2 DEF TickerFires, HandOK, TypeOK, WorkerPlace, B!TypeOK
<1>3. ASSUME Shutdown PROVE HandOK'
  BY <1>3 DEF Shutdown, HandOK, TypeOK, WorkerPlace, B!TypeOK
<1>4. ASSUME TakeQuery PROVE HandOK'
  BY <1>4 DEF TakeQuery, Goto, HandOK, TypeOK, WorkerPlace, B!TypeOK
<1>5. ASSUME AppendQuery PROVE HandOK'
  BY <1>5 DEF AppendQuery, Goto, HandOK, TypeOK, WorkerPlace, B!TypeOK
<1>6. ASSUME Announce PROVE HandOK'
  BY <1>6 DEF Announce, Goto, B!Broadcast, HandOK, TypeOK, WorkerPlace, B!TypeOK
<1>7. ASSUME NEW s \in Sub, OfferTo(s) PROVE HandOK'
  BY <1>7 DEF OfferTo, B!Offer, B!HasRoom, HandOK, TypeOK, WorkerPlace, B!TypeOK
<1>8. ASSUME Announced PROVE HandOK'
  BY <1>8 DEF Announced, Goto, B!BroadcastDone, HandOK, TypeOK, WorkerPlace,
         B!TypeOK
<1>9. ASSUME TakeTick PROVE HandOK'
  BY <1>9 DEF TakeTick, Goto, HandOK, TypeOK, WorkerPlace, B!TypeOK
<1>10. ASSUME TakeShutdown PROVE HandOK'
  BY <1>10 DEF TakeShutdown, HandOK, TypeOK, WorkerPlace, B!TypeOK
<1>11. ASSUME Begin PROVE HandOK'
  BY <1>11 DEF Begin, Goto, Abort, LeaveFlush, MayFail, HandOK, TypeOK,
         WorkerPlace, B!TypeOK
<1>12. ASSUME Prepare PROVE HandOK'
  BY <1>12 DEF Prepare, Goto, Abort, LeaveFlush, MayFail, HandOK, TypeOK,
         WorkerPlace, B!TypeOK
<1>13. ASSUME HandOver PROVE HandOK'
  <2>1. ipos \in 1..Len(items)
    BY <1>13 DEF HandOver, FlushOK
  <2>2. hand' \in Query
    BY <1>13, <2>1, QueueFacts DEF HandOver
  <2> QED BY <1>13, <2>2 DEF HandOver, Goto, HandOK
<1>14. ASSUME Exec PROVE HandOK'
  BY <1>14 DEF Exec, Goto, Abort, LeaveFlush, MayFail, HandOK, TypeOK,
         WorkerPlace, B!TypeOK
<1>15. ASSUME RangeEnds PROVE HandOK'
  BY <1>15 DEF RangeEnds, Goto, HandOK, TypeOK, WorkerPlace, B!TypeOK
<1>16. ASSUME Commit PROVE HandOK'
  BY <1>16 DEF Commit, Goto, Abort, LeaveFlush, MayFail, HandOK, TypeOK,
         WorkerPlace, B!TypeOK
<1>17. ASSUME Clear PROVE HandOK'
  BY <1>17 DEF Clear, Goto, LeaveFlush, HandOK, TypeOK, WorkerPlace, B!TypeOK
<1>18. ASSUME IteratorLocks PROVE HandOK'
  BY <1>18 DEF IteratorLocks, HandOK, TypeOK, WorkerPlace, B!TypeOK
<1>19. ASSUME IteratorCloses PROVE HandOK'
  BY <1>19 DEF IteratorCloses, HandOK, TypeOK, WorkerPlace, B!TypeOK
<1>20. ASSUME IteratorUnlocks PROVE HandOK'
  BY <1>20 DEF IteratorUnlocks, HandOK, TypeOK, WorkerPlace, B!TypeOK
<1>21. ASSUME GrowsOld PROVE HandOK'
  BY <1>21 DEF GrowsOld, HandOK, TypeOK, WorkerPlace, B!TypeOK
<1>22. ASSUME DeleteOldQueries PROVE HandOK'
  BY <1>22 DEF DeleteOldQueries, HandOK, TypeOK, WorkerPlace, B!TypeOK
<1>23. ASSUME Restart PROVE HandOK'
  BY <1>23 DEF Restart, HandOK, TypeOK, WorkerPlace, B!TypeOK
<1>24. ASSUME NEW s \in Sub, B!Subscribe(s), LogAtRest PROVE HandOK'
  BY <1>24 DEF B!Subscribe, LogAtRest, HandOK, TypeOK, WorkerPlace, B!TypeOK
<1>25. ASSUME NEW s \in Sub, B!Receive(s), LogAtRest PROVE HandOK'
  BY <1>25 DEF B!Receive, LogAtRest, HandOK, TypeOK, WorkerPlace, B!TypeOK
<1>26. ASSUME NEW s \in Sub, B!WriteJSON(s), LogAtRest PROVE HandOK'
  BY <1>26 DEF B!WriteJSON, LogAtRest, HandOK, TypeOK, WorkerPlace, B!TypeOK
<1>27. ASSUME NEW s \in Sub, B!Unsubscribe(s), LogAtRest PROVE HandOK'
  BY <1>27 DEF B!Unsubscribe, LogAtRest, HandOK, TypeOK, WorkerPlace, B!TypeOK
<1>28. ASSUME UNCHANGED vars PROVE HandOK'
  BY <1>28 DEF HandOK, TypeOK, WorkerPlace, B!TypeOK
<1> QED
  BY <1>1, <1>2, <1>3, <1>4, <1>5, <1>6, <1>7, <1>8, <1>9, <1>10, <1>11, <1>12,
         <1>13, <1>14, <1>15, <1>16, <1>17, <1>18, <1>19, <1>20, <1>21, <1>22,
         <1>23, <1>24, <1>25, <1>26, <1>27, <1>28
     DEF Next, Worker, Iterator, Watchers, LogAtRest, B!Watch

\* The lock keeps broadcast and a watcher that unsubscribes apart.
LEMMA ChannelsStep == TypeInv /\ [Next]_vars => ChannelsOK'
<1> SUFFICES ASSUME TypeInv, [Next]_vars PROVE ChannelsOK'
  OBVIOUS
<1> USE QueryFacts, Types DEF TypeInv, history, inbox, worker, iter, disk,
         bvars, vars
<1>1. ASSUME Log PROVE ChannelsOK'
  BY <1>1 DEF Log, HasRoom, ChannelsOK, NoSendOnClosed, B!NoSendOnClosed, HandOK
<1>2. ASSUME TickerFires PROVE ChannelsOK'
  BY <1>2 DEF TickerFires, ChannelsOK, NoSendOnClosed, B!NoSendOnClosed, HandOK
<1>3. ASSUME Shutdown PROVE ChannelsOK'
  BY <1>3 DEF Shutdown, ChannelsOK, NoSendOnClosed, B!NoSendOnClosed, HandOK
<1>4. ASSUME TakeQuery PROVE ChannelsOK'
  BY <1>4 DEF TakeQuery, Goto, ChannelsOK, NoSendOnClosed, B!NoSendOnClosed,
         HandOK
<1>5. ASSUME AppendQuery PROVE ChannelsOK'
  BY <1>5 DEF AppendQuery, Goto, ChannelsOK, NoSendOnClosed, B!NoSendOnClosed,
         HandOK
<1>6. ASSUME Announce PROVE ChannelsOK'
  BY <1>6 DEF Announce, Goto, B!Broadcast, ChannelsOK, NoSendOnClosed,
         B!NoSendOnClosed, HandOK
<1>7. ASSUME NEW s \in Sub, OfferTo(s) PROVE ChannelsOK'
  BY <1>7 DEF OfferTo, B!Offer, B!HasRoom, ChannelsOK, NoSendOnClosed,
         B!NoSendOnClosed, HandOK
<1>8. ASSUME Announced PROVE ChannelsOK'
  BY <1>8 DEF Announced, Goto, B!BroadcastDone, ChannelsOK, NoSendOnClosed,
         B!NoSendOnClosed, HandOK
<1>9. ASSUME TakeTick PROVE ChannelsOK'
  BY <1>9 DEF TakeTick, Goto, ChannelsOK, NoSendOnClosed, B!NoSendOnClosed,
         HandOK
<1>10. ASSUME TakeShutdown PROVE ChannelsOK'
  BY <1>10 DEF TakeShutdown, ChannelsOK, NoSendOnClosed, B!NoSendOnClosed,
         HandOK
<1>11. ASSUME Begin PROVE ChannelsOK'
  BY <1>11 DEF Begin, Goto, Abort, LeaveFlush, MayFail, ChannelsOK,
         NoSendOnClosed, B!NoSendOnClosed, HandOK
<1>12. ASSUME Prepare PROVE ChannelsOK'
  BY <1>12 DEF Prepare, Goto, Abort, LeaveFlush, MayFail, ChannelsOK,
         NoSendOnClosed, B!NoSendOnClosed, HandOK
<1>13. ASSUME HandOver PROVE ChannelsOK'
  BY <1>13 DEF HandOver, Goto, ChannelsOK, NoSendOnClosed, B!NoSendOnClosed,
         HandOK
<1>14. ASSUME Exec PROVE ChannelsOK'
  BY <1>14 DEF Exec, Goto, Abort, LeaveFlush, MayFail, ChannelsOK,
         NoSendOnClosed, B!NoSendOnClosed, HandOK
<1>15. ASSUME RangeEnds PROVE ChannelsOK'
  BY <1>15 DEF RangeEnds, Goto, ChannelsOK, NoSendOnClosed, B!NoSendOnClosed,
         HandOK
<1>16. ASSUME Commit PROVE ChannelsOK'
  BY <1>16 DEF Commit, Goto, Abort, LeaveFlush, MayFail, ChannelsOK,
         NoSendOnClosed, B!NoSendOnClosed, HandOK
<1>17. ASSUME Clear PROVE ChannelsOK'
  BY <1>17 DEF Clear, Goto, LeaveFlush, ChannelsOK, NoSendOnClosed,
         B!NoSendOnClosed, HandOK
<1>18. ASSUME IteratorLocks PROVE ChannelsOK'
  BY <1>18 DEF IteratorLocks, ChannelsOK, NoSendOnClosed, B!NoSendOnClosed,
         HandOK
<1>19. ASSUME IteratorCloses PROVE ChannelsOK'
  BY <1>19 DEF IteratorCloses, ChannelsOK, NoSendOnClosed, B!NoSendOnClosed,
         HandOK
<1>20. ASSUME IteratorUnlocks PROVE ChannelsOK'
  BY <1>20 DEF IteratorUnlocks, ChannelsOK, NoSendOnClosed, B!NoSendOnClosed,
         HandOK
<1>21. ASSUME GrowsOld PROVE ChannelsOK'
  BY <1>21 DEF GrowsOld, ChannelsOK, NoSendOnClosed, B!NoSendOnClosed, HandOK
<1>22. ASSUME DeleteOldQueries PROVE ChannelsOK'
  BY <1>22 DEF DeleteOldQueries, ChannelsOK, NoSendOnClosed, B!NoSendOnClosed,
         HandOK
<1>23. ASSUME Restart PROVE ChannelsOK'
  BY <1>23 DEF Restart, ChannelsOK, NoSendOnClosed, B!NoSendOnClosed, HandOK
<1>24. ASSUME NEW s \in Sub, B!Subscribe(s), LogAtRest PROVE ChannelsOK'
  BY <1>24 DEF B!Subscribe, LogAtRest, B!LockIsFree, ChannelsOK,
         NoSendOnClosed, B!NoSendOnClosed, HandOK
<1>25. ASSUME NEW s \in Sub, B!Receive(s), LogAtRest PROVE ChannelsOK'
  BY <1>25 DEF B!Receive, LogAtRest, ChannelsOK, NoSendOnClosed,
         B!NoSendOnClosed, HandOK
<1>26. ASSUME NEW s \in Sub, B!WriteJSON(s), LogAtRest PROVE ChannelsOK'
  BY <1>26 DEF B!WriteJSON, LogAtRest, ChannelsOK, NoSendOnClosed,
         B!NoSendOnClosed, HandOK
<1>27. ASSUME NEW s \in Sub, B!Unsubscribe(s), LogAtRest PROVE ChannelsOK'
  BY <1>27 DEF B!Unsubscribe, LogAtRest, B!LockIsFree, ChannelsOK,
         NoSendOnClosed, B!NoSendOnClosed, HandOK
<1>28. ASSUME UNCHANGED vars PROVE ChannelsOK'
  BY <1>28 DEF ChannelsOK, NoSendOnClosed, B!NoSendOnClosed, HandOK
<1> QED
  BY <1>1, <1>2, <1>3, <1>4, <1>5, <1>6, <1>7, <1>8, <1>9, <1>10, <1>11, <1>12,
         <1>13, <1>14, <1>15, <1>16, <1>17, <1>18, <1>19, <1>20, <1>21, <1>22,
         <1>23, <1>24, <1>25, <1>26, <1>27, <1>28
     DEF Next, Worker, Iterator, Watchers, LogAtRest, B!Watch

\* The transaction follows the iterator.
LEMMA FlushStep == TypeInv /\ [Next]_vars => FlushOK'
<1> SUFFICES ASSUME TypeInv, [Next]_vars PROVE FlushOK'
  OBVIOUS
<1> USE QueryFacts, Types DEF TypeInv, history, inbox, worker, iter, disk,
         bvars, vars
<1>1. ASSUME Log PROVE FlushOK'
  BY <1>1 DEF Log, HasRoom, FlushOK
<1>2. ASSUME TickerFires PROVE FlushOK'
  BY <1>2 DEF TickerFires, FlushOK
<1>3. ASSUME Shutdown PROVE FlushOK'
  BY <1>3 DEF Shutdown, FlushOK
<1>4. ASSUME TakeQuery PROVE FlushOK'
  BY <1>4 DEF TakeQuery, Goto, FlushOK
<1>5. ASSUME AppendQuery PROVE FlushOK'
  BY <1>5 DEF AppendQuery, Goto, FlushOK
<1>6. ASSUME Announce PROVE FlushOK'
  BY <1>6 DEF Announce, Goto, B!Broadcast, FlushOK
<1>7. ASSUME NEW s \in Sub, OfferTo(s) PROVE FlushOK'
  BY <1>7 DEF OfferTo, B!Offer, B!HasRoom, FlushOK
<1>8. ASSUME Announced PROVE FlushOK'
  BY <1>8 DEF Announced, Goto, B!BroadcastDone, FlushOK
<1>9. ASSUME TakeTick PROVE FlushOK'
  BY <1>9 DEF TakeTick, Goto, FlushOK
<1>10. ASSUME TakeShutdown PROVE FlushOK'
  BY <1>10 DEF TakeShutdown, FlushOK
<1>11. ASSUME Begin PROVE FlushOK'
  BY <1>11 DEF Begin, Goto, Abort, LeaveFlush, MayFail, FlushOK
<1>12. ASSUME Prepare PROVE FlushOK'
  <2>1. CASE Abort /\ UNCHANGED <<ipc, ipos>>
    BY <1>12, <2>1, AbortTypes DEF Prepare, FlushOK
  <2>2. CASE /\ Goto("receive") /\ ipc' = "start" /\ ipos' = 1
             /\ UNCHANGED <<txn, failures>>
    <3>1. SubSeq(items, 1, 0) = <<>>
      OBVIOUS
    <3>2. txn = <<>> /\ items # <<>> /\ Len(items) \in Nat
      BY <1>12, QueueFacts DEF Prepare, FlushOK
    <3> QED BY <1>12, <2>2, <3>1, <3>2 DEF Prepare, Goto, FlushOK
  <2> QED BY <1>12, <2>1, <2>2 DEF Prepare
<1>13. ASSUME HandOver PROVE FlushOK'
  BY <1>13 DEF HandOver, Goto, FlushOK
<1>14. ASSUME Exec PROVE FlushOK'
  <2>1. CASE txn' = Append(txn, hand) /\ Goto("receive") /\ UNCHANGED <<iter, failures>>
    BY <1>14, <2>1 DEF Exec, Goto, FlushOK
  <2>2. CASE Abort /\ ipc' = "none"
    BY <1>14, <2>2, AbortTypes DEF Exec, FlushOK
  <2> QED BY <1>14, <2>1, <2>2 DEF Exec
<1>15. ASSUME RangeEnds PROVE FlushOK'
  BY <1>15 DEF RangeEnds, Goto, FlushOK
<1>16. ASSUME Commit PROVE FlushOK'
  BY <1>16 DEF Commit, Goto, Abort, LeaveFlush, MayFail, FlushOK
<1>17. ASSUME Clear PROVE FlushOK'
  BY <1>17 DEF Clear, Goto, LeaveFlush, FlushOK
<1>18. ASSUME IteratorLocks PROVE FlushOK'
  BY <1>18 DEF IteratorLocks, FlushOK
<1>19. ASSUME IteratorCloses PROVE FlushOK'
  BY <1>19 DEF IteratorCloses, FlushOK
<1>20. ASSUME IteratorUnlocks PROVE FlushOK'
  BY <1>20 DEF IteratorUnlocks, FlushOK
<1>21. ASSUME GrowsOld PROVE FlushOK'
  BY <1>21 DEF GrowsOld, FlushOK
<1>22. ASSUME DeleteOldQueries PROVE FlushOK'
  BY <1>22 DEF DeleteOldQueries, FlushOK
<1>23. ASSUME Restart PROVE FlushOK'
  BY <1>23 DEF Restart, FlushOK
<1>24. ASSUME NEW s \in Sub, B!Subscribe(s), LogAtRest PROVE FlushOK'
  BY <1>24 DEF B!Subscribe, LogAtRest, FlushOK
<1>25. ASSUME NEW s \in Sub, B!Receive(s), LogAtRest PROVE FlushOK'
  BY <1>25 DEF B!Receive, LogAtRest, FlushOK
<1>26. ASSUME NEW s \in Sub, B!WriteJSON(s), LogAtRest PROVE FlushOK'
  BY <1>26 DEF B!WriteJSON, LogAtRest, FlushOK
<1>27. ASSUME NEW s \in Sub, B!Unsubscribe(s), LogAtRest PROVE FlushOK'
  BY <1>27 DEF B!Unsubscribe, LogAtRest, FlushOK
<1>28. ASSUME UNCHANGED vars PROVE FlushOK'
  BY <1>28 DEF FlushOK
<1> QED
  BY <1>1, <1>2, <1>3, <1>4, <1>5, <1>6, <1>7, <1>8, <1>9, <1>10, <1>11, <1>12,
         <1>13, <1>14, <1>15, <1>16, <1>17, <1>18, <1>19, <1>20, <1>21, <1>22,
         <1>23, <1>24, <1>25, <1>26, <1>27, <1>28
     DEF Next, Worker, Iterator, Watchers, LogAtRest, B!Watch

\* All of it is inductive.
LEMMA TypeInvStep == TypeInv /\ [Next]_vars => TypeInv'
BY TypeStep, HandStep, ChannelsStep, FlushStep DEF TypeInv

\* Whatever fails, the worker, its iterator and the broadcaster keep to their types
\* and to each other's places.
LEMMA TypeInvariance == Spec => []TypeInv
<1>1. Init => TypeInv
  <2> SUFFICES ASSUME Init PROVE TypeInv
    OBVIOUS
  <2> USE QueryFacts, QueryLoggerAssumption DEF Init, B!Init
  <2>1. TypeOK
    <3>1. /\ {accepted, queryChan, items, txn, db} \subseteq Seq(Query)
          /\ Len(queryChan) <= ChanCap
      BY QueueFacts
    <3>2. B!TypeOK
      BY QueueFacts DEF B!TypeOK, B!WatcherPlace
    <3>3. logged \in 0..MaxQueries /\ expired \in 0..logged
      OBVIOUS
    <3>4. failures \in 0..MaxFailures /\ crashes \in 0..MaxCrashes
      OBVIOUS
    <3> HIDE QueryLoggerAssumption DEF B!Init
    <3> QED BY <3>1, <3>2, <3>3, <3>4 DEF TypeOK, WorkerPlace
  <2>2. HandOK /\ ChannelsOK /\ FlushOK
    BY DEF HandOK, ChannelsOK, NoSendOnClosed, B!NoSendOnClosed, FlushOK
  <2> QED BY <2>1, <2>2 DEF TypeInv
<1> QED BY <1>1, TypeInvStep, PTL DEF Spec

\* The types of the query log and of its live view.
THEOREM LogTypesHold == Spec => []TypeOK
<1>1. TypeInv => TypeOK
  BY DEF TypeInv
<1> QED BY <1>1, TypeInvariance, PTL

\* However watchers come and go, a query is never sent on a channel that was closed
\* (broadcast.go 25-44): a watcher unsubscribes only while no broadcast is under way.
THEOREM ClosedIsNeverSentTo == Spec => []NoSendOnClosed
<1>1. TypeInv => NoSendOnClosed
  BY DEF TypeInv, ChannelsOK
<1> QED BY <1>1, TypeInvariance, PTL

-----------------------------------------------------------------------------
(* What the steps come to. *)

\* Putting sequences together.
LEMMA ConcatFacts ==
  ASSUME NEW X, NEW s \in Seq(X), NEW t \in Seq(X), NEW x \in X
  PROVE  /\ Append(s, x) \o t = s \o (<<x>> \o t)
         /\ s \o Append(t, x) = Append(s \o t, x)
<1>0. <<x>> \in Seq(X) /\ Append(s, x) \in Seq(X) /\ s \o t \in Seq(X)
  BY AppendProperties, ConcatProperties
<1>1. /\ Append(s, x) = s \o <<x>> /\ Append(t, x) = t \o <<x>>
      /\ Append(s \o t, x) = (s \o t) \o <<x>>
  BY <1>0, AppendIsConcat
<1> QED BY <1>0, <1>1, ConcatAssociative

\* The laws of sequences, for queues of queries.
LEMMA QueueLaws ==
  /\ \A s, t, u \in Seq(Query) : (s \o t) \o u = s \o (t \o u)
  /\ \A s \in Seq(Query) : s \o <<>> = s /\ <<>> \o s = s
  /\ \A s \in Seq(Query), x \in Query : Append(s, x) = s \o <<x>> /\ <<x>> \in Seq(Query)
  /\ \A s, t \in Seq(Query), x \in Query : s \o Append(t, x) = Append(s \o t, x)
<1>1. \A s, t, u \in Seq(Query) : (s \o t) \o u = s \o (t \o u)
  BY ConcatAssociative
<1>2. \A s \in Seq(Query) : s \o <<>> = s /\ <<>> \o s = s
  BY ConcatEmptySeq
<1>3. \A s \in Seq(Query), x \in Query : Append(s, x) = s \o <<x>> /\ <<x>> \in Seq(Query)
  BY AppendIsConcat
<1>4. \A s, t \in Seq(Query), x \in Query : s \o Append(t, x) = Append(s \o t, x)
  BY ConcatFacts
<1> QED BY <1>1, <1>2, <1>3, <1>4

\* A queue is its first query and the rest.
LEMMA HeadAndTail ==
  ASSUME NEW X, NEW s \in Seq(X), s # <<>>
  PROVE  s = <<Head(s)>> \o Tail(s) /\ Head(s) \in X /\ Tail(s) \in Seq(X)
<1>1. /\ Head(s) \in X /\ Tail(s) \in Seq(X) /\ Len(Tail(s)) = Len(s) - 1
      /\ \A i \in 1..Len(Tail(s)) : Tail(s)[i] = s[i + 1]
  BY HeadTailProperties
<1>2. Head(s) = s[1] /\ Len(s) \in Nat /\ <<Head(s)>> \in Seq(X) /\ Len(<<Head(s)>>) = 1
  BY <1>1, LenProperties
<1>3. /\ <<Head(s)>> \o Tail(s) \in Seq(X) /\ Len(<<Head(s)>> \o Tail(s)) = Len(s)
      /\ \A i \in 1..Len(s) : (<<Head(s)>> \o Tail(s))[i] =
           IF i <= 1 THEN <<Head(s)>>[i] ELSE Tail(s)[i - 1]
  BY <1>1, <1>2, ConcatProperties
<1>4. ASSUME NEW i \in 1..Len(s) PROVE s[i] = (<<Head(s)>> \o Tail(s))[i]
  <2>1. CASE i = 1
    BY <1>2, <1>3, <2>1
  <2>2. CASE i # 1
    <3>1. i - 1 \in 1..Len(Tail(s)) /\ (i - 1) + 1 = i
      BY <1>1, <1>2, <1>4, <2>2
    <3> QED BY <1>2, <1>3, <1>1, <2>2, <3>1
  <2> QED BY <2>1, <2>2
<1>5. s = <<Head(s)>> \o Tail(s)
  BY <1>3, <1>4, SeqEqual
<1> QED BY <1>1, <1>5

\* What waits to be written is what has left the channel and what is still in it.
LEMMA AheadFacts ==
  ASSUME TypeInv
  PROVE  /\ Ahead \in Seq(Query) /\ Pending \in Seq(Query) /\ Pending = Ahead \o queryChan
         /\ wpc \notin {"append", "clear"} => Ahead = items
         /\ wpc = "append" => Ahead = Append(items, hand)
         /\ wpc = "clear" => Ahead = <<>>
<1> USE Types, QueueFacts DEF TypeInv
<1>0. Pending = Ahead \o queryChan
  BY DEF Ahead, Pending
<1>1. CASE wpc = "append"
  <2>1. hand \in Query /\ Ahead = items \o <<hand>>
    BY <1>1 DEF HandOK, Ahead
  <2>2. Ahead = Append(items, hand)
    BY <2>1, AppendIsConcat
  <2> QED BY <1>0, <1>1, <2>1, <2>2
<1>2. CASE wpc = "clear"
  <2>1. Ahead = <<>>
    BY <1>2 DEF Ahead
  <2> QED BY <1>0, <1>2, <2>1
<1>3. CASE wpc \notin {"append", "clear"}
  <2>1. Ahead = items \o <<>>
    BY <1>3 DEF Ahead
  <2>2. Ahead = items
    BY <2>1, ConcatEmptySeq
  <2> QED BY <1>0, <1>3, <2>2
<1> QED BY <1>1, <1>2, <1>3

\* Every step adds to the log, writes what waits, ages, removes what is too old,
\* ends a process, or does nothing of it.
LEMMA LogSteps == TypeInv /\ [Next]_vars => LogStep
<1> SUFFICES ASSUME TypeInv, [Next]_vars PROVE LogStep
  OBVIOUS
<1> USE QueryFacts, Types DEF TypeInv, history, inbox, worker, iter, disk,
         bvars, vars
<1>1. ASSUME Log PROVE LogStep
  <2>1. logged' = logged + 1 /\ logged' \in Query
    BY <1>1 DEF Log, TypeOK, Query
  <2>2. UNCHANGED Ahead
    BY <1>1 DEF Log, Ahead
  <2>3. Pending = Ahead \o queryChan /\ Pending' = Ahead \o queryChan'
    BY <2>2 DEF Ahead, Pending
  <2>4. Ahead \o Append(queryChan, logged') = Append(Pending, logged')
    BY SMTT(20), <2>1, <2>3, AheadFacts, ConcatFacts
  <2> QED BY <1>1, <2>1, <2>3, <2>4 DEF Log, AskStep, LogStep
<1>2. ASSUME TickerFires PROVE LogStep
  BY <1>2 DEF TickerFires, LogStep, QuietStep, Pending
<1>3. ASSUME Shutdown PROVE LogStep
  BY <1>3 DEF Shutdown, LogStep, QuietStep, Pending
<1>4. ASSUME TakeQuery PROVE LogStep
  <2>1. queryChan = <<hand'>> \o queryChan' /\ hand' \in Query /\ queryChan' \in Seq(Query)
    BY <1>4, HeadAndTail DEF TakeQuery
  <2>2. Ahead = items
    BY <1>4, AheadFacts DEF TakeQuery
  <2>3. Ahead' = items \o <<hand'>>
    BY <1>4 DEF TakeQuery, Goto, Ahead
  <2>4. Ahead' = Append(items, hand')
    BY <2>1, <2>3, AppendIsConcat
  <2>5. Pending' = Ahead' \o queryChan'
    BY DEF Pending, Ahead
  <2>6. Append(items, hand') \o queryChan' = items \o (<<hand'>> \o queryChan')
    BY SMTT(20), <2>1, ConcatFacts
  <2>7. Pending = items \o queryChan
    BY <2>2, AheadFacts
  <2>8. Pending' = Pending
    BY <2>1, <2>4, <2>5, <2>6, <2>7
  <2> QED BY <1>4, <2>8 DEF TakeQuery, QuietStep, LogStep
<1>5. ASSUME AppendQuery PROVE LogStep
  <2>1. Ahead = Append(items, hand) /\ items' = Append(items, hand)
    BY <1>5, AheadFacts DEF AppendQuery
  <2>2. items' \in Seq(Query)
    BY <1>5, <2>1, AheadFacts
  <2>3. Ahead' = items' \o <<>>
    BY <1>5 DEF AppendQuery, Goto, Ahead
  <2>4. Ahead' = Ahead
    BY <2>1, <2>2, <2>3, ConcatEmptySeq
  <2>5. Pending' = Ahead' \o queryChan' /\ queryChan' = queryChan
    BY <1>5 DEF AppendQuery, Pending, Ahead
  <2> QED BY <1>5, <2>4, <2>5, AheadFacts DEF AppendQuery, QuietStep, LogStep
<1>6. ASSUME Announce PROVE LogStep
  BY <1>6 DEF Announce, Goto, B!Broadcast, LogStep, QuietStep, Pending
<1>7. ASSUME NEW s \in Sub, OfferTo(s) PROVE LogStep
  BY <1>7 DEF OfferTo, B!Offer, B!HasRoom, LogStep, QuietStep, Pending
<1>8. ASSUME Announced PROVE LogStep
  BY <1>8 DEF Announced, Goto, B!BroadcastDone, LogStep, QuietStep, Pending
<1>9. ASSUME TakeTick PROVE LogStep
  BY <1>9 DEF TakeTick, Goto, LogStep, QuietStep, Pending
<1>10. ASSUME TakeShutdown PROVE LogStep
  BY <1>10 DEF TakeShutdown, LogStep, QuietStep, Pending
<1>11. ASSUME Begin PROVE LogStep
  BY <1>11 DEF Begin, Goto, Abort, LeaveFlush, MayFail, LogStep, QuietStep,
         Pending
<1>12. ASSUME Prepare PROVE LogStep
  BY <1>12 DEF Prepare, Goto, Abort, LeaveFlush, MayFail, LogStep, QuietStep,
         Pending
<1>13. ASSUME HandOver PROVE LogStep
  BY <1>13 DEF HandOver, Goto, LogStep, QuietStep, Pending
<1>14. ASSUME Exec PROVE LogStep
  BY <1>14 DEF Exec, Goto, Abort, LeaveFlush, MayFail, LogStep, QuietStep,
         Pending
<1>15. ASSUME RangeEnds PROVE LogStep
  BY <1>15 DEF RangeEnds, Goto, LogStep, QuietStep, Pending
<1>16. ASSUME Commit PROVE LogStep
  <2>1. Pending = items \o queryChan /\ items # <<>> /\ txn = items
    BY <1>16, AheadFacts DEF Commit, FlushOK
  <2>2. CASE db' = db \o txn /\ txn' = <<>> /\ Goto("clear") /\ UNCHANGED failures
    <3>1. Pending' = (<<>> \o <<>>) \o queryChan
      BY <1>16, <2>2 DEF Commit, Goto, Pending
    <3>2. Pending' = queryChan
      BY <3>1, QueueFacts, ConcatEmptySeq
    <3> QED BY <1>16, <2>1, <2>2, <3>2 DEF Commit, WriteStep, LogStep
  <2>3. CASE Abort /\ UNCHANGED db
    <3>1. Pending' = Pending
      BY <1>16, <2>3 DEF Commit, Abort, LeaveFlush, Goto, Pending
    <3> QED BY <1>16, <2>3, <3>1 DEF Commit, QuietStep, LogStep
  <2> QED BY <1>16, <2>2, <2>3 DEF Commit
<1>17. ASSUME Clear PROVE LogStep
  BY <1>17 DEF Clear, Goto, LeaveFlush, LogStep, QuietStep, Pending
<1>18. ASSUME IteratorLocks PROVE LogStep
  BY <1>18 DEF IteratorLocks, LogStep, QuietStep, Pending
<1>19. ASSUME IteratorCloses PROVE LogStep
  BY <1>19 DEF IteratorCloses, LogStep, QuietStep, Pending
<1>20. ASSUME IteratorUnlocks PROVE LogStep
  BY <1>20 DEF IteratorUnlocks, LogStep, QuietStep, Pending
<1>21. ASSUME GrowsOld PROVE LogStep
  BY <1>21 DEF GrowsOld, AgeStep, LogStep, QuietStep, Pending
<1>22. ASSUME DeleteOldQueries PROVE LogStep
  BY <1>22 DEF DeleteOldQueries, PurgeStep, LogStep, QuietStep, Pending
<1>23. ASSUME Restart PROVE LogStep
  <2>1. Pending' = (<<>> \o <<>>) \o <<>>
    BY <1>23 DEF Restart, Pending
  <2>2. Pending' = <<>>
    BY <2>1, QueueFacts, ConcatEmptySeq
  <2> QED BY <1>23, <2>2 DEF Restart, DieStep, LogStep
<1>24. ASSUME NEW s \in Sub, B!Subscribe(s), LogAtRest PROVE LogStep
  BY <1>24 DEF B!Subscribe, LogAtRest, LogStep, QuietStep, Pending
<1>25. ASSUME NEW s \in Sub, B!Receive(s), LogAtRest PROVE LogStep
  BY <1>25 DEF B!Receive, LogAtRest, LogStep, QuietStep, Pending
<1>26. ASSUME NEW s \in Sub, B!WriteJSON(s), LogAtRest PROVE LogStep
  BY <1>26 DEF B!WriteJSON, LogAtRest, LogStep, QuietStep, Pending
<1>27. ASSUME NEW s \in Sub, B!Unsubscribe(s), LogAtRest PROVE LogStep
  BY <1>27 DEF B!Unsubscribe, LogAtRest, LogStep, QuietStep, Pending
<1>28. ASSUME UNCHANGED vars PROVE LogStep
  BY <1>28 DEF LogStep, QuietStep, Pending
<1> QED
  BY <1>1, <1>2, <1>3, <1>4, <1>5, <1>6, <1>7, <1>8, <1>9, <1>10, <1>11, <1>12,
         <1>13, <1>14, <1>15, <1>16, <1>17, <1>18, <1>19, <1>20, <1>21, <1>22,
         <1>23, <1>24, <1>25, <1>26, <1>27, <1>28
     DEF Next, Worker, Iterator, Watchers, LogAtRest, B!Watch

\* What is recorded stays recorded until it is too old: only a crash can lose it,
\* and a crash says what it loses.
LEMMA RecordedStep ==
  ASSUME TypeInv, QueueOK, [Next]_vars, NEW q \in Query, Recorded(q)
  PROVE  Recorded(q)'
<1> USE QueryFacts, Types DEF TypeInv, Recorded, history, inbox, worker, iter, disk, bvars, vars
<1>1. ASSUME Log PROVE Recorded(q)'
  BY <1>1 DEF Log, HasRoom
<1>2. ASSUME TickerFires PROVE Recorded(q)'
  BY <1>2 DEF TickerFires
<1>3. ASSUME Shutdown PROVE Recorded(q)'
  BY <1>3 DEF Shutdown
<1>4. ASSUME TakeQuery PROVE Recorded(q)'
  BY <1>4 DEF TakeQuery, Goto
<1>5. ASSUME AppendQuery PROVE Recorded(q)'
  <2>1. RangeOf(items') = RangeOf(items) \cup {hand}
    BY <1>5, RangeAppend DEF AppendQuery, HandOK
  <2> QED BY <1>5, <2>1 DEF AppendQuery
<1>6. ASSUME Announce PROVE Recorded(q)'
  BY <1>6 DEF Announce, Goto, B!Broadcast
<1>7. ASSUME NEW u \in Sub, OfferTo(u) PROVE Recorded(q)'
  BY <1>7 DEF OfferTo, B!Offer, B!HasRoom
<1>8. ASSUME Announced PROVE Recorded(q)'
  BY <1>8 DEF Announced, Goto, B!BroadcastDone
<1>9. ASSUME TakeTick PROVE Recorded(q)'
  BY <1>9 DEF TakeTick, Goto
<1>10. ASSUME TakeShutdown PROVE Recorded(q)'
  BY <1>10 DEF TakeShutdown
<1>11. ASSUME Begin PROVE Recorded(q)'
  BY <1>11 DEF Begin, Goto, Abort, LeaveFlush, MayFail
<1>12. ASSUME Prepare PROVE Recorded(q)'
  BY <1>12 DEF Prepare, Goto, Abort, LeaveFlush, MayFail
<1>13. ASSUME HandOver PROVE Recorded(q)'
  BY <1>13 DEF HandOver, Goto
<1>14. ASSUME Exec PROVE Recorded(q)'
  BY <1>14 DEF Exec, Goto, Abort, LeaveFlush, MayFail
<1>15. ASSUME RangeEnds PROVE Recorded(q)'
  BY <1>15 DEF RangeEnds, Goto
<1>16. ASSUME Commit PROVE Recorded(q)'
  <2>1. RangeOf(db) \subseteq RangeOf(db')
    <3>1. RangeOf(db \o txn) = RangeOf(db) \cup RangeOf(txn)
      BY RangeConcat
    <3> QED BY <1>16, <3>1 DEF Commit
  <2> QED BY <1>16, <2>1 DEF Commit
<1>17. ASSUME Clear PROVE Recorded(q)'
  <2>1. q > expired => q \in lost \cup RangeOf(db)
    BY <1>17 DEF Clear, QueueOK
  <2> QED BY <1>17, <2>1 DEF Clear
<1>18. ASSUME IteratorLocks PROVE Recorded(q)'
  BY <1>18 DEF IteratorLocks
<1>19. ASSUME IteratorCloses PROVE Recorded(q)'
  BY <1>19 DEF IteratorCloses
<1>20. ASSUME IteratorUnlocks PROVE Recorded(q)'
  BY <1>20 DEF IteratorUnlocks
<1>21. ASSUME GrowsOld PROVE Recorded(q)'
  <2>1. q > expired' => q > expired
    BY <1>21 DEF GrowsOld, TypeOK
  <2> QED BY <1>21, <2>1 DEF GrowsOld
<1>22. ASSUME DeleteOldQueries PROVE Recorded(q)'
  <2>1. RangeOf(db') = RangeOf(db) \cap {r \in Query : r > expired}
    BY <1>22, SelectRange DEF DeleteOldQueries
  <2> QED BY <1>22, <2>1 DEF DeleteOldQueries
<1>23. ASSUME Restart PROVE Recorded(q)'
  <2>1. q \in RangeOf(items) => q \in RangeOf(accepted)
    BY DEF QueueOK
  <2> QED BY <1>23, <2>1 DEF Restart
<1>24. ASSUME NEW u \in Sub, B!Subscribe(u), LogAtRest PROVE Recorded(q)'
  BY <1>24 DEF B!Subscribe, LogAtRest
<1>25. ASSUME NEW u \in Sub, B!Receive(u), LogAtRest PROVE Recorded(q)'
  BY <1>25 DEF B!Receive, LogAtRest
<1>26. ASSUME NEW u \in Sub, B!WriteJSON(u), LogAtRest PROVE Recorded(q)'
  BY <1>26 DEF B!WriteJSON, LogAtRest
<1>27. ASSUME NEW u \in Sub, B!Unsubscribe(u), LogAtRest PROVE Recorded(q)'
  BY <1>27 DEF B!Unsubscribe, LogAtRest
<1>28. ASSUME UNCHANGED vars PROVE Recorded(q)'
  BY <1>28
<1> QED
  BY <1>1, <1>2, <1>3, <1>4, <1>5, <1>6, <1>7, <1>8, <1>9, <1>10, <1>11, <1>12,
         <1>13, <1>14, <1>15, <1>16, <1>17, <1>18, <1>19, <1>20, <1>21, <1>22,
         <1>23, <1>24, <1>25, <1>26, <1>27, <1>28
     DEF Next, Worker, Iterator, Watchers, LogAtRest, B!Watch

-----------------------------------------------------------------------------
(* The order of queries *)

\* The type of what waits.
LEMMA PendingType == TypeInv => Pending \in Seq(Query)
BY AheadFacts

\* ... and after a step.
LEMMA PendingStep == TypeInv /\ [Next]_vars => Pending' \in Seq(Query)
<1>1. TypeInv /\ [Next]_vars => (Pending \in Seq(Query))'
  BY PendingType, TypeInvStep, PTL
<1> QED BY <1>1

\* The log stays in order: what is appended is the latest query, what is written
\* is what waited longest, and removing queries leaves the order of the others.
LEMMA InOrderStep == OrderInv /\ [Next]_vars => InOrder'
<1> SUFFICES ASSUME OrderInv, [Next]_vars PROVE InOrder'
  OBVIOUS
<1> DEFINE All == db \o Pending
<1>1. /\ TypeInv /\ TypeInv' /\ Ascending(All) /\ RangeOf(All) \subseteq 1..logged
      /\ RangeOf(Pending) \subseteq RangeOf(accepted) /\ logged \in Nat
  <2>1. TypeInv /\ TypeInv'
    BY TypeInvStep DEF OrderInv
  <2>2. logged \in Nat
    BY <2>1, QueryFacts DEF TypeInv, TypeOK
  <2> QED BY <2>1, <2>2 DEF OrderInv, InOrder
<1>2. /\ db \in Seq(Query) /\ Pending \in Seq(Query) /\ accepted \in Seq(Query)
      /\ db' \in Seq(Query) /\ Pending' \in Seq(Query)
      /\ queryChan \in Seq(Query) /\ items \in Seq(Query)
  <2>1. db' \in Seq(Query)
    BY <1>1 DEF TypeInv, TypeOK
  <2>2. /\ db \in Seq(Query) /\ accepted \in Seq(Query)
        /\ queryChan \in Seq(Query) /\ items \in Seq(Query)
    BY <1>1, Types DEF TypeInv
  <2>3. Pending \in Seq(Query)
    BY <1>1, AheadFacts
  <2>4. Pending' \in Seq(Query)
    BY <1>1, PendingStep
  <2> QED BY <2>1, <2>2, <2>3, <2>4
<1>3. \A s \in Seq(Query) : s \in Seq(Nat)
  BY QueryFacts, SeqMonotonic
<1>4. RangeOf(All) = RangeOf(db) \cup RangeOf(Pending)
  BY <1>2, RangeConcat
<1>5. LogStep
  BY <1>1, LogSteps
<1>6. CASE AskStep
  <2>1. logged' = logged + 1 /\ logged' \in Query /\ UNCHANGED db
    BY <1>6 DEF AskStep
  <2>2. CASE UNCHANGED <<accepted, Pending>>
    <3>1. \A n \in 1..logged : n \in 1..logged'
      BY <1>1, <2>1
    <3> QED BY <1>1, <2>1, <2>2, <3>1 DEF InOrder
  <2>3. CASE accepted' = Append(accepted, logged') /\ Pending' = Append(Pending, logged')
    <3>1. db \o Append(Pending, logged') = Append(All, logged') /\ All \in Seq(Query)
      BY <1>2, <2>1, ConcatFacts, ConcatProperties
    <3>2. RangeOf(Append(All, logged')) = RangeOf(All) \cup {logged'}
      BY <2>1, <3>1, RangeFacts
    <3>3. \A n \in RangeOf(All) : n < logged'
      BY <1>1, <2>1
    <3>4. Ascending(Append(All, logged'))
      BY <1>1, <1>3, <2>1, <3>1, <3>3, AscendingAppend, QueryFacts
    <3>5. RangeOf(All) \cup {logged'} \subseteq 1..logged'
      BY <1>1, <2>1
    <3>6. /\ RangeOf(Pending') = RangeOf(Pending) \cup {logged'}
          /\ RangeOf(accepted') = RangeOf(accepted) \cup {logged'}
      BY <1>2, <2>1, <2>3, RangeAppend
    <3> QED BY <1>1, <2>1, <2>3, <3>1, <3>2, <3>4, <3>5, <3>6 DEF InOrder
  <2> QED BY <1>6, <2>2, <2>3 DEF AskStep
<1>7. CASE WriteStep
  <2>1. (db \o items) \o queryChan = db \o (items \o queryChan)
    BY SMTT(20), <1>2, ConcatAssociative
  <2>2. db' \o Pending' = All
    BY <1>7, <2>1 DEF WriteStep
  <2>3. RangeOf(Pending) = RangeOf(items) \cup RangeOf(queryChan)
    BY <1>2, <1>7, RangeConcat DEF WriteStep
  <2> QED BY <1>1, <1>7, <2>2, <2>3 DEF WriteStep, InOrder
<1>8. CASE PurgeStep
  <2> DEFINE Young == {q \in Query : q > expired}
  <2>1. db' = Select(db, Young) /\ UNCHANGED <<logged, accepted, Pending>>
    BY <1>8 DEF PurgeStep
  <2>2. Ascending(db) /\ Ascending(Pending) /\ AllBelow(db, Pending)
    BY <1>1, <1>2, <1>3, AscendingConcat
  <2>3. RangeOf(db') \subseteq RangeOf(db)
    BY <1>2, <2>1, SelectRange
  <2>4. Ascending(db') /\ AllBelow(db', Pending)
    BY <1>2, <1>3, <2>1, <2>2, <2>3, SelectAscending DEF AllBelow
  <2>5. Ascending(db' \o Pending)
    BY <1>2, <1>3, <2>2, <2>4, AscendingConcat
  <2>6. RangeOf(db' \o Pending) = RangeOf(db') \cup RangeOf(Pending)
    BY <1>2, RangeConcat
  <2> QED BY <1>1, <1>4, <2>1, <2>3, <2>5, <2>6 DEF InOrder
<1>9. CASE DieStep
  <2>1. Pending' = <<>> /\ UNCHANGED <<logged, accepted, db>>
    BY <1>9 DEF DieStep
  <2>2. db' \o Pending' = db
    BY <1>2, <2>1, ConcatEmptySeq
  <2>3. Ascending(db)
    BY <1>1, <1>2, <1>3, AscendingConcat
  <2> QED BY <1>1, <1>4, <2>1, <2>2, <2>3, RangeEmpty DEF InOrder
<1>10. CASE AgeStep \/ QuietStep
  BY <1>1, <1>10 DEF AgeStep, QuietStep, InOrder
<1> QED BY <1>5, <1>6, <1>7, <1>8, <1>9, <1>10 DEF LogStep

\* The queue holds accepted queries, and what is about to be cleared is stored.
LEMMA QueueStep == OrderInv /\ [Next]_vars => QueueOK'
<1> SUFFICES ASSUME OrderInv, [Next]_vars PROVE QueueOK'
  OBVIOUS
<1> USE QueryFacts, Types DEF OrderInv, TypeInv, history, inbox, worker, iter, disk, bvars, vars
<1>1. ASSUME Log PROVE QueueOK'
  <2>1. RangeOf(accepted) \subseteq RangeOf(accepted')
    <3>1. logged' \in Query
      BY <1>1 DEF Log, TypeOK, Query
    <3>2. RangeOf(Append(accepted, logged')) = RangeOf(accepted) \cup {logged'}
      BY <3>1, RangeAppend
    <3> QED BY <1>1, <3>2 DEF Log
  <2> QED BY <1>1, <2>1 DEF Log, QueueOK
<1>2. ASSUME TickerFires PROVE QueueOK'
  BY <1>2 DEF TickerFires, QueueOK
<1>3. ASSUME Shutdown PROVE QueueOK'
  BY <1>3 DEF Shutdown, QueueOK
<1>4. ASSUME TakeQuery PROVE QueueOK'
  BY <1>4 DEF TakeQuery, Goto, QueueOK
<1>5. ASSUME AppendQuery PROVE QueueOK'
  <2>1. RangeOf(items') = RangeOf(items) \cup {hand} /\ hand \in Query
    BY <1>5, RangeAppend DEF AppendQuery, HandOK
  <2>2. /\ Pending = Append(items, hand) \o queryChan
        /\ Append(items, hand) \in Seq(Query) /\ queryChan \in Seq(Query)
    BY <1>5, <2>1, AheadFacts, QueueFacts DEF AppendQuery
  <2>3. RangeOf(Append(items, hand) \o queryChan) = RangeOf(Append(items, hand)) \cup RangeOf(queryChan)
    BY <2>2, RangeFacts
  <2>4. RangeOf(Append(items, hand)) = RangeOf(items) \cup {hand}
    BY <2>1, RangeAppend
  <2> QED BY <1>5, <2>1, <2>2, <2>3, <2>4 DEF AppendQuery, Goto, QueueOK, InOrder
<1>6. ASSUME Announce PROVE QueueOK'
  BY <1>6 DEF Announce, Goto, B!Broadcast, QueueOK
<1>7. ASSUME NEW u \in Sub, OfferTo(u) PROVE QueueOK'
  BY <1>7 DEF OfferTo, B!Offer, B!HasRoom, QueueOK
<1>8. ASSUME Announced PROVE QueueOK'
  BY <1>8 DEF Announced, Goto, B!BroadcastDone, QueueOK
<1>9. ASSUME TakeTick PROVE QueueOK'
  BY <1>9 DEF TakeTick, Goto, QueueOK
<1>10. ASSUME TakeShutdown PROVE QueueOK'
  BY <1>10 DEF TakeShutdown, QueueOK
<1>11. ASSUME Begin PROVE QueueOK'
  BY <1>11 DEF Begin, Goto, Abort, LeaveFlush, MayFail, QueueOK
<1>12. ASSUME Prepare PROVE QueueOK'
  BY <1>12 DEF Prepare, Goto, Abort, LeaveFlush, MayFail, QueueOK
<1>13. ASSUME HandOver PROVE QueueOK'
  BY <1>13 DEF HandOver, Goto, QueueOK
<1>14. ASSUME Exec PROVE QueueOK'
  BY <1>14 DEF Exec, Goto, Abort, LeaveFlush, MayFail, QueueOK
<1>15. ASSUME RangeEnds PROVE QueueOK'
  BY <1>15 DEF RangeEnds, Goto, QueueOK
<1>16. ASSUME Commit PROVE QueueOK'
  <2>1. txn = items
    BY <1>16 DEF Commit, FlushOK
  <2>2. RangeOf(db \o items) = RangeOf(db) \cup RangeOf(items)
    BY RangeConcat
  <2> QED BY <1>16, <2>1, <2>2 DEF Commit, Goto, Abort, LeaveFlush, QueueOK
<1>17. ASSUME Clear PROVE QueueOK'
  BY <1>17, RangeEmpty DEF Clear, Goto, LeaveFlush, QueueOK
<1>18. ASSUME IteratorLocks PROVE QueueOK'
  BY <1>18 DEF IteratorLocks, QueueOK
<1>19. ASSUME IteratorCloses PROVE QueueOK'
  BY <1>19 DEF IteratorCloses, QueueOK
<1>20. ASSUME IteratorUnlocks PROVE QueueOK'
  BY <1>20 DEF IteratorUnlocks, QueueOK
<1>21. ASSUME GrowsOld PROVE QueueOK'
  <2>1. \A q \in Query : q > expired' => q > expired
    BY <1>21 DEF GrowsOld, TypeOK
  <2>2. RangeOf(items) \subseteq Query
    BY RangeType
  <2> QED BY <1>21, <2>1, <2>2 DEF GrowsOld, QueueOK
<1>22. ASSUME DeleteOldQueries PROVE QueueOK'
  <2>1. RangeOf(db') = RangeOf(db) \cap {r \in Query : r > expired} /\ RangeOf(items) \subseteq Query
    BY <1>22, SelectRange, RangeType DEF DeleteOldQueries
  <2> QED BY <1>22, <2>1 DEF DeleteOldQueries, QueueOK
<1>23. ASSUME Restart PROVE QueueOK'
  BY <1>23, RangeEmpty DEF Restart, QueueOK
<1>24. ASSUME NEW u \in Sub, B!Subscribe(u), LogAtRest PROVE QueueOK'
  BY <1>24 DEF B!Subscribe, LogAtRest, QueueOK
<1>25. ASSUME NEW u \in Sub, B!Receive(u), LogAtRest PROVE QueueOK'
  BY <1>25 DEF B!Receive, LogAtRest, QueueOK
<1>26. ASSUME NEW u \in Sub, B!WriteJSON(u), LogAtRest PROVE QueueOK'
  BY <1>26 DEF B!WriteJSON, LogAtRest, QueueOK
<1>27. ASSUME NEW u \in Sub, B!Unsubscribe(u), LogAtRest PROVE QueueOK'
  BY <1>27 DEF B!Unsubscribe, LogAtRest, QueueOK
<1>28. ASSUME UNCHANGED vars PROVE QueueOK'
  BY <1>28 DEF QueueOK
<1> QED
  BY <1>1, <1>2, <1>3, <1>4, <1>5, <1>6, <1>7, <1>8, <1>9, <1>10, <1>11, <1>12,
         <1>13, <1>14, <1>15, <1>16, <1>17, <1>18, <1>19, <1>20, <1>21, <1>22,
         <1>23, <1>24, <1>25, <1>26, <1>27, <1>28
     DEF Next, Worker, Iterator, Watchers, LogAtRest, B!Watch

\* The table and what waits for it are always in order.
LEMMA OrderInvariance == Spec => []OrderInv
<1>1. Init => InOrder /\ QueueOK
  <2> SUFFICES ASSUME Init PROVE InOrder /\ QueueOK
    OBVIOUS
  <2>1. Pending = (<<>> \o <<>>) \o <<>> /\ db = <<>> /\ items = <<>> /\ wpc = "select"
    BY DEF Init, Pending
  <2>2. Pending = <<>> /\ db \o Pending = <<>>
    BY <2>1, QueueFacts, ConcatEmptySeq
  <2> QED BY <2>1, <2>2, RangeEmpty, AscendingEmpty DEF InOrder, QueueOK
<1>2. InOrder /\ QueueOK /\ TypeInv /\ [Next]_vars => (InOrder /\ QueueOK)'
  BY InOrderStep, QueueStep DEF OrderInv
<1>3. Spec => [](InOrder /\ QueueOK)
  BY <1>1, <1>2, TypeInvariance, PTL DEF Spec
<1>4. InOrder /\ QueueOK /\ TypeInv => OrderInv
  BY DEF OrderInv
<1> QED BY <1>3, <1>4, TypeInvariance, PTL

-----------------------------------------------------------------------------
(* Conservation *)

\* No accepted query is lost, repeated or overtaken but by the death of a process.
LEMMA ConservedStep == OrderInv /\ LogConserved /\ [Next]_vars => LogConserved'
<1> SUFFICES ASSUME OrderInv, LogConserved, [Next]_vars PROVE LogConserved'
  OBVIOUS
<1> DEFINE All == db \o Pending
           Kept == {q \in Query : q > expired /\ q \notin lost}
<1>1. /\ TypeInv /\ Ascending(All) /\ RangeOf(Pending) \subseteq RangeOf(accepted)
      /\ expired \in Nat /\ logged \in Nat
  <2>1. TypeInv
    BY DEF OrderInv
  <2>2. expired \in Nat /\ logged \in Nat
    BY <2>1, QueryFacts DEF TypeInv, TypeOK
  <2> QED BY <2>1, <2>2 DEF OrderInv, InOrder
<1>2. /\ db \in Seq(Query) /\ Pending \in Seq(Query) /\ accepted \in Seq(Query)
      /\ queryChan \in Seq(Query) /\ items \in Seq(Query)
  BY <1>1, Types, AheadFacts DEF TypeInv
<1>3. All \in Seq(Query)
  BY <1>2, ConcatProperties
<1>4. Select(accepted, Kept) = Select(All, Kept)
  BY DEF LogConserved
<1>5. LogStep
  BY <1>1, LogSteps
<1>6. CASE AskStep
  <2>1. logged' \in Query /\ UNCHANGED <<db, expired, lost>>
    BY <1>6 DEF AskStep
  <2>2. CASE UNCHANGED <<accepted, Pending>>
    BY <1>4, <2>1, <2>2 DEF LogConserved
  <2>3. CASE accepted' = Append(accepted, logged') /\ Pending' = Append(Pending, logged')
    <3>1. db \o Append(Pending, logged') = Append(All, logged')
      BY <1>2, <2>1, ConcatFacts
    <3> HIDE DEF All, Kept
    <3>2. Select(Append(accepted, logged'), Kept) =
            IF logged' \in Kept THEN Append(Select(accepted, Kept), logged') ELSE Select(accepted, Kept)
      BY <1>2, <2>1, SelectAppend
    <3>3. Select(Append(All, logged'), Kept) =
            IF logged' \in Kept THEN Append(Select(All, Kept), logged') ELSE Select(All, Kept)
      BY <1>3, <2>1, SelectAppend
    <3>4. Select(Append(accepted, logged'), Kept) = Select(Append(All, logged'), Kept)
      BY <1>4, <3>2, <3>3
    <3> USE DEF All, Kept
    <3> QED BY <2>1, <2>3, <3>1, <3>4 DEF LogConserved
  <2> QED BY <1>6, <2>2, <2>3 DEF AskStep
<1>7. CASE WriteStep
  <2>1. (db \o items) \o queryChan = db \o (items \o queryChan)
    BY <1>2, ConcatAssociative
  <2>2. db' \o Pending' = All
    BY <1>7, <2>1 DEF WriteStep
  <2> QED BY <1>4, <1>7, <2>2 DEF WriteStep, LogConserved
<1>8. CASE AgeStep
  <2> DEFINE Younger == {q \in Query : q > expired' /\ q \notin lost'}
  <2>1. expired' = expired + 1 /\ UNCHANGED <<accepted, Pending, db, lost>>
    BY <1>8 DEF AgeStep
  <2>2. Kept \cap Younger = Younger
    <3>1. \A q \in Query : q > expired' => q > expired
      BY <1>1, <2>1, QueryFacts
    <3> QED BY <2>1, <3>1
  <2> HIDE DEF Kept, Younger, All
  <2>3. /\ Select(Select(accepted, Kept), Younger) = Select(accepted, Younger)
        /\ Select(Select(All, Kept), Younger) = Select(All, Younger)
    BY <1>2, <1>3, <2>2, SelectTwice
  <2>4. Select(accepted, Younger) = Select(All, Younger)
    BY <1>4, <2>3
  <2> QED BY <2>1, <2>4 DEF LogConserved, Younger, All
<1>9. CASE PurgeStep
  <2> DEFINE Young == {q \in Query : q > expired}
  <2>1. db' = Select(db, Young) /\ UNCHANGED <<accepted, Pending, expired, lost>>
    BY <1>9 DEF PurgeStep
  <2>2. Young \cap Kept = Kept
    OBVIOUS
  <2>3. db' \in Seq(Query)
    BY <1>2, <2>1, SelectType
  <2> HIDE DEF Kept, Young, All
  <2>4. Select(db', Kept) = Select(db, Kept)
    BY <1>2, <2>1, <2>2, SelectTwice
  <2>5. Select(db' \o Pending, Kept) = Select(db', Kept) \o Select(Pending, Kept)
    BY <1>2, <2>3, SelectConcat
  <2>6. Select(db \o Pending, Kept) = Select(db, Kept) \o Select(Pending, Kept)
    BY <1>2, SelectConcat
  <2>7. Select(accepted, Kept) = Select(db' \o Pending, Kept)
    BY <1>4, <2>4, <2>5, <2>6 DEF All
  <2> QED BY <2>1, <2>7 DEF LogConserved, Kept
<1>10. CASE DieStep
  <2> DEFINE Left == {q \in Query : q > expired' /\ q \notin lost'}
  <2>1. /\ Pending' = <<>> /\ UNCHANGED <<accepted, db, expired>>
        /\ lost' = lost \cup {q \in RangeOf(accepted) : q > expired /\ q \notin RangeOf(db)}
    BY <1>10 DEF DieStep
  <2>2. Left \subseteq Kept /\ RangeOf(accepted) \cap Left = RangeOf(accepted) \cap (Kept \cap RangeOf(db))
    BY <1>2, <2>1, RangeType
  <2>3. Kept \cap Left = Left
    BY <2>2
  <2>4. RangeOf(Pending) \cap Left = {}
    <3>1. AllBelow(db, Pending)
      BY <1>1, <1>2, QueryFacts, SeqMonotonic, AscendingConcat
    <3>2. \A q \in RangeOf(db) : q \notin RangeOf(Pending)
      <4>1. \A q \in RangeOf(db) : q \in Nat
        BY <1>2, RangeType, QueryFacts
      <4> QED BY <3>1, <4>1 DEF AllBelow
    <3> QED BY <1>1, <2>2, <3>2
  <2> HIDE DEF Kept, Left, All
  <2>5. /\ Select(Select(accepted, Kept), Left) = Select(accepted, Left)
        /\ Select(Select(All, Kept), Left) = Select(All, Left)
    BY <1>2, <1>3, <2>3, SelectTwice
  <2>6. Select(Pending, Left) = <<>>
    BY <1>2, <2>4, SelectNone
  <2>7. Select(db, Left) \in Seq(Query)
    BY <1>2, SelectType
  <2>8. Select(All, Left) = Select(db, Left)
    <3>1. Select(All, Left) = Select(db, Left) \o Select(Pending, Left)
      BY <1>2, SelectConcat DEF All
    <3> QED BY <2>6, <2>7, <3>1, ConcatEmptySeq
  <2>9. db' \o Pending' = db
    BY <1>2, <2>1, ConcatEmptySeq
  <2>10. Select(accepted', Left) = Select(db' \o Pending', Left)
    BY <1>4, <2>1, <2>5, <2>8, <2>9
  <2> QED BY <2>10 DEF LogConserved, Left
<1>11. CASE QuietStep
  BY <1>4, <1>11 DEF QuietStep, LogConserved
<1> QED BY <1>5, <1>6, <1>7, <1>8, <1>9, <1>10, <1>11 DEF LogStep

\* Whatever fails and whenever the process dies, every accepted query that is young
\* enough and did not die with a process is in the table or on its way to it, once
\* and in order (querylog.go flush and worker, slices.go).
THEOREM LogIsConserved == Spec => []LogConserved
<1>1. Init => LogConserved
  <2> SUFFICES ASSUME Init PROVE LogConserved
    OBVIOUS
  <2>1. Pending = (<<>> \o <<>>) \o <<>> /\ db = <<>> /\ accepted = <<>>
    BY DEF Init, Pending
  <2>2. db \o Pending = <<>>
    BY <2>1, QueueFacts, ConcatEmptySeq
  <2> QED BY <2>1, <2>2 DEF LogConserved
<1> QED BY <1>1, ConservedStep, OrderInvariance, PTL DEF Spec

-----------------------------------------------------------------------------
(* The live view *)

\* What a watcher sees is a sequence of queries.
LEMMA SeenFacts ==
  ASSUME TypeInv, NEW s \in Sub
  PROVE  /\ InHand(s) \in Seq(Query) /\ shown[s] \in Seq(Query) /\ buffer[s] \in Seq(Query)
         /\ shown[s] \o InHand(s) \in Seq(Query) /\ Seen(s) \in Seq(Query)
         /\ Seen(s) = shown[s] \o (InHand(s) \o buffer[s])
<1>1. shown[s] \in Seq(Query) /\ buffer[s] \in Seq(Query)
  BY Types DEF TypeInv
<1>2. InHand(s) \in Seq(Query)
  BY Types DEF TypeInv, InHand
<1>3. shown[s] \o InHand(s) \in Seq(Query) /\ Seen(s) \in Seq(Query)
  BY <1>1, <1>2, QueueFacts DEF Seen
<1>4. Seen(s) = shown[s] \o (InHand(s) \o buffer[s])
  BY <1>1, <1>2, QueueLaws DEF Seen
<1> QED BY <1>1, <1>2, <1>3, <1>4

\* Every step shows a watcher the query being announced, takes something from what
\* it sees, or leaves it as it is.
LEMMA ViewSteps ==
  ASSUME TypeInv, [Next]_vars, NEW s \in Sub
  PROVE  Sees(s)
<1> USE QueryFacts, Types DEF TypeInv, history, inbox, worker, iter, disk, bvars, vars
<1>1. ASSUME Log PROVE Sees(s)
  <2>1. logged' \in Query /\ logged' # logged
    BY SMTT(20), <1>1 DEF Log, TypeOK, Query
  <2>2. RangeOf(queryChan') \subseteq RangeOf(queryChan) \cup {logged'}
    BY <1>1, <2>1, RangeFacts DEF Log
  <2> QED BY <1>1, <2>1, <2>2 DEF Log, Sees, SeesNoMore, Seen, InHand, Upcoming
<1>2. ASSUME TickerFires PROVE Sees(s)
  BY <1>2 DEF TickerFires, Sees, SeesNoMore, Seen, InHand, Upcoming
<1>3. ASSUME Shutdown PROVE Sees(s)
  BY <1>3 DEF Shutdown, Sees, SeesNoMore, Seen, InHand, Upcoming
<1>4. ASSUME TakeQuery PROVE Sees(s)
  <2>1. queryChan = <<hand'>> \o queryChan' /\ hand' \in Query /\ queryChan' \in Seq(Query)
    BY <1>4, HeadAndTail DEF TakeQuery
  <2>2. <<hand'>> \in Seq(Query) /\ RangeOf(<<hand'>>) = {hand'}
    BY <2>1 DEF RangeOf
  <2>3. RangeOf(queryChan) = {hand'} \cup RangeOf(queryChan')
    BY <2>1, <2>2, RangeFacts
  <2> QED BY <1>4, <2>3 DEF TakeQuery, Goto, HandOK, Sees, SeesNoMore, Seen, InHand, Upcoming
<1>5. ASSUME AppendQuery PROVE Sees(s)
  BY <1>5 DEF AppendQuery, Goto, Sees, SeesNoMore, Seen, InHand, Upcoming
<1>6. ASSUME Announce PROVE Sees(s)
  BY <1>6 DEF Announce, Goto, B!Broadcast, Sees, SeesNoMore, Seen, InHand,
         Upcoming
<1>7. ASSUME NEW u \in Sub, OfferTo(u) PROVE Sees(s)
  <2>1. /\ u \in offers /\ offers' = offers \ {u}
        /\ current = hand /\ wpc = "announcing" /\ hand \in Query
        /\ UNCHANGED <<wpc, hand, queryChan, logged, inHand, shown>>
    BY <1>7 DEF OfferTo, B!Offer, HandOK
  <2>2. Upcoming(s)' \subseteq Upcoming(s)
    BY <2>1 DEF Upcoming
  <2>3. CASE buffer'[s] = buffer[s]
    <3>1. Seen(s)' = Seen(s)
      BY <2>1, <2>3 DEF Seen, InHand
    <3> QED BY <2>2, <3>1 DEF Sees, SeesNoMore
  <2>4. CASE u = s /\ buffer'[s] = Append(buffer[s], hand)
    <3>1. Seen(s)' = (shown[s] \o InHand(s)) \o Append(buffer[s], hand)
      BY <2>1, <2>4 DEF Seen, InHand
    <3> DEFINE a == shown[s] \o InHand(s)
               b == buffer[s]
    <3>0. a \in Seq(Query) /\ b \in Seq(Query) /\ Seen(s) = a \o b
      BY SeenFacts DEF Seen
    <3> HIDE DEF a, b
    <3>2. a \o Append(b, hand) = Append(a \o b, hand)
      BY ZenonT(60), <2>1, <3>0, QueueLaws
    <3>4. Seen(s)' = Append(Seen(s), hand)
      BY <3>0, <3>1, <3>2 DEF a, b
    <3>3. Upcoming(s)' = RangeOf(queryChan)
      BY <2>1, <2>4 DEF Upcoming
    <3> QED BY <2>1, <2>4, <3>4, <3>3 DEF Sees, SeesMore
  <2> QED BY <1>7, <2>1, <2>3, <2>4 DEF OfferTo, B!Offer
<1>8. ASSUME Announced PROVE Sees(s)
  <2>1. offers' = offers /\ offers = {} /\ wpc' \notin {"append", "announce"}
    BY <1>8 DEF Announced, Goto, B!BroadcastDone, HandOK
  <2> QED BY <1>8, <2>1 DEF Announced, B!BroadcastDone, Sees, SeesNoMore, Seen, InHand, Upcoming
<1>9. ASSUME TakeTick PROVE Sees(s)
  BY <1>9 DEF TakeTick, Goto, Sees, SeesNoMore, Seen, InHand, Upcoming
<1>10. ASSUME TakeShutdown PROVE Sees(s)
  BY <1>10 DEF TakeShutdown, Sees, SeesNoMore, Seen, InHand, Upcoming
<1>11. ASSUME Begin PROVE Sees(s)
  BY <1>11 DEF Begin, Goto, Abort, LeaveFlush, MayFail, Sees, SeesNoMore, Seen,
         InHand, Upcoming
<1>12. ASSUME Prepare PROVE Sees(s)
  BY <1>12 DEF Prepare, Goto, Abort, LeaveFlush, MayFail, Sees, SeesNoMore,
         Seen, InHand, Upcoming
<1>13. ASSUME HandOver PROVE Sees(s)
  <2>1. offers' = offers /\ offers = {} /\ wpc' \notin {"append", "announce"}
    BY <1>13 DEF HandOver, Goto, HandOK
  <2> QED BY <1>13, <2>1 DEF HandOver, Sees, SeesNoMore, Seen, InHand, Upcoming
<1>14. ASSUME Exec PROVE Sees(s)
  <2>1. offers' = offers /\ offers = {} /\ wpc' \notin {"append", "announce"}
    BY <1>14 DEF Exec, Goto, Abort, LeaveFlush, MayFail, HandOK
  <2> QED BY <1>14, <2>1 DEF Exec, Sees, SeesNoMore, Seen, InHand, Upcoming
<1>15. ASSUME RangeEnds PROVE Sees(s)
  BY <1>15 DEF RangeEnds, Goto, Sees, SeesNoMore, Seen, InHand, Upcoming
<1>16. ASSUME Commit PROVE Sees(s)
  BY <1>16 DEF Commit, Goto, Abort, LeaveFlush, MayFail, Sees, SeesNoMore,
         Seen, InHand, Upcoming
<1>17. ASSUME Clear PROVE Sees(s)
  BY <1>17 DEF Clear, Goto, LeaveFlush, Sees, SeesNoMore, Seen, InHand, Upcoming
<1>18. ASSUME IteratorLocks PROVE Sees(s)
  BY <1>18 DEF IteratorLocks, Sees, SeesNoMore, Seen, InHand, Upcoming
<1>19. ASSUME IteratorCloses PROVE Sees(s)
  BY <1>19 DEF IteratorCloses, Sees, SeesNoMore, Seen, InHand, Upcoming
<1>20. ASSUME IteratorUnlocks PROVE Sees(s)
  BY <1>20 DEF IteratorUnlocks, Sees, SeesNoMore, Seen, InHand, Upcoming
<1>21. ASSUME GrowsOld PROVE Sees(s)
  BY <1>21 DEF GrowsOld, Sees, SeesNoMore, Seen, InHand, Upcoming
<1>22. ASSUME DeleteOldQueries PROVE Sees(s)
  BY <1>22 DEF DeleteOldQueries, Sees, SeesNoMore, Seen, InHand, Upcoming
<1>23. ASSUME Restart PROVE Sees(s)
  <2>1. Seen(s)' = (shown[s] \o <<>>) \o <<>>
    BY <1>23 DEF Restart, Seen, InHand
  <2> DEFINE more == InHand(s) \o buffer[s]
  <2>2. Seen(s)' = shown[s] \o <<>> /\ shown[s] \o more = (shown[s] \o more) \o <<>>
    BY <2>1, SeenFacts, QueueFacts, ConcatEmptySeq
  <2>4. Upcoming(s)' = {}
    BY <1>23, RangeFacts DEF Restart, Upcoming
  <2>5. InHand(s) \o buffer[s] \in Seq(Query) /\ <<>> \in Seq(Query)
    BY SeenFacts, QueueFacts
  <2> QED BY <2>2, <2>4, <2>5, SeenFacts DEF Sees, SeesLess
<1>24. ASSUME NEW u \in Sub, B!Subscribe(u), LogAtRest PROVE Sees(s)
  BY <1>24 DEF B!Subscribe, LogAtRest, Sees, SeesNoMore, Seen, InHand, Upcoming
<1>25. ASSUME NEW u \in Sub, B!Receive(u), LogAtRest PROVE Sees(s)
  <2>1. UNCHANGED <<wpc, hand, queryChan, offers, logged, shown>>
    BY <1>25 DEF B!Receive, LogAtRest
  <2>2. Upcoming(s)' = Upcoming(s)
    BY <2>1 DEF Upcoming
  <2>3. CASE buffer'[s] = buffer[s] /\ inHand'[s] = inHand[s]
    BY <2>1, <2>2, <2>3 DEF Sees, SeesNoMore, Seen, InHand
  <2>4. CASE u = s
    <3> DEFINE q == Head(buffer[s])
               rest == Tail(buffer[s])
    <3>1. buffer[s] # <<>> /\ inHand[s] = Nil /\ buffer'[s] = rest
      BY <1>25, <2>4 DEF B!Receive, ChannelsOK
    <3>2. buffer[s] = <<q>> \o rest /\ q \in Query /\ rest \in Seq(Query)
      BY <3>1, SeenFacts, HeadAndTail
    <3>3. <<q>> \in Seq(Query) /\ <<q>> \o rest \in Seq(Query)
      BY <3>2, QueueFacts
    <3> HIDE DEF q, rest
    <3>4. Seen(s) = (shown[s] \o <<>>) \o (<<q>> \o rest)
      BY <3>1, <3>2 DEF Seen, InHand
    <3> DEFINE a == shown[s]
    <3>0. a \in Seq(Query) /\ Seen(s) = (a \o <<>>) \o (<<q>> \o rest)
      BY <3>4, SeenFacts
    <3> HIDE DEF a
    <3>8. Seen(s) = a \o (<<q>> \o rest)
      BY <3>0, QueueLaws
    <3> DEFINE one == <<q>>
    <3>10. one \in Seq(Query)
      BY <3>3
    <3> HIDE DEF one
    <3>11. (a \o one) \o rest = a \o (one \o rest)
      BY ZenonT(60), <3>0, <3>2, <3>10, QueueLaws
    <3>9. (a \o <<q>>) \o rest = a \o (<<q>> \o rest)
      BY <3>11 DEF one
    <3>5. Seen(s) = shown[s] \o (<<q>> \o rest) /\ Seen(s) = (shown[s] \o <<q>>) \o rest
      BY <3>8, <3>9 DEF a
    <3>6. CASE inHand'[s] = q
      <4>1. Seen(s)' = (shown[s] \o <<q>>) \o rest
        BY <2>1, <3>1, <3>2, <3>6 DEF Seen, InHand
      <4> QED BY <2>2, <3>5, <4>1 DEF Sees, SeesNoMore
    <3>7. CASE inHand'[s] = Nil
      <4>1. Seen(s)' = (shown[s] \o <<>>) \o rest
        BY <2>1, <3>1, <3>7 DEF Seen, InHand
      <4>2. Seen(s)' = shown[s] \o rest
        BY <4>1, SeenFacts, ConcatEmptySeq
      <4> QED BY <2>2, <3>2, <3>3, <3>5, <4>2, SeenFacts DEF Sees, SeesLess
    <3> QED BY <1>25, <2>4, <3>1, <3>6, <3>7 DEF B!Receive, q
  <2> QED BY <1>25, <2>3, <2>4 DEF B!Receive
<1>26. ASSUME NEW u \in Sub, B!WriteJSON(u), LogAtRest PROVE Sees(s)
  <2>1. UNCHANGED <<wpc, hand, queryChan, offers, logged, buffer>>
    BY <1>26 DEF B!WriteJSON, LogAtRest
  <2>2. Upcoming(s)' = Upcoming(s)
    BY <2>1 DEF Upcoming
  <2>3. CASE shown'[s] = shown[s] /\ inHand'[s] = inHand[s]
    BY <2>1, <2>2, <2>3 DEF Sees, SeesNoMore, Seen, InHand
  <2>4. CASE u = s
    <3>1. inHand[s] \in Query /\ inHand'[s] = Nil
      BY <1>26, <2>4 DEF B!WriteJSON, ChannelsOK
    <3>2. /\ Seen(s) = (shown[s] \o <<inHand[s]>>) \o buffer[s]
          /\ <<inHand[s]>> \in Seq(Query)
      BY <3>1, SeenFacts DEF Seen, InHand
    <3>3. CASE shown'[s] = Append(shown[s], inHand[s])
      <4>1. Seen(s)' = (Append(shown[s], inHand[s]) \o <<>>) \o buffer[s]
        BY <2>1, <3>1, <3>3 DEF Seen, InHand
      <4>2. /\ Append(shown[s], inHand[s]) = shown[s] \o <<inHand[s]>>
            /\ Append(shown[s], inHand[s]) \in Seq(Query)
        BY <3>1, SeenFacts, AppendIsConcat, QueueFacts
      <4>3. Seen(s)' = Seen(s)
        BY <3>2, <4>1, <4>2, ConcatEmptySeq
      <4> QED BY <2>2, <4>3 DEF Sees, SeesNoMore
    <3>4. CASE shown'[s] = shown[s]
      <4>1. Seen(s)' = (shown[s] \o <<>>) \o buffer[s]
        BY <2>1, <3>1, <3>4 DEF Seen, InHand
      <4>2. Seen(s)' = shown[s] \o buffer[s]
        BY <4>1, SeenFacts, ConcatEmptySeq
      <4> QED BY <2>2, <3>2, <4>2, SeenFacts DEF Sees, SeesLess
    <3> QED BY <1>26, <2>4, <3>3, <3>4 DEF B!WriteJSON
  <2> QED BY <1>26, <2>3, <2>4 DEF B!WriteJSON
<1>27. ASSUME NEW u \in Sub, B!Unsubscribe(u), LogAtRest PROVE Sees(s)
  BY <1>27 DEF B!Unsubscribe, LogAtRest, Sees, SeesNoMore, Seen, InHand,
         Upcoming
<1>28. ASSUME UNCHANGED vars PROVE Sees(s)
  BY <1>28 DEF Sees, SeesNoMore, Seen, InHand, Upcoming
<1> QED
  BY <1>1, <1>2, <1>3, <1>4, <1>5, <1>6, <1>7, <1>8, <1>9, <1>10, <1>11, <1>12,
         <1>13, <1>14, <1>15, <1>16, <1>17, <1>18, <1>19, <1>20, <1>21, <1>22,
         <1>23, <1>24, <1>25, <1>26, <1>27, <1>28
     DEF Next, Worker, Iterator, Watchers, LogAtRest, B!Watch

\* Leaving out a part of an ascending sequence.
LEMMA AscendingWithout ==
  ASSUME NEW a \in Seq(Query), NEW b \in Seq(Query), NEW c \in Seq(Query),
         Ascending(a \o (b \o c))
  PROVE  Ascending(a \o c) /\ RangeOf(a \o c) \subseteq RangeOf(a \o (b \o c))
<1>1. /\ a \in Seq(Nat) /\ b \in Seq(Nat) /\ c \in Seq(Nat)
      /\ b \o c \in Seq(Nat) /\ b \o c \in Seq(Query)
  BY QueryFacts, SeqMonotonic, QueueFacts
<1>2. Ascending(a) /\ Ascending(b \o c) /\ AllBelow(a, b \o c)
  BY <1>1, AscendingConcat
<1>3. Ascending(c)
  BY <1>1, <1>2, AscendingConcat
<1>4. RangeOf(b \o c) = RangeOf(b) \cup RangeOf(c)
  BY RangeConcat
<1>5. AllBelow(a, c)
  BY <1>2, <1>4 DEF AllBelow
<1>6. Ascending(a \o c)
  BY <1>1, <1>2, <1>3, <1>5, AscendingConcat
<1>7. /\ RangeOf(a \o c) = RangeOf(a) \cup RangeOf(c)
      /\ RangeOf(a \o (b \o c)) = RangeOf(a) \cup RangeOf(b \o c)
  BY <1>1, RangeFacts
<1> QED BY <1>4, <1>6, <1>7

\* While a query is announced, all that the channel holds comes after it.
LEMMA AnnouncedBeforeWaiting ==
  ASSUME OrderInv, wpc = "announcing"
  PROVE  hand \in Query /\ \A y \in RangeOf(queryChan) : hand < y
<1>1. TypeInv /\ hand \in RangeOf(items) /\ Pending = items \o queryChan /\ Ascending(db \o Pending)
  BY AheadFacts DEF OrderInv, InOrder, QueueOK
<1>2. items \in Seq(Query) /\ queryChan \in Seq(Query) /\ db \in Seq(Query) /\ hand \in Query
  BY <1>1, Types DEF TypeInv, HandOK
<1>3. \A q \in Seq(Query) : q \in Seq(Nat)
  BY QueryFacts, SeqMonotonic
<1>4. Pending \in Seq(Query)
  BY <1>1, PendingType
<1>5. Ascending(Pending)
  BY <1>1, <1>2, <1>3, <1>4, AscendingConcat
<1>6. AllBelow(items, queryChan)
  BY <1>1, <1>2, <1>3, <1>5, AscendingConcat
<1> QED BY <1>1, <1>2, <1>6 DEF AllBelow

\* What a watcher may be offered was logged.
LEMMA UpcomingType == ASSUME TypeInv, NEW s \in Sub PROVE Upcoming(s) \subseteq Query
<1>1. RangeOf(queryChan) \subseteq Query
  BY Types, RangeType DEF TypeInv
<1>2. s \in offers => hand \in Query
  BY QueryFacts DEF TypeInv, HandOK, TypeOK, B!TypeOK
<1>3. wpc \in {"append", "announce"} => hand \in Query
  BY DEF TypeInv, HandOK
<1> QED BY <1>1, <1>2, <1>3 DEF Upcoming

\* A watcher keeps seeing queries in order and only recorded ones.
LEMMA ViewStep == OrderInv /\ ViewOK /\ [Next]_vars => ViewOK'
<1> SUFFICES ASSUME OrderInv, ViewOK, [Next]_vars, NEW s \in Sub
             PROVE  /\ Ascending(Seen(s)') /\ RangeOf(Seen(s)') \subseteq 1..logged'
                    /\ \A x \in RangeOf(Seen(s)'), y \in Upcoming(s)' : x < y
                    /\ \A q \in RangeOf(Seen(s)') : Recorded(q)'
  BY DEF ViewOK
<1>1. TypeInv /\ QueueOK /\ logged \in Nat /\ logged' \in Nat /\ logged <= logged'
  <2>1. TypeInv /\ QueueOK
    BY DEF OrderInv
  <2>2. logged \in Nat
    BY <2>1, QueryFacts DEF TypeInv, TypeOK
  <2>3. LogStep
    BY <2>1, LogSteps
  <2>4. logged' \in {logged, logged + 1}
    BY <2>3 DEF LogStep, AskStep, WriteStep, AgeStep, PurgeStep, DieStep, QuietStep
  <2> QED BY <2>1, <2>2, <2>4
<1>2. /\ Ascending(Seen(s)) /\ RangeOf(Seen(s)) \subseteq 1..logged
      /\ \A x \in RangeOf(Seen(s)), y \in Upcoming(s) : x < y
      /\ \A q \in RangeOf(Seen(s)) : Recorded(q)
  BY DEF ViewOK
<1>3. Seen(s) \in Seq(Query) /\ RangeOf(Seen(s)) \subseteq Query
  BY <1>1, SeenFacts, RangeType
<1>4. \A q \in RangeOf(Seen(s)) : Recorded(q)'
  BY <1>1, <1>2, <1>3, RecordedStep
<1>5. \A n \in 1..logged : n \in 1..logged'
  BY <1>1
<1>6. CASE SeesNoMore(s)
  <2>1. ASSUME logged' # logged, NEW x \in RangeOf(Seen(s)) PROVE x < logged'
    BY <1>1, <1>2, <2>1
  <2> QED BY <1>2, <1>4, <1>5, <1>6, <2>1 DEF SeesNoMore
<1>7. CASE SeesLess(s)
  <2>1. PICK a \in Seq(Query), b \in Seq(Query), c \in Seq(Query) :
          Seen(s) = (a \o b) \o c /\ Seen(s)' = a \o c
    BY <1>7 DEF SeesLess
  <2>2. Seen(s) = a \o (b \o c)
    BY SMTT(20), <2>1, ConcatAssociative
  <2>3. Ascending(Seen(s)') /\ RangeOf(Seen(s)') \subseteq RangeOf(Seen(s))
    BY <1>2, <2>1, <2>2, AscendingWithout
  <2> QED BY <1>2, <1>4, <1>5, <1>7, <2>3 DEF SeesLess
<1>8. CASE SeesMore(s)
  <2>1. /\ hand \in Query /\ hand \in Upcoming(s) /\ hand \in RangeOf(items)
        /\ \A y \in Upcoming(s)' : hand < y
        /\ RangeOf(queryChan) \subseteq Upcoming(s)
    BY <1>1, <1>8, AnnouncedBeforeWaiting DEF SeesMore, Upcoming, QueueOK
  <2>2. Seen(s)' = Append(Seen(s), hand) /\ RangeOf(Seen(s)') = RangeOf(Seen(s)) \cup {hand}
    BY <1>3, <1>8, <2>1, RangeFacts DEF SeesMore
  <2>3. Ascending(Seen(s)')
    <3>1. Seen(s) \in Seq(Nat) /\ hand \in Nat
      BY <1>3, <2>1, QueryFacts, SeqMonotonic
    <3> QED BY <1>2, <2>1, <2>2, <3>1, AscendingAppend
  <2>4. hand \in 1..logged
    <3>1. Pending = items \o queryChan /\ items \in Seq(Query) /\ queryChan \in Seq(Query)
          /\ db \in Seq(Query) /\ Pending \in Seq(Query)
      BY <1>1, <1>8, AheadFacts, Types DEF SeesMore, TypeInv
    <3>2. hand \in RangeOf(db \o Pending)
      BY ZenonT(60), <2>1, <3>1, RangeFacts
    <3> QED BY <3>2 DEF OrderInv, InOrder
  <2>0. PICK h \in Query : h = hand
    BY <2>1
  <2>5. Recorded(h)'
    <3>1. Recorded(h)
      BY <2>0, <2>1 DEF Recorded
    <3> QED BY <1>1, <3>1, RecordedStep
  <2>6. \A y \in Upcoming(s)' : y \in Upcoming(s)
    BY <1>8, <2>1 DEF SeesMore
  <2>7. \A q \in RangeOf(Seen(s)') : Recorded(q)'
    BY <1>4, <2>0, <2>2, <2>5
  <2> QED BY <1>2, <1>5, <2>1, <2>2, <2>3, <2>4, <2>6, <2>7
<1> QED BY <1>1, <1>6, <1>7, <1>8, ViewSteps DEF Sees

\* Every watcher sees recorded queries, in order.
LEMMA ViewInvariance == Spec => []ViewOK
<1>1. Init => ViewOK
  <2> SUFFICES ASSUME Init, NEW s \in Sub
               PROVE  Seen(s) = <<>>
    BY RangeEmpty, AscendingEmpty DEF ViewOK
  <2>1. Seen(s) = (<<>> \o <<>>) \o <<>>
    BY DEF Init, B!Init, Seen, InHand
  <2> QED BY <2>1, QueueFacts, ConcatEmptySeq
<1> QED BY <1>1, ViewStep, OrderInvariance, PTL DEF Spec

\* A watcher sees queries in the order in which they were logged, none of them
\* twice, even if it is too slow to see them all (broadcast.go, ws.go).
THEOREM ViewIsInOrder == Spec => []ShownInOrder
<1>1. ViewOK => ShownInOrder
  BY DEF ViewOK, ShownInOrder, Seen, InHand, Ascending
<1> QED BY <1>1, ViewInvariance, PTL

\* A live view never runs ahead of the log: what it shows is queued or stored, or
\* died with a process after that.
THEOREM ViewIsLogged == Spec => []ShownIsLogged
<1>1. ViewOK /\ TypeInv => ShownIsLogged
  <2> SUFFICES ASSUME ViewOK, TypeInv, NEW s \in Sub, NEW q \in RangeOf(shown[s]) \cup RangeOf(buffer[s])
               PROVE  Recorded(q)
    BY DEF ShownIsLogged, Recorded
  <2>1. /\ shown[s] \in Seq(Query) /\ InHand(s) \in Seq(Query) /\ buffer[s] \in Seq(Query)
        /\ InHand(s) \o buffer[s] \in Seq(Query) /\ Seen(s) = shown[s] \o (InHand(s) \o buffer[s])
    BY SeenFacts, QueueFacts
  <2>3. RangeOf(InHand(s) \o buffer[s]) = RangeOf(InHand(s)) \cup RangeOf(buffer[s])
    BY <2>1, RangeConcat
  <2> DEFINE past == shown[s]
             rest == InHand(s) \o buffer[s]
  <2>5. past \in Seq(Query) /\ rest \in Seq(Query) /\ Seen(s) = past \o rest
    BY <2>1
  <2> HIDE DEF past, rest
  <2>6. RangeOf(past \o rest) = RangeOf(past) \cup RangeOf(rest)
    BY <2>5, RangeConcat
  <2>4. RangeOf(Seen(s)) = RangeOf(shown[s]) \cup RangeOf(InHand(s) \o buffer[s])
    BY <2>5, <2>6 DEF past, rest
  <2>2. RangeOf(Seen(s)) = RangeOf(shown[s]) \cup (RangeOf(InHand(s)) \cup RangeOf(buffer[s]))
    BY <2>3, <2>4
  <2> QED BY <2>2 DEF ViewOK
<1> QED BY <1>1, ViewInvariance, TypeInvariance, PTL

-----------------------------------------------------------------------------
(* The abstract specification *)

\* What a step comes to is a step of QueryStore, or none.
LEMMA StoreStep == TypeInv /\ [Next]_vars => [Store!Next]_(Store!vars)
<1> SUFFICES ASSUME TypeInv, [Next]_vars PROVE Store!Next \/ UNCHANGED Store!vars
  OBVIOUS
<1>1. LogStep
  BY LogSteps
<1>2. CASE AskStep
  BY <1>2 DEF AskStep, Store!Next, Store!Ask
<1>3. CASE WriteStep
  <2>1. items \in Seq(Query) /\ queryChan \in Seq(Query) /\ items # <<>> /\ Pending = items \o queryChan
    BY <1>3, Types DEF WriteStep, TypeInv
  <2> DEFINE n == Len(items)
  <2>2. n \in 1..Len(Pending)
    BY <2>1, EmptySeq, ConcatProperties
  <2>3. SubSeq(Pending, 1, n) = items /\ SubSeq(Pending, n + 1, Len(Pending)) = queryChan
    BY <2>1
  <2>4. Store!Write(n)
    BY <1>3, <2>3 DEF WriteStep, Store!Write
  <2> QED BY <2>2, <2>4 DEF Store!Next
<1>4. CASE AgeStep
  BY <1>4 DEF AgeStep, Store!Next, Store!Age
<1>5. CASE PurgeStep
  BY <1>5 DEF PurgeStep, Store!Next, Store!Purge, Store!Select, Select
<1>6. CASE DieStep
  BY <1>6 DEF DieStep, Store!Next, Store!Die
<1>7. CASE QuietStep
  BY <1>7 DEF QuietStep, Store!vars
<1> QED BY <1>1, <1>2, <1>3, <1>4, <1>5, <1>6, <1>7 DEF LogStep

\* The query log implements QueryStore (querylog.go 99-205): what its worker, its
\* queue, its iterators and its transactions do, with calls of the database failing
\* and the process dying anywhere, is to write whole prefixes of what waits, once.
THEOREM QueryLoggerImplementsQueryStore == Spec => ImplementsQueryStore
<1>1. Init => Store!Init
  <2> SUFFICES ASSUME Init PROVE Store!Init
    OBVIOUS
  <2>1. Pending = (<<>> \o <<>>) \o <<>>
    BY DEF Init, Pending
  <2> QED BY <2>1, QueueFacts, ConcatEmptySeq DEF Init, Store!Init
<1> QED BY <1>1, StoreStep, TypeInvariance, PTL DEF Spec, ImplementsQueryStore, Store!Spec
=============================================================================
