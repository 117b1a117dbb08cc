----------------------------- MODULE QueryLogger -----------------------------
(***************************************************************************)
(* The query log: internal/querylog/querylog.go, its in-memory queue       *)
(* (pkg/threadsafe/slices.go) and, composed with it, the live view         *)
(* (Broadcaster.tla).  The handlers of the DNS server call Log; one worker *)
(* goroutine moves queries from the channel to the queue and, now and      *)
(* then, from the queue to the database; an iterator goroutine feeds it    *)
(* the queue during a flush, holding the queue's lock for reading.         *)
(*                                                                         *)
(* Queries are numbered in the order of the calls of Log.                  *)
(***************************************************************************)
EXTENDS Integers, Sequences, FiniteSets, Selection

CONSTANTS
  MaxQueries,   \* bound: how many queries are logged
  ChanCap,      \* capacity of queryChan
  MaxFailures,  \* bound: how many database operations fail
  MaxCrashes,   \* bound: how often the process dies and is started again
  Sub, Wants, BufferCap, Nil   \* see Broadcaster

Query == 1..MaxQueries

ASSUME QueryLoggerAssumption ==
  /\ {MaxQueries, MaxFailures, MaxCrashes} \subseteq Nat
  /\ {ChanCap, BufferCap} \subseteq Nat \ {0}
  /\ Wants \in [Sub -> SUBSET Query]
  /\ Nil \notin Query

VARIABLES
  logged,     \* how many times Log was called
  accepted,   \* the queries Log did not drop
  queryChan, items, shutdown,   \* QueryLogger: queue is items and its lock
  tick,       \* ticker.C holds a tick
  wpc,        \* where the worker is
  hand,       \* the query it holds
  stopping,   \* it has seen shutdown
  ipc, ipos,  \* the iterator the worker ranges over
  closing,    \* iterators that have sent all and have yet to unlock
  leaked,     \* some iterator waits for ever to send to nobody
  txn,        \* rows inserted by the open transaction
  db,         \* rows of the table queries
  expired,    \* queries up to this one are older than the retention
  lost,       \* queries that died with a process
  failures, crashes,
  clients, closed, buffer, watcher, inHand, shown, current, offers

B == INSTANCE Broadcaster

history == <<logged, accepted, lost>>
inbox   == <<queryChan, shutdown, tick>>
worker  == <<wpc, hand, stopping>>
iter    == <<ipc, ipos, closing, leaked>>
disk    == <<db, expired>>
bvars   == <<clients, closed, buffer, watcher, inHand, shown, current, offers>>
vars == <<history, inbox, items, worker, iter, txn, disk, failures, crashes, bvars>>

WorkerPlace == {"select", "append", "announce", "announcing", "begin", "prepare",
                "receive", "exec", "commit", "clear", "stopped"}

\* A process starts with Collect().
Init ==
  /\ queryChan = <<>> /\ items = <<>> /\ shutdown = FALSE /\ tick = FALSE
  /\ wpc = "select" /\ hand = Nil /\ stopping = FALSE
  /\ ipc = "none" /\ ipos = 1 /\ closing = 0 /\ leaked = FALSE
  /\ txn = <<>>
  /\ logged = 0 /\ accepted = <<>> /\ lost = {}
  /\ db = <<>> /\ expired = 0
  /\ failures = 0 /\ crashes = 0
  /\ B!Init

-----------------------------------------------------------------------------
(* The inbox of the worker *)

\* Mutant: a channel that holds one query more.
RoomForOneMore == Len(queryChan) <= ChanCap

HasRoom == Len(queryChan) < ChanCap

\* Log(q): a non-blocking send, which drops the query when the channel is full.
Log ==
  /\ logged < MaxQueries
  /\ logged' = logged + 1
  /\ IF HasRoom
       THEN /\ queryChan' = Append(queryChan, logged')
            /\ accepted' = Append(accepted, logged')
       ELSE UNCHANGED <<queryChan, accepted>>
  /\ UNCHANGED <<lost, shutdown, tick, items, worker, iter, txn, disk, failures,
                 crashes, bvars>>

TickerFires ==
  /\ ~tick
  /\ tick' = TRUE
  /\ UNCHANGED <<history, queryChan, shutdown, items, worker, iter, txn, disk, failures,
                 crashes, bvars>>

\* Shutdown(): close(ql.shutdown); main then waits for the worker.
Shutdown ==
  /\ ~shutdown
  /\ shutdown' = TRUE
  /\ UNCHANGED <<history, queryChan, tick, items, worker, iter, txn, disk, failures,
                 crashes, bvars>>

-----------------------------------------------------------------------------
(* The worker's select.  Go picks any of the cases that are ready. *)

Goto(place) == wpc' = place /\ UNCHANGED stopping

TakeQuery ==
  /\ wpc = "select" /\ queryChan # <<>>
  /\ hand' = Head(queryChan)
  /\ queryChan' = Tail(queryChan)
  /\ Goto("append")
  /\ UNCHANGED <<history, shutdown, tick, items, iter, txn, disk, failures, crashes,
                 bvars>>

\* Nobody holds the lock of the queue for reading.
QueueIsFree == ipc # "send" /\ closing = 0 /\ ~leaked

\* ql.queue.Append(query)
AppendQuery ==
  /\ wpc = "append" /\ QueueIsFree
  /\ items' = Append(items, hand)
  /\ Goto("announce")
  /\ UNCHANGED <<history, inbox, hand, iter, txn, disk, failures, crashes, bvars>>

\* Broadcaster.broadcast(query)
Announce ==
  /\ wpc = "announce"
  /\ B!Broadcast(hand)
  /\ Goto("announcing")
  /\ UNCHANGED <<history, inbox, items, hand, iter, txn, disk, failures, crashes>>

OfferTo(s) ==
  /\ B!Offer(s)
  /\ UNCHANGED <<history, inbox, items, worker, iter, txn, disk, failures, crashes>>

Announced ==
  /\ wpc = "announcing"
  /\ B!BroadcastDone
  /\ hand' = Nil
  /\ Goto("select")
  /\ UNCHANGED <<history, inbox, items, iter, txn, disk, failures, crashes>>

TakeTick ==
  /\ wpc = "select" /\ tick
  /\ tick' = FALSE
  /\ Goto(IF items # <<>> THEN "begin" ELSE "select")
  /\ UNCHANGED <<history, queryChan, shutdown, items, hand, iter, txn, disk, failures,
                 crashes, bvars>>

\* What is still in queryChan stays there.
TakeShutdown ==
  /\ wpc = "select" /\ shutdown
  /\ stopping' = TRUE
  /\ wpc' = IF items # <<>> THEN "begin" ELSE "stopped"
  /\ UNCHANGED <<history, inbox, items, hand, iter, txn, disk, failures, crashes, bvars>>

-----------------------------------------------------------------------------
(* flush() *)

\* Mutant: flush goes on with the next query when an insert fails.
ExecOrSkip ==
  /\ wpc = "exec"
  /\ hand' = Nil
  /\ Goto("receive")
  /\ \/ txn' = Append(txn, hand) /\ UNCHANGED failures
     \/ failures < MaxFailures /\ failures' = failures + 1 /\ UNCHANGED txn
  /\ UNCHANGED <<history, inbox, items, iter, disk, crashes, bvars>>

\* Mutant: the worker ends with its first flush.
EndWorker == Goto("stopped")

LeaveFlush == Goto(IF stopping THEN "stopped" ELSE "select")

MayFail == failures < MaxFailures

\* An operation of the database fails: flush rolls back and returns.
Abort ==
  /\ MayFail
  /\ failures' = failures + 1
  /\ txn' = <<>>
  /\ LeaveFlush

Begin ==
  /\ wpc = "begin"
  /\ \/ Goto("prepare") /\ UNCHANGED <<txn, failures>>
     \/ Abort
  /\ UNCHANGED <<history, inbox, items, hand, iter, disk, crashes, bvars>>

\* tx.Prepare, and the call of Iterator, which starts a goroutine
Prepare ==
  /\ wpc = "prepare"
  /\ \/ /\ Goto("receive")
        /\ ipc' = "start" /\ ipos' = 1
        /\ UNCHANGED <<txn, failures>>
     \/ Abort /\ UNCHANGED <<ipc, ipos>>
  /\ UNCHANGED <<history, inbox, items, hand, closing, leaked, disk, crashes, bvars>>

\* s.RLock()
IteratorLocks ==
  /\ ipc = "start"
  /\ ipc' = "send"
  /\ UNCHANGED <<history, inbox, items, worker, ipos, closing, leaked, txn, disk,
                 failures, crashes, bvars>>

\* ch <- item meets the worker's range: the channel has no buffer.
HandOver ==
  /\ wpc = "receive" /\ ipc = "send" /\ ipos <= Len(items)
  /\ hand' = items[ipos]
  /\ ipos' = ipos + 1
  /\ Goto("exec")
  /\ UNCHANGED <<history, inbox, items, ipc, closing, leaked, txn, disk, failures,
                 crashes, bvars>>

\* close(ch)
IteratorCloses ==
  /\ ipc = "send" /\ ipos > Len(items)
  /\ ipc' = "none"
  /\ closing' = closing + 1
  /\ UNCHANGED <<history, inbox, items, worker, ipos, leaked, txn, disk, failures,
                 crashes, bvars>>

\* The deferred RUnlock.
IteratorUnlocks ==
  /\ closing > 0
  /\ closing' = closing - 1
  /\ UNCHANGED <<history, inbox, items, worker, ipc, ipos, leaked, txn, disk, failures,
                 crashes, bvars>>

\* stmt.Exec.  When it fails flush returns and nobody receives any more: an
\* iterator with items left keeps the lock, another one closes and unlocks.
Exec ==
  /\ wpc = "exec"
  /\ hand' = Nil
  /\ \/ /\ txn' = Append(txn, hand)
        /\ Goto("receive")
        /\ UNCHANGED <<iter, failures>>
     \/ /\ Abort
        /\ ipc' = "none"
        /\ leaked' = (leaked \/ ipos <= Len(items))
        /\ closing' = IF ipc = "send" /\ ipos > Len(items) THEN closing + 1 ELSE closing
        /\ UNCHANGED ipos
  /\ UNCHANGED <<history, inbox, items, disk, crashes, bvars>>

\* The range ends once the channel is closed.
RangeEnds ==
  /\ wpc = "receive" /\ ipc = "none"
  /\ Goto("commit")
  /\ UNCHANGED <<history, inbox, items, hand, iter, txn, disk, failures, crashes, bvars>>

\* Mutant: flush does not return when the commit fails.
CommitThenClear ==
  /\ wpc = "commit"
  /\ \/ db' = db \o txn /\ UNCHANGED failures
     \/ MayFail /\ failures' = failures + 1 /\ UNCHANGED db
  /\ txn' = <<>>
  /\ Goto("clear")
  /\ UNCHANGED <<history, inbox, items, hand, iter, expired, crashes, bvars>>

Commit ==
  /\ wpc = "commit"
  /\ \/ /\ db' = db \o txn
        /\ txn' = <<>>
        /\ Goto("clear")
        /\ UNCHANGED failures
     \/ Abort /\ UNCHANGED db
  /\ UNCHANGED <<history, inbox, items, hand, iter, expired, crashes, bvars>>

\* ql.queue.Clear()
Clear ==
  /\ wpc = "clear" /\ QueueIsFree
  /\ items' = <<>>
  /\ LeaveFlush
  /\ UNCHANGED <<history, inbox, hand, iter, txn, disk, failures, crashes, bvars>>

-----------------------------------------------------------------------------
(* The daily clean-up, and the process *)

\* Another query grows older than the retention.
GrowsOld ==
  /\ expired < logged
  /\ expired' = expired + 1
  /\ UNCHANGED <<history, inbox, items, worker, iter, txn, db, failures, crashes, bvars>>

DeleteOldQueries ==
  /\ db' = Select(db, {q \in Query : q > expired})
  /\ UNCHANGED <<history, inbox, items, worker, iter, txn, expired, failures, crashes,
                 bvars>>

\* The process dies, by a signal or because main returns, and is started again.
Restart ==
  /\ crashes < MaxCrashes
  /\ crashes' = crashes + 1
  /\ lost' = lost \cup {q \in RangeOf(accepted) : q > expired /\ q \notin RangeOf(db)}
  /\ queryChan' = <<>> /\ items' = <<>> /\ shutdown' = FALSE /\ tick' = FALSE
  /\ wpc' = "select" /\ hand' = Nil /\ stopping' = FALSE
  /\ ipc' = "none" /\ ipos' = 1 /\ closing' = 0 /\ leaked' = FALSE
  /\ txn' = <<>>
  /\ clients' = {} /\ closed' = {} /\ current' = Nil /\ offers' = {}
  /\ buffer' = [s \in Sub |-> <<>>]
  /\ inHand' = [s \in Sub |-> Nil]
  /\ watcher' = [s \in Sub |-> IF watcher[s] = "none" THEN "none" ELSE "gone"]
  /\ UNCHANGED <<logged, accepted, disk, failures, shown>>

Watchers(s) ==
  /\ B!Subscribe(s) \/ B!Watch(s)
  /\ UNCHANGED <<history, inbox, items, worker, iter, txn, disk, failures, crashes>>

-----------------------------------------------------------------------------
Worker ==
  \/ TakeQuery \/ AppendQuery \/ Announce \/ (\E s \in Sub : OfferTo(s)) \/ Announced
  \/ TakeTick \/ TakeShutdown
  \/ Begin \/ Prepare \/ HandOver \/ Exec \/ RangeEnds \/ Commit \/ Clear

Iterator == IteratorLocks \/ IteratorCloses \/ IteratorUnlocks

Next ==
  \/ Log \/ TickerFires \/ Shutdown
  \/ Worker \/ Iterator
  \/ GrowsOld \/ DeleteOldQueries \/ Restart
  \/ \E s \in Sub : Watchers(s)

Spec == Init /\ [][Next]_vars

\* The scheduler runs the worker, the iterators and the handlers whenever they
\* can go on, select leaves no ready case aside for ever, and the ticker ticks.
\* Nothing is assumed of Log, of clients, of time passing or of crashes.
Fairness ==
  /\ WF_vars(Worker) /\ SF_vars(TakeQuery) /\ SF_vars(TakeTick)
  /\ WF_vars(Iterator)
  /\ WF_vars(TickerFires)
  /\ \A s \in Sub : WF_vars(B!Watch(s) /\ Watchers(s))

FairSpec == Spec /\ Fairness

-----------------------------------------------------------------------------
(* Properties *)

\* Type invariant of the query log.
TypeOK ==
  /\ logged \in 0..MaxQueries
  /\ {accepted, queryChan, items, txn, db} \subseteq Seq(Query)
  /\ Len(queryChan) <= ChanCap
  /\ {shutdown, tick, stopping, leaked} \subseteq BOOLEAN
  /\ wpc \in WorkerPlace
  /\ hand \in Query \cup {Nil}
  /\ ipc \in {"none", "start", "send"} /\ ipos \in Nat /\ closing \in Nat
  /\ expired \in 0..logged
  /\ lost \in SUBSET Query
  /\ failures \in 0..MaxFailures /\ crashes \in 0..MaxCrashes
  /\ B!TypeOK

\* Between a commit and the Clear after it the queue repeats what is in the table.
Pending ==
  (IF wpc = "clear" THEN <<>> ELSE items)
    \o (IF wpc = "append" THEN <<hand>> ELSE <<>>) \o queryChan

\* Whatever fails and whenever the process dies, every accepted query that is
\* not older than the retention is exactly once, and in order, in the table or
\* on its way to it, unless it died with a process: a flush that failed loses
\* and repeats nothing (querylog.go flush, slices.go).
LogConserved ==
  LET Kept == {q \in Query : q > expired /\ q \notin lost}
  IN Select(accepted, Kept) = Select(db \o Pending, Kept)

Store == INSTANCE QueryStore WITH
  asked <- logged, waiting <- Pending, table <- db, old <- expired

\* The query log implements QueryStore: its queue, transactions and iterators,
\* with any call of the database failing and the process dying anywhere, come to
\* writing whole prefixes of what waits, each query once (querylog.go 99-205).
ImplementsQueryStore == Store!Spec

\* A live view never runs ahead of the log: what a process has shown or is
\* about to show of it is queued or stored, so only a crash can lose it.
ShownIsLogged ==
  \A s \in Sub : \A q \in RangeOf(shown[s]) \cup RangeOf(buffer[s]) :
    q > expired => q \in lost \cup RangeOf(items) \cup RangeOf(db)

\* A watcher sees queries in the order they were logged, none of them twice,
\* even if it is too slow to see them all (broadcast.go, ws.go).
ShownInOrder ==
  \A s \in Sub :
    LET seen == shown[s] \o (IF inHand[s] = Nil THEN <<>> ELSE <<inHand[s]>>) \o buffer[s]
    IN \A i, j \in DOMAIN seen : i < j => seen[i] < seen[j]

NoSendOnClosed == B!NoSendOnClosed
UnsubscribeCompletes == B!UnsubscribeCompletes

Stored(q) == q \in RangeOf(db)

\* The fate of a query Log accepted, once it can no longer be expected in the table.
WrittenOff(q) == shutdown \/ q \in lost \/ q <= expired

\* Every accepted query is stored, however flushes fail, as long as no insert
\* fails with items of the queue still to come.
StoredUnlessLeaked ==
  \A q \in Query :
    q \in RangeOf(accepted) ~> Stored(q) \/ WrittenOff(q) \/ leaked

\* docs/config.md:85: "Beacon DNS stores your queries for a configured retention
\* period".
EveryQueryStored ==
  \A q \in Query : q \in RangeOf(accepted) ~> Stored(q) \/ WrittenOff(q)
=============================================================================
