---------------------------- MODULE Broadcaster ----------------------------
(***************************************************************************)
(* The live view of the query log: internal/querylog/broadcast.go and the  *)
(* watch handler of internal/api/ws.go.  A subscription is a buffered      *)
(* channel and the goroutine of the websocket handler that drains it.      *)
(* broadcast holds the lock for reading while it offers a query to every   *)
(* channel; Subscribe and Unsubscribe hold it for writing, so each of them *)
(* is one step that waits until no broadcast is under way.                 *)
(***************************************************************************)
EXTENDS Integers, Sequences

CONSTANTS
  Query,      \* logged queries, Nil is none of them
  Sub,        \* subscriptions: one channel each, never used again
  Wants,      \* the queries whose hostname the request of a subscription names
  BufferCap,  \* capacity of a subscription's channel, at least 1
  Nil

VARIABLES
  clients,    \* QueryBroadcaster.clients
  closed,     \* channels that were closed
  buffer,     \* what a channel holds
  watcher,    \* where the handler goroutine of a subscription is
  inHand,     \* the query it is writing to the websocket
  shown,      \* what its websocket client was sent
  current,    \* the query being broadcast: the lock is held for reading
  offers      \* channels the loop of broadcast has yet to reach

bvars == <<clients, closed, buffer, watcher, inHand, shown, current, offers>>

WatcherPlace == {"none", "range", "write", "unsubscribe", "gone"}

Init ==
  /\ clients = {} /\ closed = {}
  /\ buffer = [s \in Sub |-> <<>>]
  /\ watcher = [s \in Sub |-> "none"]
  /\ inHand = [s \in Sub |-> Nil]
  /\ shown = [s \in Sub |-> <<>>]
  /\ current = Nil /\ offers = {}

\* Mutant: broadcast copies the clients and lets the lock go.
NoLock == TRUE

LockIsFree == current = Nil

Subscribe(s) ==
  /\ watcher[s] = "none" /\ LockIsFree
  /\ clients' = clients \cup {s}
  /\ watcher' = [watcher EXCEPT ![s] = "range"]
  /\ UNCHANGED <<closed, buffer, inHand, shown, current, offers>>

\* for query := range ch: a query of another client is passed over.
Receive(s) ==
  /\ watcher[s] = "range" /\ buffer[s] # <<>>
  /\ buffer' = [buffer EXCEPT ![s] = Tail(@)]
  /\ IF Head(buffer[s]) \in Wants[s]
       THEN /\ inHand' = [inHand EXCEPT ![s] = Head(buffer[s])]
            /\ watcher' = [watcher EXCEPT ![s] = "write"]
       ELSE UNCHANGED <<inHand, watcher>>
  /\ UNCHANGED <<clients, closed, shown, current, offers>>

\* ws.WriteJSON: only a write tells the handler that its client has gone.
WriteJSON(s) ==
  /\ watcher[s] = "write"
  /\ inHand' = [inHand EXCEPT ![s] = Nil]
  /\ \/ /\ shown' = [shown EXCEPT ![s] = Append(@, inHand[s])]
        /\ watcher' = [watcher EXCEPT ![s] = "range"]
     \/ /\ watcher' = [watcher EXCEPT ![s] = "unsubscribe"]
        /\ UNCHANGED shown
  /\ UNCHANGED <<clients, closed, buffer, current, offers>>

Unsubscribe(s) ==
  /\ watcher[s] = "unsubscribe" /\ LockIsFree
  /\ clients' = clients \ {s}
  /\ closed' = closed \cup {s}
  /\ watcher' = [watcher EXCEPT ![s] = "gone"]
  /\ UNCHANGED <<buffer, inHand, shown, current, offers>>

\* broadcast(query), called by the worker of the query logger only
Broadcast(q) ==
  /\ current = Nil
  /\ current' = q
  /\ offers' = clients
  /\ UNCHANGED <<clients, closed, buffer, watcher, inHand, shown>>

HasRoom(s) == Len(buffer[s]) < BufferCap

\* Mutants: at a full channel broadcast returns without unlocking, so that it is
\* never done; a send that is repeated while there is room.
OfferOrReturn(s) ==
  /\ s \in offers
  /\ IF HasRoom(s)
       THEN /\ offers' = offers \ {s}
            /\ buffer' = [buffer EXCEPT ![s] = Append(@, current)]
       ELSE offers' = {Nil} /\ UNCHANGED buffer
  /\ UNCHANGED <<clients, closed, watcher, inHand, shown, current>>

OfferAgain(s) ==
  /\ s \in offers
  /\ IF HasRoom(s)
       THEN buffer' = [buffer EXCEPT ![s] = Append(@, current)] /\ UNCHANGED offers
       ELSE offers' = offers \ {s} /\ UNCHANGED buffer
  /\ UNCHANGED <<clients, closed, watcher, inHand, shown, current>>

\* The non-blocking send: a channel that is full is skipped.
Offer(s) ==
  /\ s \in offers
  /\ offers' = offers \ {s}
  /\ buffer' = IF HasRoom(s) THEN [buffer EXCEPT ![s] = Append(@, current)] ELSE buffer
  /\ UNCHANGED <<clients, closed, watcher, inHand, shown, current>>

BroadcastDone ==
  /\ current # Nil /\ offers = {}
  /\ current' = Nil
  /\ UNCHANGED <<clients, closed, buffer, watcher, inHand, shown, offers>>

Watch(s) == Receive(s) \/ WriteJSON(s) \/ Unsubscribe(s)

-----------------------------------------------------------------------------
TypeOK ==
  /\ clients \in SUBSET Sub /\ closed \in SUBSET Sub
  /\ buffer \in [Sub -> Seq(Query)]
  /\ watcher \in [Sub -> WatcherPlace]
  /\ inHand \in [Sub -> Query \cup {Nil}]
  /\ shown \in [Sub -> Seq(Query)]
  /\ current \in Query \cup {Nil}
  /\ offers \in SUBSET Sub

\* A query is never sent on a closed channel, which would panic and end the
\* whole program: the channels of a broadcast under way are subscribed and open
\* (broadcast.go:25-44).
NoSendOnClosed ==
  /\ offers \subseteq clients
  /\ clients \cap closed = {}

\* A watcher that has given up is unsubscribed: a broadcast never waits for the
\* very watcher that waits for its lock (broadcast.go:37-42).
UnsubscribeCompletes ==
  \A s \in Sub : watcher[s] = "unsubscribe" ~> watcher[s] # "unsubscribe"
=============================================================================
