---------------------------- MODULE ClientNames ----------------------------
(***************************************************************************)
(* How a query gets the name of its client: handleRequest and              *)
(* lookupHostname (internal/dns/server.go, hostnames.go), with the names   *)
(* remembered in clientMap, a pkg/threadsafe ExpiryMap, in a process that  *)
(* reads a configuration file when it starts and may end at any time.      *)
(*                                                                         *)
(* A handler is a goroutine of the DNS server.  Get looks at the item it   *)
(* read after it gave the read lock back, and deletes the key under        *)
(* another lock, so other handlers come in between.  The unit of time is   *)
(* an hour; a query takes less, so the clock moves at most once meanwhile. *)
(***************************************************************************)
EXTENDS Config

CONSTANTS
  Handler,      \* goroutines that serve queries, again and again
  Ip,           \* addresses of clients
  Loopback,     \* ip.IsLoopback()
  Private,      \* ip.IsPrivate()
  OwnName,      \* os.Hostname(), if it knows
  Ptr,          \* first labels of the PTR records a reverse lookup may find
  At,           \* instants of a week: records of a day and a minute
  MaxTime       \* bound: the last hour

ASSUME ClientNamesAssumption == Loopback \cup Private \subseteq Ip /\ MaxTime \in Nat

VARIABLES
  now,          \* the clock
  proc,         \* the process: "up", "down", or "panicked"
  config,       \* config.All
  clientMap,    \* ip -> item
  pc,           \* where each handler is
  ip,           \* its client
  item,         \* the item Get has read
  hostname,     \* its variable hostname
  heard,        \* when that name was found out
  slow,         \* the clock has moved during this query
  known         \* the addresses whose name this process has found out

query == <<pc, ip, item, hostname, heard>>
vars  == <<now, proc, config, clientMap, query, slow, known>>

NoName == "-"

Hostname == Ip \cup Ptr \cup {OwnName} \cup
  UNION {{c.clients[i] : i \in DOMAIN c.clients} : c \in Configs}

\* An item of the ExpiryMap, with the hour its value was found out.
Item == [value : Hostname, expiration : Int, heard : 0..MaxTime]

ASSUME NilAssumption == Nil \notin Item

Init ==
  /\ now = 0
  /\ proc = "down" /\ config = Nil
  /\ clientMap = [i \in Ip |-> Nil]
  /\ pc = [h \in Handler |-> "idle"]
  /\ ip = [h \in Handler |-> Nil]
  /\ item = [h \in Handler |-> Nil]
  /\ hostname = [h \in Handler |-> NoName]
  /\ heard = [h \in Handler |-> 0]
  /\ slow = [h \in Handler |-> FALSE]
  /\ known = {}

-----------------------------------------------------------------------------
(* The process *)

\* config.Read, at the start of main: a file it refuses ends the process.
Start ==
  /\ proc # "up"
  /\ proc' = "up"
  /\ \E file \in Files : config' \in Read(file)
  /\ UNCHANGED <<now, clientMap, query, slow, known>>

\* Whatever was in memory is gone.
Exit(how) ==
  /\ proc' = how /\ config' = Nil
  /\ clientMap' = [i \in Ip |-> Nil]
  /\ pc' = [h \in Handler |-> "idle"]
  /\ ip' = [h \in Handler |-> Nil]
  /\ item' = [h \in Handler |-> Nil]
  /\ hostname' = [h \in Handler |-> NoName]
  /\ heard' = [h \in Handler |-> 0]
  /\ slow' = [h \in Handler |-> FALSE]
  /\ known' = {}
  /\ UNCHANGED now

Stop == proc = "up" /\ Exit("down")

-----------------------------------------------------------------------------
(* A query *)

Goto(h, place) == pc' = [pc EXCEPT ![h] = place]

\* process() is called with the name.
Named(h, name, time) ==
  /\ Goto(h, "named")
  /\ hostname' = [hostname EXCEPT ![h] = name]
  /\ heard' = [heard EXCEPT ![h] = time]
  /\ item' = [item EXCEPT ![h] = Nil]

\* A query of client i; the goroutine has answered any other before.
HandleRequest(h, i) ==
  /\ proc = "up" /\ pc[h] \in {"idle", "named"}
  /\ ip' = [ip EXCEPT ![h] = i]
  /\ slow' = [slow EXCEPT ![h] = FALSE]
  /\ IF config.logClients
       THEN /\ Goto(h, "get")
            /\ hostname' = [hostname EXCEPT ![h] = NoName]
            /\ heard' = [heard EXCEPT ![h] = 0]
            /\ UNCHANGED item
       ELSE Named(h, NoName, now)
  /\ UNCHANGED <<now, proc, config, clientMap, known>>

\* Get: the item is read under the read lock.
GetItem(h) ==
  /\ pc[h] = "get"
  /\ item' = [item EXCEPT ![h] = clientMap[ip[h]]]
  /\ Goto(h, IF clientMap[ip[h]] = Nil THEN "lookup" ELSE "check")
  /\ UNCHANGED <<now, proc, config, clientMap, ip, hostname, heard, slow, known>>

\* Mutant: no look at the time.
NeverExpired(it) == FALSE

IsExpired(it) == now > it.expiration

\* Get: the time is looked at later.
CheckItem(h) ==
  /\ pc[h] = "check"
  /\ IF IsExpired(item[h])
       THEN Goto(h, "delete") /\ UNCHANGED <<item, hostname, heard>>
       ELSE Named(h, item[h].value, item[h].heard)
  /\ UNCHANGED <<now, proc, config, clientMap, ip, slow, known>>

\* Mutant: the expired item is used once more.
DeleteAndUse(h) ==
  /\ pc[h] = "delete"
  /\ clientMap' = [clientMap EXCEPT ![ip[h]] = Nil]
  /\ Named(h, item[h].value, item[h].heard)
  /\ UNCHANGED <<now, proc, config, ip, slow, known>>

\* Get: the key is deleted, whatever is there by now.
DeleteItem(h) ==
  /\ pc[h] = "delete"
  /\ clientMap' = [clientMap EXCEPT ![ip[h]] = Nil]
  /\ item' = [item EXCEPT ![h] = Nil]
  /\ Goto(h, "lookup")
  /\ UNCHANGED <<now, proc, config, ip, hostname, heard, slow, known>>

\* Mutants: the error of os.Hostname is ignored; private addresses come first.
NameOrNothing(i) ==
  IF i \in DOMAIN config.clients THEN {config.clients[i]}
  ELSE IF i \in Loopback THEN {OwnName, ""}
  ELSE IF i \in Private \/ config.method # "rdns" THEN {i}
  ELSE {}
PrivateFirst(i) ==
  IF i \in Private THEN {i}
  ELSE IF i \in DOMAIN config.clients THEN {config.clients[i]}
  ELSE IF i \in Loopback THEN {OwnName, i}
  ELSE IF config.method = "rdns" THEN {} ELSE {i}

\* lookupHostname: the names found without asking anyone, {} if a reverse lookup
\* is needed.  os.Hostname may fail.
lookupHostname(i) ==
  IF i \in DOMAIN config.clients THEN {config.clients[i]}
  ELSE IF i \in Loopback THEN {OwnName, i}
  ELSE IF i \in Private \/ config.method # "rdns" THEN {i}
  ELSE {}

Lookup(h) ==
  /\ pc[h] = "lookup"
  /\ IF lookupHostname(ip[h]) = {}
       THEN Goto(h, "exchange") /\ UNCHANGED <<hostname, heard>>
       ELSE /\ \E name \in lookupHostname(ip[h]) : hostname' = [hostname EXCEPT ![h] = name]
            /\ heard' = [heard EXCEPT ![h] = now]
            /\ Goto(h, "set")
  /\ UNCHANGED <<now, proc, config, clientMap, ip, item, slow, known>>

\* reverseDNSLookup: a PTR record, or the address if the answer is empty.
reverseDNSLookup(h) ==
  /\ pc[h] = "exchange"
  /\ \E name \in Ptr \cup {ip[h]} : hostname' = [hostname EXCEPT ![h] = name]
  /\ heard' = [heard EXCEPT ![h] = now]
  /\ Goto(h, "set")
  /\ UNCHANGED <<now, proc, config, clientMap, ip, item, slow, known>>

\* reverseDNSLookup: no message after a failed exchange, or an answer that does
\* not begin with a PTR record.  Nothing recovers from the panic.
LookupPanics(h) == pc[h] = "exchange" /\ Exit("panicked")

\* clientMap.Set, and the name is used.
SetItem(h) ==
  /\ pc[h] = "set"
  /\ clientMap' = [clientMap EXCEPT ![ip[h]] =
       [value |-> hostname[h], expiration |-> now + config.refreshAfter, heard |-> heard[h]]]
  /\ known' = known \cup {ip[h]}
  /\ Named(h, hostname[h], heard[h])
  /\ UNCHANGED <<now, proc, config, ip, slow>>

-----------------------------------------------------------------------------
Busy(h) == pc[h] \notin {"idle", "named"}

Tick ==
  /\ now < MaxTime /\ \A h \in Handler : Busy(h) => ~slow[h]
  /\ now' = now + 1
  /\ slow' = [h \in Handler |-> Busy(h)]
  /\ UNCHANGED <<proc, config, clientMap, query, known>>

Handle(h) ==
  \/ GetItem(h) \/ CheckItem(h) \/ DeleteItem(h) \/ Lookup(h)
  \/ reverseDNSLookup(h) \/ LookupPanics(h) \/ SetItem(h)

Next ==
  \/ Tick \/ Start \/ Stop
  \/ \E h \in Handler : Handle(h) \/ \E i \in Ip : HandleRequest(h, i)

Spec == Init /\ [][Next]_vars

-----------------------------------------------------------------------------
(* Properties *)

\* Type invariant of the client names.
TypeOK ==
  /\ now \in 0..MaxTime
  /\ proc \in {"up", "down", "panicked"}
  /\ config \in IF proc = "up" THEN Configs ELSE {Nil}
  /\ clientMap \in [Ip -> Item \cup {Nil}]
  /\ pc \in [Handler -> {"idle", "get", "check", "delete", "lookup", "exchange", "set", "named"}]
  /\ \A h \in Handler : pc[h] # "idle" => proc = "up" /\ ip[h] \in Ip
  /\ \A h \in Handler : item[h] # Nil <=> pc[h] \in {"check", "delete"}
  /\ hostname \in [Handler -> Hostname \cup {NoName}]
  /\ heard \in [Handler -> 0..now] /\ slow \in [Handler -> BOOLEAN]
  /\ known \subseteq Ip

\* However the handlers race, no query is given a name that was found out more
\* than refresh_after before, but for the time a query takes: an item set late,
\* read before or after, deleted by another (maps.go:24-53, hostnames.go:41).
NameIsRecent ==
  [][\A h \in Handler : (pc[h] # "named" /\ pc'[h] = "named") =>
       now - heard'[h] <= Max({0, config.refreshAfter}) + 1]_vars

\* A Get that sees an expired item may delete a fresh one that was set since
\* (maps.go:44-47): whenever a name is dropped, the handler that dropped it is
\* about to find it out and set it again, so none is lost.
DroppedIsSought ==
  \A i \in known : clientMap[i] = Nil =>
    \E h \in Handler : ip[h] = i /\ pc[h] \in {"lookup", "exchange", "set"}

\* A device named in client_lookup.clients is filtered as the groups that have
\* it say, on every query, private address or not, whatever was remembered or
\* configured before; unless log_clients is off, which makes every client "-"
\* (server.go:33-41, hostnames.go:27-41, config.go:105-112).
StaticDeviceIsFiltered ==
  \A h \in Handler :
    (pc[h] = "named" /\ config.logClients /\ ip[h] \in DOMAIN config.clients) =>
      \A g \in DOMAIN config.groups :
        config.clients[ip[h]] \in config.groups[g].devices =>
          \A category \in config.groups[g].block, at \in At :
            IsClientBlocked(config, hostname[h], category, at)

\* What Read accepts, the rest of the program can work with: the scheduler has a
\* day on which the lists are due, the pattern search a whole day to look at,
\* and every period of a schedule is in force at some minute and over at
\* another (config.go:421-436, main.go:114-115).
AcceptedIsUsable ==
  proc = "up" =>
    /\ config.updateDays >= 1 /\ config.lookBack >= OneDay
    /\ \A s \in DOMAIN config.schedules : \A when \in config.schedules[s].when :
         /\ when.days \subseteq Weekday
         /\ \A period \in when.periods :
              InPeriod(period, period.start) /\ ~InPeriod(period, period.end)

-----------------------------------------------------------------------------
(* What the documentation says and the code does not do *)

\* hostnames.go:71-74: a reverse lookup that failed is logged, and the address
\* is used instead.
FailedLookupIsSurvived == proc # "panicked"
=============================================================================
